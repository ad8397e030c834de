------------------------------- MODULE WorkerPool -------------------------------
(* The pool of worker threads (view.c), the icons it loads for the rows on    *)
(* display (sofi-icon-fetcher.c) and the parts of a list it filters.          *)
(*                                                                            *)
(* A page change frees the pool and makes another without waiting: a thread   *)
(* is a slot <<p, n>>, the n-th of the p-th pool, and finishes its job after  *)
(* its pool is gone.                                                          *)
EXTENDS Integers, Sequences, FiniteSets, SequencesExt, Functions, SequenceLemmas

CONSTANTS
  Icons, Missing,      \* names of icons; those that cannot be loaded
  Rows, Pages,         \* rows that have icons, pages they are on
  PageOf, Names, Kind, \* per row: page, icons in order of preference, mode
  Threads,             \* threads of a pool
  MaxPools,            \* pools in a run
  Chunk, MaxParts,     \* rows that are worth a part (500), parts (threads * 4)
  Lists                \* lists filtered: [rows, matching rows]

ASSUME PoolAssumption ==
  /\ Missing \subseteq Icons /\ PageOf \in [Rows -> Pages]
  /\ Names \in [Rows -> Seq(Icons)]
  /\ Kind \in [Rows -> {"ask", "keep", "fallback"}]
  /\ \A r \in Rows : Kind[r] # "fallback" => Names[r] # <<>>
  /\ {Threads, MaxPools, Chunk, MaxParts} \subseteq Nat \ {0}
  /\ \A l \in Lists : l.rows \in Nat /\ l.match \subseteq 0..(l.rows - 1)

Slots == (1..MaxPools) \X (1..Threads)

VARIABLES
  program,          \* "off", "up", "leaving", "gone"
  pool, queue,      \* the pool in use; its jobs, first to run first
  running,          \* per slot: the job and where it is, or Idle
  dropped,          \* per pool: icons of jobs it was freed with
  icon,             \* per icon: IconFetcherEntry
  row,              \* per row: what its mode remembers, and the surface drawn
  main,             \* where the main thread is
  page, dirty,      \* page on display; it must be drawn again
  held, timers,     \* WlState.idle_timeout is set; timeouts that are attached
  idles,            \* sofi_icon_fetcher_reload_idle() calls that are queued
  filter            \* the refilter in progress, or over and to be drawn

poolVars == <<program, pool, queue, running, dropped, icon, row, main, page,
              dirty, held, timers, idles, filter>>

NoJob == [kind |-> "none"]
Idle == [at |-> "idle", job |-> NoJob]
Free == [at |-> "loop"]
Unfiltered == [at |-> "none"]

OnPage == {r \in Rows : PageOf[r] = page}

Blank == [known |-> FALSE, started |-> FALSE, done |-> FALSE, surface |-> FALSE]

PoolInit(on) ==
  /\ program = IF on THEN "up" ELSE "off"
  /\ pool = 1 /\ queue = <<>> /\ dropped = [p \in 1..MaxPools |-> {}]
  /\ running = [s \in Slots |-> Idle]
  /\ icon = [i \in Icons |-> Blank]
  /\ row = [r \in Rows |-> [asked |-> FALSE, choice |-> 1, drawn |-> FALSE]]
  /\ main = Free /\ page = (CHOOSE p \in Pages : TRUE) /\ dirty = TRUE
  /\ held = FALSE /\ timers = 0 /\ idles = 0
  /\ filter = Unfiltered
--------------------------------------------------------------------------------
(* The icon fetcher, called by the main thread. *)

LoadJob(i) == [kind |-> "icon", name |-> i]

(* sofi_icon_fetcher_query(): an entry that is not started is pushed again,   *)
(* and stays not started.                                                     *)
Query(i) ==
  /\ icon' = IF icon[i].known THEN icon
             ELSE [icon EXCEPT ![i] = [Blank EXCEPT !.known = TRUE,
                                                    !.started = TRUE]]
  /\ queue' = IF icon[i].known /\ icon[i].started THEN queue
              ELSE Append(queue, LoadJob(i))

(* The row whose icon the main thread is at, and the rows after it. *)
DrawRows(r) ==
  main' = IF main.rows = {r} THEN Free ELSE [at |-> "draw", rows |-> main.rows \ {r}]

(* A repaint: the rows of the page are drawn one after the other. *)
StartDraw ==
  /\ program = "up" /\ main = Free /\ dirty
  /\ dirty' = FALSE
  /\ main' = [at |-> "draw", rows |-> OnPage]
  /\ filter' = Unfiltered
  /\ UNCHANGED <<program, pool, queue, running, dropped, icon, row, page, held,
                 timers, idles>>

(* filebrowser: the icon is asked for whenever the row is drawn; drun: once,  *)
(* then only fetched.                                                         *)
DrawRow(r) ==
  /\ main.at = "draw" /\ r \in main.rows /\ Kind[r] \in {"ask", "keep"}
  /\ LET i == Names[r][1]
     IN /\ IF Kind[r] = "ask" \/ ~row[r].asked
           THEN Query(i)
           ELSE UNCHANGED <<icon, queue>>
        /\ row' = [row EXCEPT ![r].asked = TRUE, ![r].drawn = icon[i].surface]
  /\ DrawRows(r)
  /\ UNCHANGED <<program, pool, running, dropped, page, dirty, held, timers,
                 idles, filter>>

(* dmenu, script: the first icon of the row that can be loaded. *)
AskRow(r) ==
  /\ main.at = "draw" /\ r \in main.rows /\ Kind[r] = "fallback"
  /\ ~row[r].asked
  /\ IF row[r].choice <= Len(Names[r])
     THEN /\ Query(Names[r][row[r].choice])
          /\ row' = [row EXCEPT ![r].asked = TRUE, ![r].drawn = FALSE]
     ELSE UNCHANGED <<icon, queue, row>>
  /\ DrawRows(r)
  /\ UNCHANGED <<program, pool, running, dropped, page, dirty, held, timers,
                 idles, filter>>

(* sofi_icon_fetcher_get_ex(): the flag, then the surface. *)
ReadFlag(r) ==
  /\ main.at = "draw" /\ r \in main.rows /\ Kind[r] = "fallback"
  /\ row[r].asked
  /\ main' = [at |-> "got", rows |-> main.rows, row |-> r,
              flag |-> icon[Names[r][row[r].choice]].done]
  /\ UNCHANGED <<program, pool, queue, running, dropped, icon, row, page, dirty,
                 held, timers, idles, filter>>

(* Then a surface is drawn, and an icon that is done without one is passed    *)
(* over for the next.                                                         *)
ReadSurface ==
  /\ main.at = "got"
  /\ LET r == main.row
         s == icon[Names[r][row[r].choice]].surface
     IN IF ~s /\ main.flag
        THEN /\ row' = [row EXCEPT ![r].choice = @ + 1, ![r].asked = FALSE,
                                   ![r].drawn = FALSE]
             /\ main' = [at |-> "draw", rows |-> main.rows]
        ELSE /\ row' = [row EXCEPT ![r].drawn = s]
             /\ DrawRows(r)
  /\ UNCHANGED <<program, pool, queue, running, dropped, icon, page, dirty, held,
                 timers, idles, filter>>
--------------------------------------------------------------------------------
(* The pool. *)

Busy(p) == \E n \in 1..Threads : running[<<p, n>>] # Idle

LoadsOf(jobs) == {jobs[k].name : k \in {m \in DOMAIN jobs : jobs[m].kind = "icon"}}

Unstarted(names) ==
  [i \in Icons |-> IF i \in names THEN [icon[i] EXCEPT !.started = FALSE]
                   ELSE icon[i]]

(* page_changed_callback(), then the rows of the new page are drawn.  What    *)
(* was queued is freed with the pool: at once, or by its last running thread. *)
TurnPage(p) ==
  /\ program = "up" /\ main = Free /\ p # page /\ pool < MaxPools
  /\ page' = p /\ pool' = pool + 1 /\ queue' = <<>>
  /\ IF Busy(pool)
     THEN /\ dropped' = [dropped EXCEPT ![pool] = LoadsOf(queue)]
          /\ UNCHANGED icon
     ELSE /\ icon' = Unstarted(LoadsOf(queue))
          /\ UNCHANGED dropped
  /\ main' = [at |-> "draw", rows |-> {r \in Rows : PageOf[r] = p}]
  /\ dirty' = FALSE
  /\ row' = [r \in Rows |-> [row[r] EXCEPT !.drawn = FALSE]]
  /\ UNCHANGED <<program, running, held, timers, idles, filter>>

(* A thread of the pool takes the first job. *)
Take(n) ==
  /\ program = "up" /\ queue # <<>> /\ running[<<pool, n>>] = Idle
  /\ running' = [running EXCEPT ![<<pool, n>>] = [at |-> "start", job |-> Head(queue)]]
  /\ queue' = Tail(queue)
  /\ UNCHANGED <<program, pool, dropped, icon, row, main, page, dirty, held,
                 timers, idles, filter>>

At(s, kind, place) == running[s].at = place /\ running[s].job.kind = kind

Goto(s, place) == running' = [running EXCEPT ![s].at = place]

(* The job is over; the last one of a pool that was freed frees its queue. *)
EndJob(s, icons) ==
  /\ running' = [running EXCEPT ![s] = Idle]
  /\ IF s[1] < pool /\ \A n \in 1..Threads : <<s[1], n>> # s => running[<<s[1], n>>] = Idle
     THEN /\ icon' = [i \in Icons |->
                        IF i \in dropped[s[1]]
                        THEN [icons[i] EXCEPT !.started = FALSE] ELSE icons[i]]
          /\ dropped' = [dropped EXCEPT ![s[1]] = {}]
     ELSE icon' = icons /\ UNCHANGED dropped

(* Mutant of Publish: the flag is set before the surface. *)
PublishFlag(s) ==
  /\ At(s, "icon", "start") /\ running[s].job.name \notin Missing
  /\ icon' = [icon EXCEPT ![running[s].job.name].done = TRUE]
  /\ Goto(s, "loaded")
  /\ UNCHANGED <<program, pool, queue, dropped, row, main, page, dirty, held,
                 timers, idles, filter>>

(* sofi_icon_fetcher_worker(): the surface ... *)
Publish(s) ==
  /\ At(s, "icon", "start") /\ running[s].job.name \notin Missing
  /\ icon' = [icon EXCEPT ![running[s].job.name].surface = TRUE]
  /\ Goto(s, "loaded")
  /\ UNCHANGED <<program, pool, queue, dropped, row, main, page, dirty, held,
                 timers, idles, filter>>

(* ... then the flag ... *)
Finished(s) ==
  /\ At(s, "icon", "loaded")
  /\ icon' = [icon EXCEPT ![running[s].job.name].done = TRUE,
                          ![running[s].job.name].surface = TRUE]
  /\ Goto(s, "done")
  /\ UNCHANGED <<program, pool, queue, dropped, row, main, page, dirty, held,
                 timers, idles, filter>>

(* Mutant of AskReload: nothing is redrawn for an icon that was loaded. *)
AskNoReload(s) ==
  /\ At(s, "icon", "done")
  /\ EndJob(s, icon)
  /\ UNCHANGED <<program, pool, queue, row, main, page, dirty, held, timers,
                 idles, filter>>

(* ... and the main loop is asked to reload the view. *)
AskReload(s) ==
  /\ At(s, "icon", "done")
  /\ idles' = idles + 1
  /\ EndJob(s, icon)
  /\ UNCHANGED <<program, pool, queue, row, main, page, dirty, held, timers,
                 filter>>

(* An icon that cannot be loaded: the thread calls sofi_view_reload() itself, *)
(* which tests idle_timeout, ...                                              *)
Fail(s) ==
  /\ At(s, "icon", "start") /\ running[s].job.name \in Missing
  /\ icon' = [icon EXCEPT ![running[s].job.name].done = TRUE]
  /\ Goto(s, "failed")
  /\ UNCHANGED <<program, pool, queue, dropped, row, main, page, dirty, held,
                 timers, idles, filter>>

TestReload(s) ==
  /\ At(s, "icon", "failed")
  /\ IF held THEN EndJob(s, icon) ELSE Goto(s, "arm") /\ UNCHANGED <<icon, dropped>>
  /\ UNCHANGED <<program, pool, queue, row, main, page, dirty, held, timers,
                 idles, filter>>

(* ... attaches a timeout, ... *)
ArmReload(s) ==
  /\ At(s, "icon", "arm")
  /\ timers' = timers + 1
  /\ Goto(s, "store")
  /\ UNCHANGED <<program, pool, queue, dropped, icon, row, main, page, dirty,
                 held, idles, filter>>

(* ... and stores its id. *)
StoreReload(s) ==
  /\ At(s, "icon", "store")
  /\ held' = TRUE
  /\ EndJob(s, icon)
  /\ UNCHANGED <<program, pool, queue, row, main, page, dirty, timers, idles,
                 filter>>

(* sofi_icon_fetcher_reload_idle() *)
ReloadIdle ==
  /\ program = "up" /\ main = Free /\ idles > 0
  /\ idles' = idles - 1
  /\ IF held THEN UNCHANGED <<held, timers>>
     ELSE held' = TRUE /\ timers' = timers + 1
  /\ UNCHANGED <<program, pool, queue, running, dropped, icon, row, main, page,
                 dirty, filter>>

(* wayland_sofi_view_reload_idle(): the list is filtered and drawn again. *)
ReloadDue ==
  /\ program = "up" /\ main = Free /\ timers > 0
  /\ timers' = timers - 1
  /\ held' = FALSE /\ dirty' = TRUE
  /\ UNCHANGED <<program, pool, queue, running, dropped, icon, row, main, page,
                 idles, filter>>
--------------------------------------------------------------------------------
(* The filter: sofi_view_refilter_real(). *)

Lesser(a, b) == IF a < b THEN a ELSE b

Parts(n) == Lesser(IF n \div Chunk > 1 THEN n \div Chunk ELSE 1, MaxParts)

(* Mutant of Steps: the remainder of the division is lost. *)
StepsFloor(n) == n \div Parts(n)

Steps(n) == (n + Parts(n)) \div Parts(n)

Start(n, k) == k * Steps(n)
Stop(n, k) == Lesser(n, (k + 1) * Steps(n))

(* The rows from one place on, up to another. *)
Span(from, to) ==
  [m \in 1..(IF from < to THEN to - from ELSE 0) |-> from + m - 1]

(* filter_elements(): the rows of a part that match, from its first place on. *)
Part(l, k) ==
  Without(Span(Start(l.rows, k), Stop(l.rows, k)), (0..(l.rows - 1)) \ l.match)

PartJob(k) == [kind |-> "part", part |-> k]
PartJobs(n) == [k \in 1..(Parts(n) - 1) |-> PartJob(k)]

(* The parts are queued in front of the icons; the first is filtered here. *)
StartFilter(l) ==
  /\ program = "up" /\ main = Free /\ filter = Unfiltered
  /\ filter' = [at |-> "parts", list |-> l, found |-> [k \in {0} |-> Part(l, 0)]]
  /\ queue' = PartJobs(l.rows) \o queue
  /\ main' = [at |-> "wait"]
  /\ UNCHANGED <<program, pool, running, dropped, icon, row, page, dirty, held,
                 timers, idles>>

FilterPart(s) ==
  /\ At(s, "part", "start")
  /\ LET k == running[s].job.part
     IN filter' = [filter EXCEPT !.found =
                     [j \in DOMAIN @ \cup {k} |->
                        IF j = k THEN Part(filter.list, k) ELSE @[j]]]
  /\ EndJob(s, icon)
  /\ UNCHANGED <<program, pool, queue, row, main, page, dirty, held, timers,
                 idles>>

(* All parts are in: line_map is compacted, and the list is drawn. *)
EndFilter ==
  /\ main.at = "wait"
  /\ Cardinality(DOMAIN filter.found) = Parts(filter.list.rows)
  /\ filter' = [at |-> "done", list |-> filter.list,
                lines |-> FlattenSeq([k \in 1..Parts(filter.list.rows) |->
                                        filter.found[k - 1]])]
  /\ main' = Free /\ dirty' = TRUE
  /\ UNCHANGED <<program, pool, queue, running, dropped, icon, row, page, held,
                 timers, idles>>
--------------------------------------------------------------------------------
(* cleanup(): the queue is discarded and the threads of the pool in use are   *)
(* waited for, then the icons are freed.                                      *)
Leave ==
  /\ program = "up" /\ main = Free
  /\ program' = "leaving"
  /\ queue' = <<>>
  /\ icon' = Unstarted(LoadsOf(queue))
  /\ UNCHANGED <<pool, running, dropped, row, main, page, dirty, held, timers,
                 idles, filter>>

DestroyIcons ==
  /\ program = "leaving" /\ ~Busy(pool)
  /\ program' = "gone"
  /\ UNCHANGED <<pool, queue, running, dropped, icon, row, main, page, dirty,
                 held, timers, idles, filter>>

Thread(s) ==
  \/ Publish(s) \/ Finished(s) \/ AskReload(s)
  \/ Fail(s) \/ TestReload(s) \/ ArmReload(s) \/ StoreReload(s)
  \/ FilterPart(s)

Draw ==
  \/ StartDraw \/ ReadSurface
  \/ \E r \in Rows : DrawRow(r) \/ AskRow(r) \/ ReadFlag(r)

PoolNext ==
  \/ Draw
  \/ \E p \in Pages : TurnPage(p)
  \/ \E n \in 1..Threads : Take(n)
  \/ \E s \in Slots : Thread(s)
  \/ ReloadIdle \/ ReloadDue
  \/ \E l \in Lists : StartFilter(l)
  \/ EndFilter
  \/ Leave \/ DestroyIcons

(* Threads run and loads end; the main loop dispatches what is due. *)
PoolFairness ==
  /\ \A s \in Slots : WF_poolVars(Thread(s))
  /\ \A n \in 1..Threads : WF_poolVars(Take(n))
  /\ WF_poolVars(Draw) /\ WF_poolVars(EndFilter)
  /\ SF_poolVars(ReloadIdle) /\ SF_poolVars(ReloadDue)
--------------------------------------------------------------------------------
(* A filtered list holds the rows that match, each once and in order, however *)
(* many parts it was cut into and whichever thread did which.                 *)
FilterExact ==
  filter.at = "done" =>
    /\ ToSet(filter.lines) = filter.list.match
    /\ \A m, n \in DOMAIN filter.lines : m < n => filter.lines[m] < filter.lines[n]

(* The guard of sofi_view_reload() is set and nothing will reset it: a thread *)
(* stored the id of a timeout that had already fired.                         *)
ReloadStuck ==
  /\ held /\ timers = 0
  /\ \A s \in Slots : running[s] # Idle => running[s].at # "store"

(* A row falls back to its next icon only when the one before cannot be       *)
(* loaded, although the main thread reads flag and surface without a lock.    *)
OnlyMissingPassed ==
  \A r \in Rows : \A k \in 1..(row[r].choice - 1) : Names[r][k] \in Missing

(* Rows fall back as OnlyMissingPassed says, and an icon that a thread has    *)
(* loaded for a row on display is drawn in the end, as long as no thread has  *)
(* spoilt the reload guard.                                                   *)
IconsShown ==
  /\ []OnlyMissingPassed
  /\ \A r \in Rows :
       LET i == Names[r][row[r].choice]
       IN (program = "up" /\ r \in OnPage /\ row[r].choice <= Len(Names[r])
             /\ row[r].asked /\ icon[i].surface)
          ~> (program # "up" \/ r \notin OnPage \/ row[r].drawn \/ ReloadStuck)
================================================================================
