------------------------------- MODULE MCLauncher -------------------------------
(* An instance of the launcher for TLC: its threads, and a dialog from a key to *)
(* its end.  They share nothing but the main loop, which runs one at a time: a  *)
(* behaviour is one of one of them.                                             *)
EXTENDS WorkerPool, DmenuReader, TreeScan, Dialog

MCPageOf == [r \in Rows |-> IF r = "r3" THEN 2 ELSE 1]
MCNames ==
  [r \in Rows |-> CASE r = "r1" -> <<"a">> [] r = "r2" -> <<"m", "b">>
                    [] r = "r3" -> <<"c">>]
MCKind ==
  [r \in Rows |-> CASE r = "r1" -> "keep" [] r = "r2" -> "fallback"
                    [] r = "r3" -> "ask"]
MCLists ==
  {[rows |-> n, match |-> m \cap (0..(n - 1))] :
     n \in {1, 3, 4, 5}, m \in {{0, 3, 4}, {1, 2}}}

MCInput == <<"x", ";", ";", "x", "x", ";", "x">>

(* /t holds /t/a, which holds a b that is also /s.  The working directory is   *)
(* /w, where another b is; c is a directory whose type is unknown to readdir(). *)
Lies(type, name, dir, text) == [type |-> type, name |-> name, dir |-> dir, text |-> text]
MCTop == <<"t">>
MCDirectoryAt ==
  (MCTop :> "top") @@ (<<"t", "a">> :> "a") @@ (<<"t", "a", "b">> :> "b") @@
  (<<"s">> :> "b") @@ (<<"w", "b">> :> "other")
MCContents ==
  [top |-> <<Lies("file", "f", "none", <<>>), Lies("directory", "a", "a", <<>>),
             Lies("unknown", "c", "c", <<>>), Lies("link", "s", "b", <<<<"s">>>>)>>,
   a |-> <<Lies("link", "up", "top", <<MCTop>>), Lies("other", ".k", "none", <<>>),
           Lies("link", "r", "b", <<<<"w", "b">>>>),
           Lies("link", "broken", "none", <<<<"x">>>>), Lies("directory", "b", "b", <<>>)>>,
   b |-> <<Lies("unknown", "i", "none", <<>>), Lies("link", "c", "c", <<<<"w", "c">>>>)>>,
   c |-> <<Lies("file", "g", "none", <<>>)>>,
   other |-> <<Lies("file", "i", "none", <<>>)>>]

MCFits == [t \in {"a"} |-> [e \in 0..99 |-> e % 2 = 0]]
Answer(t, e, d) == [then |-> t, error |-> e, drops |-> d]
MCAnswers ==
  {Answer(MODE_EXIT, FALSE, FALSE), Answer(MODE_EXIT, TRUE, FALSE),
   Answer(RELOAD_DIALOG, FALSE, TRUE), Answer(RESET_DIALOG, TRUE, FALSE),
   Answer(1, FALSE, FALSE)}

Machines == {"pool", "reader", "scan", "dialog"}

Init ==
  \E w \in Machines :
    /\ PoolInit(w = "pool") /\ ReaderInit(w = "reader") /\ ScanInit(w = "scan")
    /\ DialogInit(w = "dialog")

Next ==
  \/ PoolNext /\ UNCHANGED <<readerVars, scanVars, world>>
  \/ ReaderNext /\ UNCHANGED <<poolVars, scanVars, world>>
  \/ ScanNext /\ UNCHANGED <<poolVars, readerVars, world>>
  \/ DialogNext /\ UNCHANGED <<poolVars, readerVars, scanVars>>

launcherVars == <<poolVars, readerVars, scanVars, world>>

Spec ==
  /\ Init /\ [][Next]_launcherVars
  /\ PoolFairness /\ ReaderFairness /\ ScanFairness /\ DialogFairness
================================================================================
