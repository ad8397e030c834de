------------------------------ MODULE BluetoothAgent -----------------------------
(* The pairing agent of the bluetooth panel under BlueZ                       *)
(* (modes/bluetooth-bluez.c): questions bluetoothd is blocked on, held until  *)
(* the user answers, while a Pair call may be in flight.                      *)
(*                                                                            *)
(* The panel may close and open again meanwhile, and bluetoothd may die:      *)
(* calls and replies of one session reach another.                            *)
EXTENDS Integers, Sequences

CONSTANTS
  MaxQuestions,  \* questions bluetoothd asks in a run
  MaxSessions,   \* panels opened in a run
  MaxCalls       \* calls of bluetoothd on the way

ASSUME AgentAssumption == {MaxQuestions, MaxSessions, MaxCalls} \subseteq Nat

Questions == 1..MaxQuestions

VARIABLES
  live,         \* a panel is open, in session generation
  generation,
  registered,   \* agent_registered
  pairing,
  request,      \* BZ_REQ_*: "none", "question", "notice"
  invocation,   \* the question held, or 0
  shown,        \* the rows: "list", "gone", "notice" or the question shown
  bluetoothd,   \* whose agent it calls: a session, 0 for none, -1: not running
  incoming,     \* calls of bluetoothd on the way to an agent
  answer,       \* per question: "unasked", "sent", "held", or its answer
  pairs         \* sessions whose Pair call is in flight

agentVars == <<live, generation, registered, pairing, request, invocation, shown,
               bluetoothd, incoming, answer, pairs>>

AgentInit(on) ==
  /\ live = FALSE /\ generation = 0 /\ registered = FALSE /\ pairing = FALSE
  /\ request = "none" /\ invocation = 0 /\ shown = "list"
  /\ bluetoothd = IF on THEN 0 ELSE -1
  /\ incoming = <<>> /\ answer = [q \in Questions |-> "unasked"] /\ pairs = {}
--------------------------------------------------------------------------------
(* bt_refresh(), bz_adapter(): a question or a notice is the whole surface,   *)
(* whether or not bluetoothd lists its objects.                               *)
Surface(req, inv) ==
  CASE req = "question" -> {<<"question", inv>>}
    [] req = "notice" -> {<<"notice", 0>>}
    [] req = "none" -> {<<"list", 0>>, <<"gone", 0>>}

(* An invocation is answered once; a second answer would be an error.         *)
Replied(q, reply) ==
  [answer EXCEPT ![q] = IF @ \in {"sent", "held"} THEN reply ELSE "twice"]

(* bz_agent_register(): RegisterAgent may be refused. *)
Register(session) ==
  \/ registered' = TRUE /\ bluetoothd # -1 /\ bluetoothd' = session
  \/ registered' = FALSE /\ UNCHANGED bluetoothd

(* bz_probe(), and the rows of a panel that opens. *)
OpenAgent ==
  /\ ~live /\ bluetoothd # -1 /\ generation < MaxSessions
  /\ live' = TRUE /\ generation' = generation + 1
  /\ Register(generation + 1)
  /\ shown' \in Surface(request, invocation)
  /\ UNCHANGED <<pairing, request, invocation, incoming, answer, pairs>>

(* bz_teardown(), also on Escape: closing refuses.                            *)
CloseAgent ==
  /\ live
  /\ live' = FALSE /\ pairing' = FALSE /\ registered' = FALSE
  /\ bluetoothd' = IF registered /\ bluetoothd = generation THEN 0 ELSE bluetoothd
  /\ answer' = IF invocation = 0 THEN answer ELSE Replied(invocation, "refused")
  /\ request' = "none" /\ invocation' = 0
  /\ UNCHANGED <<generation, shown, incoming, pairs>>

(* bz_changed(), bz_rebuild_now(): something changed, the rows are rebuilt.   *)
RebuildAgent ==
  /\ live
  /\ shown' \in Surface(request, invocation)
  /\ UNCHANGED <<live, generation, registered, pairing, request, invocation,
                 bluetoothd, incoming, answer, pairs>>
--------------------------------------------------------------------------------
(* Pairing: Enter on a device that is not paired. *)

(* bz_pair(): the call is in flight until bluetoothd replies, or the bus.     *)
Pair ==
  /\ live /\ shown = <<"list", 0>>
  /\ IF registered THEN UNCHANGED <<registered, bluetoothd>> ELSE Register(generation)
  /\ IF registered' /\ ~pairing
     THEN /\ pairing' = TRUE /\ pairs' = pairs \cup {generation}
          /\ shown' \in Surface(request, invocation)
     ELSE UNCHANGED <<pairing, pairs, shown>>
  /\ UNCHANGED <<live, generation, request, invocation, incoming, answer>>

(* Mutant of PairDone: whatever panel is open takes the reply for its own. *)
PairDoneAnySession(session) ==
  /\ session \in pairs
  /\ pairs' = pairs \ {session}
  /\ IF ~live THEN UNCHANGED <<pairing, request, shown>>
     ELSE /\ pairing' = FALSE
          /\ request' = IF invocation = 0 THEN "none" ELSE request
          /\ shown' \in Surface(request', invocation)
  /\ UNCHANGED <<live, generation, registered, invocation, bluetoothd, incoming, answer>>

(* bz_pair_done(): a notice goes with the pairing it was for. *)
PairDone(session) ==
  /\ session \in pairs
  /\ pairs' = pairs \ {session}
  /\ IF ~live \/ session # generation THEN UNCHANGED <<pairing, request, shown>>
     ELSE /\ pairing' = FALSE
          /\ request' = IF invocation = 0 THEN "none" ELSE request
          /\ shown' \in Surface(request', invocation)
  /\ UNCHANGED <<live, generation, registered, invocation, bluetoothd, incoming, answer>>

(* bz_request(), Enter on the row of a question or a notice: there is nothing *)
(* else to press Enter on.                                                    *)
AnswerRequest ==
  /\ live /\ shown[1] \in {"question", "notice"} /\ request # "none"
  /\ answer' = IF invocation = 0 THEN answer ELSE Replied(invocation, "accepted")
  /\ request' = "none" /\ invocation' = 0
  /\ shown' \in Surface("none", 0)
  /\ UNCHANGED <<live, generation, registered, pairing, bluetoothd, incoming, pairs>>
--------------------------------------------------------------------------------
(* bluetoothd (external): it calls the agent it knows, dies, starts again.    *)

CallAgent(what, question) ==
  /\ bluetoothd > 0 /\ Len(incoming) < MaxCalls
  /\ incoming' = Append(incoming, [what |-> what, question |-> question,
                             session |-> bluetoothd])
  /\ UNCHANGED <<live, generation, registered, pairing, request, invocation, shown,
                 bluetoothd, pairs>>

AskQuestion ==
  \E q \in Questions :
    /\ answer[q] = "unasked" /\ \A p \in 1..(q - 1) : answer[p] # "unasked"
    /\ CallAgent("question", q)
    /\ answer' = [answer EXCEPT ![q] = "sent"]

CallOther ==
  /\ \E what \in {"notice", "cancel", "passkey", "release"} : CallAgent(what, 0)
  /\ UNCHANGED answer

DieOrStart ==
  /\ bluetoothd' = IF bluetoothd = -1 THEN 0 ELSE -1
  /\ live \/ generation > 0
  /\ UNCHANGED <<live, generation, registered, pairing, request, invocation, shown,
                 incoming, answer, pairs>>
--------------------------------------------------------------------------------
(* bz_agent_method() *)

Delivered(c) ==
  /\ incoming # <<>> /\ c = Head(incoming)
  /\ incoming' = Tail(incoming)
  /\ UNCHANGED <<live, generation, pairing, bluetoothd, pairs>>

(* The object of another session is gone: the bus answers with an error. *)
Undelivered ==
  /\ incoming # <<>> /\ (~live \/ Head(incoming).session # generation)
  /\ Delivered(Head(incoming))
  /\ answer' = IF Head(incoming).what = "question"
               THEN Replied(Head(incoming).question, "refused") ELSE answer
  /\ UNCHANGED <<registered, request, invocation, shown>>

(* A call for this panel. *)
Arrived(what) ==
  /\ incoming # <<>> /\ live
  /\ Head(incoming).session = generation /\ Head(incoming).what = what
  /\ Delivered(Head(incoming))

(* bz_request_hold(): one question at a time, the others are refused. *)
ArriveQuestion ==
  /\ Arrived("question")
  /\ LET q == Head(incoming).question
     IN IF invocation # 0
        THEN /\ answer' = Replied(q, "refused")
             /\ UNCHANGED <<request, invocation, shown>>
        ELSE /\ answer' = [answer EXCEPT ![q] = "held"]
             /\ request' = "question" /\ invocation' = q
             /\ shown' \in Surface("question", q)
  /\ UNCHANGED registered

(* A notice does not replace a question. *)
ArriveNotice ==
  /\ Arrived("notice")
  /\ IF invocation # 0 THEN UNCHANGED <<request, shown>>
     ELSE request' = "notice" /\ shown' \in Surface("notice", 0)
  /\ UNCHANGED <<registered, invocation, answer>>

ArriveCancel ==
  /\ Arrived("cancel")
  /\ answer' = IF invocation = 0 THEN answer ELSE Replied(invocation, "refused")
  /\ request' = "none" /\ invocation' = 0
  /\ shown' \in Surface("none", 0)
  /\ UNCHANGED registered

(* RequestPasskey, RequestPinCode: refused at once.  Release: no agent.       *)
ArriveOther ==
  /\ Arrived("passkey") \/ Arrived("release")
  /\ registered' = (registered /\ Head(incoming).what # "release")
  /\ UNCHANGED <<request, invocation, shown, answer>>

AgentNext ==
  \/ OpenAgent \/ CloseAgent \/ RebuildAgent \/ Pair \/ AnswerRequest
  \/ \E s \in pairs : PairDone(s)
  \/ AskQuestion \/ CallOther \/ DieOrStart
  \/ Undelivered \/ ArriveQuestion \/ ArriveNotice \/ ArriveCancel \/ ArriveOther
--------------------------------------------------------------------------------
(* No question is lost or answered twice: one that has reached a panel and    *)
(* has no answer is the one held, and is the whole of what the panel shows;   *)
(* none is left when it closes.  A panel believes it is pairing when, and     *)
(* only when, a Pair call of its own is in flight.                            *)
QuestionsHeld ==
  /\ {q \in Questions : answer[q] \in {"held", "twice"}} = {invocation} \ {0}
  /\ invocation # 0 => live /\ shown = <<"question", invocation>>
  /\ live => (pairing <=> generation \in pairs)
================================================================================
