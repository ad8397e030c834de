------------------------------ MODULE DesktopProofs -----------------------------
(* What holds of the tray and of the panels for every value of the constants,   *)
(* as theorems of the specification that the run of MCDesktop checks.           *)
EXTENDS MCDesktop, SequenceTheorems, FiniteSetTheorems, TLAPS

(* A step of the whole is one of a part, or leaves it as it is. *)
LEMMA PartSteps ==
  ASSUME [Next]_vars
  PROVE  /\ [TrayNext]_trayVars /\ [NetworkNext]_networkVars /\ [AgentNext]_agentVars
         /\ [PairingNext]_pairingVars /\ [DisplayNext]_displayVars
BY DEF Next, vars

(* What is queued and taken: the head is the first, the others move up. *)
LEMMA TailOf ==
  ASSUME NEW S, NEW s \in Seq(S), s # <<>>
  PROVE  /\ Tail(s) \in Seq(S) /\ Head(s) = s[1] /\ s[1] \in S /\ 1 \in DOMAIN s
         /\ \A n \in DOMAIN Tail(s) : n + 1 \in DOMAIN s /\ Tail(s)[n] = s[n + 1]
<1>1. Len(s) \in Nat /\ Len(s) >= 1 /\ DOMAIN s = 1..Len(s)
  BY EmptySeq, LenProperties
<1>2. /\ Tail(s) \in Seq(S) /\ Len(Tail(s)) = Len(s) - 1 /\ Head(s) = s[1]
      /\ \A n \in 1..Len(Tail(s)) : Tail(s)[n] = s[n + 1]
  BY HeadTailProperties
<1>3. DOMAIN Tail(s) = 1..Len(Tail(s))
  BY <1>2, LenProperties
<1> QED BY <1>1, <1>2, <1>3, ElementOfSeq

LEMMA AppendOf ==
  ASSUME NEW S, NEW s \in Seq(S), NEW e \in S
  PROVE  /\ Append(s, e) \in Seq(S)
         /\ DOMAIN Append(s, e) = DOMAIN s \cup {Len(s) + 1} /\ Len(s) + 1 \notin DOMAIN s
         /\ \A n \in DOMAIN s : Append(s, e)[n] = s[n]
         /\ Append(s, e)[Len(s) + 1] = e
<1>1. Len(s) \in Nat /\ DOMAIN s = 1..Len(s)
  BY LenProperties
<1>2. /\ Append(s, e) \in Seq(S) /\ Len(Append(s, e)) = Len(s) + 1
      /\ Append(s, e)[Len(s) + 1] = e
      /\ \A n \in 1..Len(s) : Append(s, e)[n] = s[n]
  BY AppendProperties
<1>3. DOMAIN Append(s, e) = 1..(Len(s) + 1)
  BY <1>2, LenProperties
<1> QED BY <1>1, <1>2, <1>3
--------------------------------------------------------------------------------
(* The pairing agent. *)

Replies == {"unasked", "sent", "held", "accepted", "refused", "twice"}
AgentCalls == [what : {"question", "notice", "cancel", "passkey", "release"},
               question : 0..MaxQuestions, session : Nat]

AgentTyped ==
  /\ live \in BOOLEAN /\ registered \in BOOLEAN /\ pairing \in BOOLEAN
  /\ generation \in Nat /\ invocation \in 0..MaxQuestions
  /\ bluetoothd \in Int
  /\ incoming \in Seq(AgentCalls)
  /\ answer \in [Questions -> Replies]

(* The question that is held is the only one so marked, and is what is shown.  *)
OneHeld ==
  /\ \A q \in Questions : answer[q] # "twice" /\ (answer[q] = "held" <=> q = invocation)
  /\ invocation # 0 =>
       live /\ request = "question" /\ shown = <<"question", invocation>>

(* A question that is on its way is marked so, and is on its way once.         *)
AsksAt(n, q) == incoming[n].what = "question" /\ incoming[n].question = q
OnItsWayOnce ==
  /\ \A n \in DOMAIN incoming : incoming[n].what = "question" =>
       incoming[n].question \in Questions /\ answer[incoming[n].question] = "sent"
  /\ \A m, n \in DOMAIN incoming :
       incoming[m].what = "question" /\ AsksAt(n, incoming[m].question) => m = n

(* Calls of Pair are of sessions so far, the open one's exactly while it pairs. *)
PairsOwned ==
  /\ pairs \subseteq 1..generation
  /\ live => generation >= 1 /\ (pairing <=> generation \in pairs)
  /\ ~live => ~pairing

AgentIInv == AgentTyped /\ OneHeld /\ OnItsWayOnce /\ PairsOwned

LEMMA AgentEnough == AgentIInv => QuestionsHeld
<1> SUFFICES ASSUME AgentIInv PROVE QuestionsHeld
  OBVIOUS
<1>1. {q \in Questions : answer[q] \in {"held", "twice"}} = {invocation} \ {0}
  <2>1. invocation # 0 => invocation \in Questions
    BY AgentAssumption DEF AgentIInv, AgentTyped, Questions
  <2>2. 0 \notin Questions
    BY DEF Questions
  <2> QED BY <2>1, <2>2 DEF AgentIInv, OneHeld
<1> QED BY <1>1 DEF AgentIInv, OneHeld, PairsOwned, QuestionsHeld

LEMMA AgentInitially == ASSUME NEW on \in BOOLEAN, AgentInit(on) PROVE AgentIInv
<1>1. AgentTyped
  <2>1. <<>> \in Seq(AgentCalls) /\ 0 \in 0..MaxQuestions
    BY AgentAssumption
  <2>2. answer \in [Questions -> Replies]
    BY DEF AgentInit, Replies
  <2>3. bluetoothd \in {0, -1}
    BY Zenon DEF AgentInit
  <2>4. bluetoothd \in Int
    BY <2>3
  <2> QED BY <2>1, <2>2, <2>4 DEF AgentInit, AgentTyped
<1>2. 0 \notin Questions /\ DOMAIN incoming = {}
  BY DEF AgentInit, Questions
<1> QED BY <1>1, <1>2 DEF AgentInit, AgentIInv, OneHeld, OnItsWayOnce, PairsOwned

(* A question that is held or on its way is answered: no other has an answer   *)
(* taken from it.                                                             *)
LEMMA RepliedOnce ==
  ASSUME AgentIInv, NEW q \in Questions, answer[q] \in {"sent", "held"},
         NEW reply \in {"accepted", "refused"}
  PROVE  /\ Replied(q, reply) \in [Questions -> Replies]
         /\ Replied(q, reply)[q] = reply
         /\ \A p \in Questions \ {q} : Replied(q, reply)[p] = answer[p]
<1>1. answer \in [Questions -> Replies] /\ reply \in Replies
  BY DEF AgentIInv, AgentTyped, Replies
<1>2. Replied(q, reply) = [answer EXCEPT ![q] = reply]
  BY <1>1 DEF Replied
<1> QED BY <1>1, <1>2

(* What remains of the calls when the first is taken, and a question that was  *)
(* the first is on its way no more.                                            *)
LEMMA FirstTaken ==
  ASSUME AgentIInv, incoming # <<>>, incoming' = Tail(incoming)
  PROVE  /\ incoming' \in Seq(AgentCalls) /\ Head(incoming) \in AgentCalls
         /\ \A n \in DOMAIN incoming' :
              n + 1 \in DOMAIN incoming /\ incoming'[n] = incoming[n + 1]
         /\ Head(incoming).what = "question" =>
              /\ Head(incoming).question \in Questions
              /\ answer[Head(incoming).question] = "sent"
              /\ \A n \in DOMAIN incoming' : ~(/\ incoming'[n].what = "question"
                   /\ incoming'[n].question = Head(incoming).question)
<1>1. incoming \in Seq(AgentCalls)
  BY DEF AgentIInv, AgentTyped
<1>2. /\ Tail(incoming) \in Seq(AgentCalls) /\ Head(incoming) = incoming[1]
      /\ incoming[1] \in AgentCalls /\ 1 \in DOMAIN incoming
      /\ \A n \in DOMAIN Tail(incoming) :
           n + 1 \in DOMAIN incoming /\ Tail(incoming)[n] = incoming[n + 1]
  BY <1>1, TailOf
<1>3. DOMAIN Tail(incoming) \subseteq Nat \ {0}
  BY <1>2, LenProperties
<1>4. ASSUME Head(incoming).what = "question"
      PROVE  /\ Head(incoming).question \in Questions
             /\ answer[Head(incoming).question] = "sent"
             /\ \A n \in DOMAIN incoming' : ~(/\ incoming'[n].what = "question"
                   /\ incoming'[n].question = Head(incoming).question)
  <2>1. ASSUME NEW n \in DOMAIN incoming', incoming'[n].what = "question",
               incoming'[n].question = Head(incoming).question
        PROVE  FALSE
    <3>1. n + 1 \in DOMAIN incoming /\ incoming'[n] = incoming[n + 1] /\ n + 1 # 1
      BY <1>2, <1>3, <2>1
    <3> QED BY <1>2, <1>4, <2>1, <3>1 DEF AgentIInv, OnItsWayOnce, AsksAt
  <2> QED BY <1>2, <1>4, <2>1 DEF AgentIInv, OnItsWayOnce
<1> QED BY <1>2, <1>4

(* Where no new call is made, and an answer changes only of a question that is *)
(* not on its way any more, the others are on their way as before.             *)
LEMMA StillOnItsWay ==
  ASSUME AgentIInv,
         \/ incoming' = incoming
         \/ incoming # <<>> /\ incoming' = Tail(incoming),
         \A n \in DOMAIN incoming' : incoming'[n].what = "question" =>
           answer'[incoming'[n].question] = answer[incoming'[n].question]
  PROVE  OnItsWayOnce'
<1>1. CASE incoming' = incoming
  BY <1>1 DEF AgentIInv, OnItsWayOnce, AsksAt
<1>2. CASE incoming # <<>> /\ incoming' = Tail(incoming)
  <2>1. \A n \in DOMAIN incoming' :
          n + 1 \in DOMAIN incoming /\ incoming'[n] = incoming[n + 1]
    BY <1>2, FirstTaken
  <2>2. DOMAIN incoming' \subseteq Nat
    BY <1>2, FirstTaken, LenProperties
  <2>3. ASSUME NEW m \in DOMAIN incoming', NEW n \in DOMAIN incoming',
               m + 1 = n + 1
        PROVE  m = n
    BY <2>2, <2>3
  <2> QED BY <2>1, <2>3 DEF AgentIInv, OnItsWayOnce, AsksAt
<1> QED BY <1>1, <1>2

(* An answer taken from the question that is held, if any: it is held no more. *)
LEMMA HeldAnswered ==
  ASSUME AgentIInv, NEW reply \in {"accepted", "refused"},
         answer' = IF invocation = 0 THEN answer ELSE Replied(invocation, reply)
  PROVE  /\ answer' \in [Questions -> Replies]
         /\ \A q \in Questions : answer'[q] \notin {"twice", "held"}
         /\ \A q \in Questions : answer[q] = "sent" => answer'[q] = "sent"
<1>1. /\ answer \in [Questions -> Replies] /\ invocation \in 0..MaxQuestions
      /\ \A q \in Questions : answer[q] # "twice" /\ (answer[q] = "held" <=> q = invocation)
  BY DEF AgentIInv, AgentTyped, OneHeld
<1>2. CASE invocation = 0
  BY <1>1, <1>2 DEF Questions
<1>3. CASE invocation # 0
  <2>1. invocation \in Questions
    BY <1>1, <1>3, AgentAssumption DEF Questions
  <2>2. answer[invocation] = "held"
    BY <1>1, <2>1
  <2> QED BY <1>1, <1>3, <2>1, <2>2, RepliedOnce
<1> QED BY <1>2, <1>3

LEMMA AgentStep ==
  ASSUME AgentIInv, AgentNext PROVE AgentIInv'
<1> USE AgentAssumption
<1> DEFINE same == incoming' = incoming /\ answer' = answer
<1>1. ASSUME answer' = answer, incoming' = incoming PROVE OnItsWayOnce'
  BY <1>1, StillOnItsWay
<1>2. CASE OpenAgent
  <2>1. AgentTyped'
    <3>1. generation' \in Nat /\ generation' = generation + 1
      BY <1>2 DEF OpenAgent, AgentIInv, AgentTyped
    <3>2. registered' \in BOOLEAN /\ bluetoothd' \in {bluetoothd, generation + 1}
      BY <1>2, Zenon DEF OpenAgent, Register
    <3>3. bluetoothd' \in Int
      BY <3>1, <3>2 DEF AgentIInv, AgentTyped
    <3> QED BY <1>2, <3>1, <3>2, <3>3 DEF OpenAgent, AgentIInv, AgentTyped
  <2>2. OneHeld' /\ PairsOwned'
    BY <1>2 DEF OpenAgent, AgentIInv, AgentTyped, OneHeld, PairsOwned
  <2> QED BY <1>1, <1>2, <2>1, <2>2 DEF OpenAgent, AgentIInv
<1>3. CASE CloseAgent
  <2>1. /\ answer' \in [Questions -> Replies]
        /\ \A q \in Questions : answer'[q] \notin {"twice", "held"}
        /\ \A q \in Questions : answer[q] = "sent" => answer'[q] = "sent"
    BY <1>3, HeldAnswered DEF CloseAgent
  <2>2. AgentTyped'
    <3>1. bluetoothd' \in Int
      BY <1>3 DEF CloseAgent, AgentIInv, AgentTyped
    <3>2. 0 \in 0..MaxQuestions
      OBVIOUS
    <3> QED BY <1>3, <2>1, <3>1, <3>2 DEF CloseAgent, AgentIInv, AgentTyped
  <2>3. OneHeld' /\ PairsOwned'
    BY <1>3, <2>1 DEF CloseAgent, AgentIInv, AgentTyped, OneHeld, PairsOwned, Questions
  <2>4. OnItsWayOnce'
    BY <1>3, <2>1, StillOnItsWay DEF CloseAgent, AgentIInv, OnItsWayOnce
  <2> QED BY <2>2, <2>3, <2>4 DEF AgentIInv
<1>4. CASE RebuildAgent
  <2>1. AgentTyped' /\ OneHeld' /\ PairsOwned'
    BY <1>4 DEF RebuildAgent, Surface, AgentIInv, AgentTyped, OneHeld, PairsOwned
  <2> QED BY <1>1, <1>4, <2>1 DEF RebuildAgent, AgentIInv
<1>5. CASE Pair
  <2>1. AgentTyped'
    <3>1. registered' \in BOOLEAN /\ bluetoothd' \in Int
      <4>1. registered' \in {registered, TRUE, FALSE}
            /\ bluetoothd' \in {bluetoothd, generation}
        BY <1>5, Zenon DEF Pair, Register
      <4>2. registered' \in BOOLEAN
        BY <4>1, Zenon DEF AgentIInv, AgentTyped
      <4>3. bluetoothd' \in Int
        BY <4>1 DEF AgentIInv, AgentTyped
      <4> QED BY <4>2, <4>3
    <3>2. pairing' \in BOOLEAN
      BY <1>5 DEF Pair, AgentIInv, AgentTyped
    <3> QED BY <1>5, <3>1, <3>2 DEF Pair, AgentIInv, AgentTyped
  <2>2. OneHeld'
    BY <1>5 DEF Pair, Surface, AgentIInv, AgentTyped, OneHeld
  <2>3. PairsOwned'
    <3>1. live /\ live' /\ generation' = generation /\ generation >= 1 /\ generation \in Nat
      BY <1>5 DEF Pair, AgentIInv, AgentTyped, PairsOwned
    <3>2. \/ pairing' = TRUE /\ pairs' = pairs \cup {generation}
          \/ pairing' = pairing /\ pairs' = pairs
      BY <1>5 DEF Pair
    <3>3. CASE pairing' = TRUE /\ pairs' = pairs \cup {generation}
      BY <3>1, <3>3 DEF AgentIInv, PairsOwned
    <3>4. CASE pairing' = pairing /\ pairs' = pairs
      BY <3>1, <3>4 DEF AgentIInv, PairsOwned
    <3> QED BY <3>2, <3>3, <3>4
  <2> QED BY <1>1, <1>5, <2>1, <2>2, <2>3 DEF Pair, AgentIInv
<1>6. CASE AnswerRequest
  <2>1. /\ answer' \in [Questions -> Replies]
        /\ \A q \in Questions : answer'[q] \notin {"twice", "held"}
        /\ \A q \in Questions : answer[q] = "sent" => answer'[q] = "sent"
    BY <1>6, HeldAnswered DEF AnswerRequest
  <2>2. AgentTyped'
    BY <1>6, <2>1 DEF AnswerRequest, AgentIInv, AgentTyped
  <2>3. OneHeld' /\ PairsOwned'
    BY <1>6, <2>1 DEF AnswerRequest, AgentIInv, AgentTyped, OneHeld, PairsOwned, Questions
  <2>4. OnItsWayOnce'
    BY <1>6, <2>1, StillOnItsWay DEF AnswerRequest, AgentIInv, OnItsWayOnce
  <2> QED BY <2>2, <2>3, <2>4 DEF AgentIInv
<1>7. ASSUME NEW s \in pairs, PairDone(s) PROVE AgentIInv'
  <2>1. AgentTyped'
    BY <1>7 DEF PairDone, AgentIInv, AgentTyped
  <2>2. OneHeld'
    BY <1>7 DEF PairDone, Surface, AgentIInv, AgentTyped, OneHeld
  <2>3. PairsOwned'
    BY <1>7 DEF PairDone, AgentIInv, AgentTyped, PairsOwned
  <2> QED BY <1>1, <1>7, <2>1, <2>2, <2>3 DEF PairDone, AgentIInv
<1>8. ASSUME NEW what \in {"question", "notice", "cancel", "passkey", "release"},
             NEW question \in 0..MaxQuestions, CallAgent(what, question)
      PROVE  /\ incoming' \in Seq(AgentCalls)
             /\ DOMAIN incoming' = DOMAIN incoming \cup {Len(incoming) + 1}
             /\ Len(incoming) + 1 \notin DOMAIN incoming
             /\ \A n \in DOMAIN incoming : incoming'[n] = incoming[n]
             /\ incoming'[Len(incoming) + 1].what = what
             /\ incoming'[Len(incoming) + 1].question = question
  <2> DEFINE call == [what |-> what, question |-> question, session |-> bluetoothd]
  <2>1. bluetoothd \in Nat
    BY <1>8 DEF CallAgent, AgentIInv, AgentTyped
  <2>2. call \in AgentCalls /\ call.what = what /\ call.question = question
    BY <2>1 DEF AgentCalls
  <2>3. incoming \in Seq(AgentCalls) /\ incoming' = Append(incoming, call)
    BY <1>8 DEF CallAgent, AgentIInv, AgentTyped
  <2> HIDE DEF call
  <2> QED BY <2>2, <2>3, AppendOf
<1>9. CASE AskQuestion
  <2>1. PICK q \in Questions : /\ answer[q] = "unasked" /\ CallAgent("question", q)
                               /\ answer' = [answer EXCEPT ![q] = "sent"]
    BY <1>9 DEF AskQuestion
  <2>2. /\ incoming' \in Seq(AgentCalls)
        /\ DOMAIN incoming' = DOMAIN incoming \cup {Len(incoming) + 1}
        /\ Len(incoming) + 1 \notin DOMAIN incoming
        /\ \A n \in DOMAIN incoming : incoming'[n] = incoming[n]
        /\ incoming'[Len(incoming) + 1].what = "question"
        /\ incoming'[Len(incoming) + 1].question = q
    <3>1. q \in 0..MaxQuestions /\ CallAgent("question", q)
      BY <2>1 DEF Questions
    <3> QED BY <1>8, <3>1
  <2>3. AgentTyped'
    BY <2>1, <2>2 DEF CallAgent, AgentIInv, AgentTyped, Replies
  <2>4. OneHeld' /\ PairsOwned'
    BY <2>1 DEF CallAgent, AgentIInv, AgentTyped, OneHeld, PairsOwned
  <2>5. OnItsWayOnce'
    BY <2>1, <2>2 DEF AgentIInv, AgentTyped, OnItsWayOnce, AsksAt
  <2> QED BY <2>3, <2>4, <2>5 DEF AgentIInv
<1>10. CASE CallOther
  <2>1. PICK what \in {"notice", "cancel", "passkey", "release"} : CallAgent(what, 0)
    BY <1>10 DEF CallOther
  <2>2. /\ incoming' \in Seq(AgentCalls)
        /\ DOMAIN incoming' = DOMAIN incoming \cup {Len(incoming) + 1}
        /\ Len(incoming) + 1 \notin DOMAIN incoming
        /\ \A n \in DOMAIN incoming : incoming'[n] = incoming[n]
        /\ incoming'[Len(incoming) + 1].what = what
    <3>1. what \in {"question", "notice", "cancel", "passkey", "release"}
          /\ 0 \in 0..MaxQuestions
      BY <2>1
    <3> QED BY <1>8, <2>1, <3>1
  <2>3. AgentTyped'
    BY <1>10, <2>1, <2>2 DEF CallOther, CallAgent, AgentIInv, AgentTyped
  <2>4. OneHeld' /\ PairsOwned'
    BY <1>10, <2>1 DEF CallOther, CallAgent, AgentIInv, AgentTyped, OneHeld, PairsOwned
  <2>5. OnItsWayOnce'
    BY <1>10, <2>1, <2>2 DEF CallOther, AgentIInv, AgentTyped, OnItsWayOnce, AsksAt
  <2> QED BY <2>3, <2>4, <2>5 DEF AgentIInv
<1>11. CASE DieOrStart
  <2>1. AgentTyped' /\ OneHeld' /\ PairsOwned'
    BY <1>11 DEF DieOrStart, AgentIInv, AgentTyped, OneHeld, PairsOwned
  <2> QED BY <1>1, <1>11, <2>1 DEF DieOrStart, AgentIInv
<1>12. CASE Undelivered
  <2>1. incoming # <<>> /\ incoming' = Tail(incoming)
    BY <1>12 DEF Undelivered, Delivered
  <2>2. ASSUME Head(incoming).what = "question" PROVE AgentIInv'
    <3> DEFINE q == Head(incoming).question
    <3>1. /\ q \in Questions /\ answer[q] = "sent" /\ answer' = Replied(q, "refused")
          /\ \A n \in DOMAIN incoming' :
               ~(incoming'[n].what = "question" /\ incoming'[n].question = q)
      BY <1>12, <2>1, <2>2, FirstTaken DEF Undelivered
    <3> HIDE DEF q
    <3>2. /\ answer' \in [Questions -> Replies] /\ answer'[q] = "refused"
          /\ \A p \in Questions \ {q} : answer'[p] = answer[p]
      BY <3>1, RepliedOnce
    <3>3. AgentTyped'
      BY <1>12, <2>1, <3>2, FirstTaken
      DEF Undelivered, Delivered, AgentIInv, AgentTyped
    <3>4. OneHeld' /\ PairsOwned'
      BY <1>12, <3>1, <3>2
      DEF Undelivered, Delivered, AgentIInv, AgentTyped, OneHeld, PairsOwned
    <3>5. \A n \in DOMAIN incoming' : incoming'[n].what = "question" =>
            incoming'[n].question \in Questions \ {q}
      BY <2>1, <3>1, FirstTaken DEF AgentIInv, OnItsWayOnce
    <3>6. OnItsWayOnce'
      BY <2>1, <3>2, <3>5, StillOnItsWay
    <3> QED BY <3>3, <3>4, <3>6 DEF AgentIInv
  <2>3. ASSUME Head(incoming).what # "question" PROVE AgentIInv'
    <3>1. answer' = answer
      BY <1>12, <2>3 DEF Undelivered
    <3>2. AgentTyped'
      BY <1>12, <2>1, <3>1, FirstTaken
      DEF Undelivered, Delivered, AgentIInv, AgentTyped
    <3>3. OneHeld' /\ PairsOwned'
      BY <1>12, <3>1
      DEF Undelivered, Delivered, AgentIInv, AgentTyped, OneHeld, PairsOwned
    <3> QED BY <2>1, <3>1, <3>2, <3>3, StillOnItsWay DEF AgentIInv
  <2> QED BY <2>2, <2>3
<1>13. CASE ArriveQuestion
  <2> DEFINE q == Head(incoming).question
  <2>1. incoming # <<>> /\ incoming' = Tail(incoming) /\ live
        /\ Head(incoming).what = "question"
        /\ UNCHANGED <<live, generation, pairing, bluetoothd, pairs, registered>>
    BY <1>13 DEF ArriveQuestion, Arrived, Delivered
  <2>2. /\ q \in Questions /\ answer[q] = "sent"
        /\ \A n \in DOMAIN incoming' :
             ~(incoming'[n].what = "question" /\ incoming'[n].question = q)
    BY <2>1, FirstTaken
  <2>3. /\ invocation # 0 => /\ answer' = Replied(q, "refused")
                             /\ UNCHANGED <<request, invocation, shown>>
        /\ invocation = 0 => /\ answer' = [answer EXCEPT ![q] = "held"]
                             /\ request' = "question" /\ invocation' = q
                             /\ shown' \in Surface("question", q)
    BY <1>13 DEF ArriveQuestion
  <2> HIDE DEF q
  <2>4. /\ answer' \in [Questions -> Replies]
        /\ answer'[q] = IF invocation = 0 THEN "held" ELSE "refused"
        /\ \A p \in Questions \ {q} : answer'[p] = answer[p]
    <3>1. CASE invocation # 0
      BY <2>2, <2>3, <3>1, RepliedOnce
    <3>2. CASE invocation = 0
      BY <2>2, <2>3, <3>2 DEF AgentIInv, AgentTyped, Replies
    <3> QED BY <3>1, <3>2
  <2>5. q # 0 /\ q \in 0..MaxQuestions
    BY <2>2 DEF Questions
  <2>6. AgentTyped'
    BY <2>1, <2>3, <2>4, <2>5, FirstTaken DEF AgentIInv, AgentTyped
  <2>7. OneHeld' /\ PairsOwned'
    BY <2>1, <2>2, <2>3, <2>4, <2>5
    DEF Surface, AgentIInv, AgentTyped, OneHeld, PairsOwned, Questions
  <2>8. \A n \in DOMAIN incoming' : incoming'[n].what = "question" =>
          incoming'[n].question \in Questions \ {q}
    BY <2>1, <2>2, FirstTaken DEF AgentIInv, OnItsWayOnce
  <2>9. OnItsWayOnce'
    BY <2>1, <2>4, <2>8, StillOnItsWay
  <2> QED BY <2>6, <2>7, <2>9 DEF AgentIInv
<1>14. CASE ArriveNotice
  <2>1. incoming # <<>> /\ incoming' = Tail(incoming) /\ answer' = answer
        /\ UNCHANGED <<live, generation, pairing, bluetoothd, pairs, registered, invocation>>
    BY <1>14 DEF ArriveNotice, Arrived, Delivered
  <2>2. AgentTyped'
    BY <2>1, FirstTaken DEF AgentIInv, AgentTyped
  <2>3. OneHeld' /\ PairsOwned'
    BY <1>14, <2>1 DEF ArriveNotice, AgentIInv, AgentTyped, OneHeld, PairsOwned
  <2> QED BY <2>1, <2>2, <2>3, StillOnItsWay DEF AgentIInv
<1>15. CASE ArriveCancel
  <2>1. incoming # <<>> /\ incoming' = Tail(incoming)
        /\ UNCHANGED <<live, generation, pairing, bluetoothd, pairs, registered>>
    BY <1>15 DEF ArriveCancel, Arrived, Delivered
  <2>2. /\ answer' \in [Questions -> Replies]
        /\ \A q \in Questions : answer'[q] \notin {"twice", "held"}
        /\ \A q \in Questions : answer[q] = "sent" => answer'[q] = "sent"
    BY <1>15, HeldAnswered DEF ArriveCancel
  <2>3. AgentTyped'
    BY <1>15, <2>1, <2>2, FirstTaken DEF ArriveCancel, AgentIInv, AgentTyped
  <2>4. OneHeld' /\ PairsOwned'
    BY <1>15, <2>1, <2>2 DEF ArriveCancel, AgentIInv, AgentTyped, OneHeld, PairsOwned, Questions
  <2>5. \A n \in DOMAIN incoming' : incoming'[n].what = "question" =>
          answer'[incoming'[n].question] = answer[incoming'[n].question]
    BY <2>1, <2>2, FirstTaken DEF AgentIInv, OnItsWayOnce
  <2> QED BY <2>1, <2>3, <2>4, <2>5, StillOnItsWay DEF AgentIInv
<1>16. CASE ArriveOther
  <2>1. incoming # <<>> /\ incoming' = Tail(incoming) /\ answer' = answer
        /\ UNCHANGED <<live, generation, pairing, bluetoothd, pairs, request, invocation, shown>>
        /\ registered' \in BOOLEAN
    BY <1>16 DEF ArriveOther, Arrived, Delivered
  <2>2. AgentTyped'
    BY <2>1, FirstTaken DEF AgentIInv, AgentTyped
  <2>3. OneHeld' /\ PairsOwned'
    BY <2>1 DEF AgentIInv, AgentTyped, OneHeld, PairsOwned
  <2> QED BY <2>1, <2>2, <2>3, StillOnItsWay DEF AgentIInv
<1> QED
  BY <1>2, <1>3, <1>4, <1>5, <1>6, <1>7, <1>9, <1>10, <1>11, <1>12, <1>13, <1>14,
     <1>15, <1>16 DEF AgentNext

(* However calls, replies, deaths of bluetoothd and panels that close and open  *)
(* are interleaved, a question that reached a panel is held until it has been   *)
(* answered, once, and only the pairing of the open panel is taken for its own  *)
(* (bluetooth-bluez.c:1582-1904).                                               *)
THEOREM QuestionsAnswered == Spec => []QuestionsHeld
<1>1. Init => AgentIInv
  <2> SUFFICES ASSUME NEW part \in Parts, InitOf(part) PROVE AgentIInv
    BY DEF Init
  <2>1. (part = "agent") \in BOOLEAN /\ AgentInit(part = "agent")
    BY DEF InitOf
  <2> QED BY <2>1, AgentInitially
<1>2. AgentIInv /\ [Next]_vars => AgentIInv'
  <2> SUFFICES ASSUME AgentIInv, [Next]_vars PROVE AgentIInv'
    OBVIOUS
  <2>1. CASE AgentNext
    BY <2>1, AgentStep
  <2>2. CASE UNCHANGED agentVars
    BY <2>2 DEF agentVars, AgentIInv, AgentTyped, OneHeld, OnItsWayOnce, AsksAt, PairsOwned
  <2> QED BY <2>1, <2>2, PartSteps
<1>3. AgentIInv => QuestionsHeld
  BY AgentEnough
<1> QED BY <1>1, <1>2, <1>3, PTL DEF Spec
--------------------------------------------------------------------------------
(* The display panel. *)

(* A row is about one output; no level is shown but the three.                 *)
LevelsAndRows ==
  /\ view \in {"outputs", "output", "picker"}
  /\ \A r \in rows : r = PanelRow(r.kind, r.output)
DisplayIInv == LevelsAndRows /\ LastOutputStaysOn

LEMMA DisplayInitially == ASSUME NEW on, DisplayInit(on) PROVE DisplayIInv
BY DEF DisplayInit, DisplayIInv, LevelsAndRows, LastOutputStaysOn

(* display_refresh() of any level. *)
LEMMA ListedLevels ==
  ASSUME NEW l, NEW level \in {"outputs", "output", "picker"}, NEW f,
         ListOutputs(l, level, f)
  PROVE  LevelsAndRows'
<1> DEFINE lost == level = "output" /\ (f = NoOutput \/ l[f] = "gone")
<1>1. view' \in {"outputs", "output", "picker"}
  BY DEF ListOutputs
<1>2. rows' = CASE lost \/ level = "outputs" -> OutputRows(l)
                [] level = "output" /\ ~lost -> ControlRows(l, f)
                [] level = "picker" -> ValueRows(l, f)
  BY DEF ListOutputs
<1>3. rows' \in {OutputRows(l), ControlRows(l, f), ValueRows(l, f)}
  BY <1>2
<1>4. ASSUME NEW r \in rows' PROVE r = PanelRow(r.kind, r.output)
  <2>1. \E kind, o : r = PanelRow(kind, o)
    BY <1>3, <1>4, Zenon DEF OutputRows, ControlRows, ValueRows
  <2> QED BY <2>1 DEF PanelRow
<1> QED BY <1>1, <1>4 DEF LevelsAndRows

(* A verb that was told off by the listing it is judged by turns off no output  *)
(* that is the last of it.                                                      *)
LEMMA NotTheLast ==
  ASSUME NEW o, ~Refused(o) PROVE "last" \notin Harm(o)
<1> SUFFICES ASSUME OutputsOn(machine) = {o}, outputs = machine PROVE FALSE
  BY DEF Harm
<1>1. Cardinality(OutputsOn(outputs)) = 1
  BY FS_Singleton
<1> QED BY <1>1 DEF Refused

LEMMA DisplayStep == ASSUME DisplayIInv, DisplayNext PROVE DisplayIInv'
<1>1. view \in {"outputs", "output", "picker"} /\ "last" \notin harm
      /\ (armed # NoOutput => entered = PanelRow("enable", armed))
  BY DEF DisplayIInv, LevelsAndRows, LastOutputStaysOn
<1>2. ASSUME NEW r \in rows PROVE r = PanelRow(r.kind, r.output)
  BY DEF DisplayIInv, LevelsAndRows
<1>3. ASSUME NEW level \in {"outputs", "output", "picker"}, NEW f, GoTo(level, f)
      PROVE  LevelsAndRows' /\ harm' = harm
  BY <1>3, ListedLevels DEF GoTo
<1>4. ASSUME NEW o, NEW state, ApplyOutput(o, state) PROVE LevelsAndRows'
  BY <1>1, <1>4, ListedLevels DEF ApplyOutput
<1>5. CASE OpenPanel
  <2>1. LevelsAndRows'
    BY <1>5, ListedLevels DEF OpenPanel
  <2> QED BY <1>1, <1>5, <2>1 DEF OpenPanel, DisplayIInv, LastOutputStaysOn
<1>6. CASE ReloadOutputs
  <2>1. LevelsAndRows'
    BY <1>1, <1>6, ListedLevels DEF ReloadOutputs
  <2> QED BY <1>1, <1>6, <2>1 DEF ReloadOutputs, DisplayIInv, LastOutputStaysOn
<1>7. CASE BackLevel
  <2>1. LevelsAndRows' /\ harm' = harm
    <3>1. CASE view = "outputs"
      BY <1>7, <3>1 DEF BackLevel, DisplayIInv, LevelsAndRows
    <3>2. CASE view # "outputs"
      BY <1>3, <1>7, <3>2 DEF BackLevel
    <3> QED BY <3>1, <3>2
  <2> QED BY <1>1, <1>7, <2>1 DEF BackLevel, DisplayIInv, LastOutputStaysOn
<1>8. ASSUME NEW o \in Outputs, Hotplug(o) PROVE DisplayIInv'
  BY <1>8 DEF Hotplug, DisplayIInv, LevelsAndRows, LastOutputStaysOn
<1>9. ASSUME NEW r \in rows, EnterOutput(r) PROVE DisplayIInv'
  BY <1>1, <1>3, <1>9 DEF EnterOutput, EnterRow, DisplayIInv, LastOutputStaysOn
<1>10. ASSUME NEW r \in rows, EnterBack(r) PROVE DisplayIInv'
  BY <1>1, <1>3, <1>10 DEF EnterBack, EnterRow, DisplayIInv, LastOutputStaysOn
<1>11. ASSUME NEW r \in rows, EnterPicker(r) PROVE DisplayIInv'
  BY <1>1, <1>3, <1>11 DEF EnterPicker, EnterRow, DisplayIInv, LastOutputStaysOn
<1>12. ASSUME NEW r \in rows, EnterValue(r) PROVE DisplayIInv'
  <2>1. LevelsAndRows' /\ harm' = harm
    BY <1>1, <1>3, <1>4, <1>12 DEF EnterValue
  <2> QED BY <1>1, <1>12, <2>1 DEF EnterValue, EnterRow, DisplayIInv, LastOutputStaysOn
<1>13. ASSUME NEW r \in rows, EnterOn(r) PROVE DisplayIInv'
  <2>1. LevelsAndRows' /\ harm' = harm
    BY <1>4, <1>13 DEF EnterOn
  <2>2. armed' # NoOutput => entered' = PanelRow("enable", armed')
    BY <1>13 DEF EnterOn, EnterRow, Disarmed
  <2> QED BY <1>1, <2>1, <2>2 DEF DisplayIInv, LastOutputStaysOn
<1>14. ASSUME NEW r \in rows, Arm(r) PROVE DisplayIInv'
  <2>1. LevelsAndRows' /\ harm' = harm
    BY <1>1, <1>3, <1>14 DEF Arm
  <2>2. entered' = PanelRow("enable", armed')
    BY <1>2, <1>14 DEF Arm, EnterRow
  <2> QED BY <1>1, <2>1, <2>2 DEF DisplayIInv, LastOutputStaysOn
<1>15. ASSUME NEW r \in rows, TurnOff(r) PROVE DisplayIInv'
  <2>1. armed' = NoOutput
    BY <1>15 DEF TurnOff
  <2>2. CASE Refused(r.output)
    BY <1>1, <1>3, <1>15, <2>1, <2>2 DEF TurnOff, DisplayIInv, LastOutputStaysOn
  <2>3. CASE ~Refused(r.output)
    <3>1. LevelsAndRows'
      BY <1>4, <1>15, <2>3 DEF TurnOff
    <3>2. "last" \notin harm'
      BY <1>1, <1>15, <2>3, NotTheLast DEF TurnOff
    <3> QED BY <2>1, <3>1, <3>2 DEF DisplayIInv, LastOutputStaysOn
  <2> QED BY <2>2, <2>3
<1> QED
  BY <1>5, <1>6, <1>7, <1>8, <1>9, <1>10, <1>11, <1>12, <1>13, <1>14, <1>15
  DEF DisplayNext

(* Whatever is plugged in or pulled out, and however the panel is walked: as    *)
(* long as what it lists is true, no Enter turns the last output off, and none  *)
(* does at all but the second on one row (display.c:1215-1247, 1833-1867).      *)
THEOREM LastOutputKept == Spec => []LastOutputStaysOn
<1>1. Init => DisplayIInv
  BY DisplayInitially DEF Init, InitOf
<1>2. DisplayIInv /\ [Next]_vars => DisplayIInv'
  <2> SUFFICES ASSUME DisplayIInv, [Next]_vars PROVE DisplayIInv'
    OBVIOUS
  <2>1. CASE DisplayNext
    BY <2>1, DisplayStep
  <2>2. CASE UNCHANGED displayVars
    BY <2>2 DEF displayVars, DisplayIInv, LevelsAndRows, LastOutputStaysOn
  <2> QED BY <2>1, <2>2, PartSteps
<1>3. DisplayIInv => LastOutputStaysOn
  BY DEF DisplayIInv
<1> QED BY <1>1, <1>2, <1>3, PTL DEF Spec
--------------------------------------------------------------------------------
(* The network panel. *)

(* Every k up to their number is the rank of one of finitely many numbers.     *)
LEMMA Ranked ==
  ASSUME NEW D \in SUBSET Nat, IsFiniteSet(D), NEW k \in 1..Cardinality(D)
  PROVE  \E n \in D : Cardinality({m \in D : m <= n}) = k
<1> DEFINE below(n) == {m \in D : m <= n}
           c == Cardinality(D)
           rank == [n \in D |-> Cardinality(below(n))]
<1>1. c \in Nat /\ IsFiniteSet(1..c) /\ Cardinality(1..c) = c
  <2>1. c \in Nat
    BY FS_CardinalityType
  <2> QED BY <2>1, FS_Interval
<1>2. ASSUME NEW n \in D
      PROVE  IsFiniteSet(below(n)) /\ Cardinality(below(n)) \in 1..c
  <2>1. below(n) \in SUBSET D /\ n \in below(n)
    OBVIOUS
  <2> HIDE DEF below
  <2>2. IsFiniteSet(below(n)) /\ Cardinality(below(n)) <= c
    BY <2>1, FS_Subset
  <2>3. Cardinality(below(n)) \in Nat /\ Cardinality(below(n)) # 0
    BY <2>1, <2>2, FS_CardinalityType, FS_EmptySet
  <2> QED BY <1>1, <2>2, <2>3
<1>3. ASSUME NEW n \in D, NEW p \in D, n < p, Cardinality(below(n)) = Cardinality(below(p))
      PROVE  FALSE
  <2>1. below(n) \in SUBSET below(p) /\ p \in below(p) /\ p \notin below(n)
    <3>1. \A m \in D : m \in Nat
      OBVIOUS
    <3>2. \A m \in D : m <= n => m <= p
      BY <1>3, <3>1
    <3>3. \A m \in below(n) : m \in below(p)
      BY <3>2
    <3>4. p \in below(p) /\ p \notin below(n)
      BY <1>3, <3>1
    <3> HIDE DEF below
    <3> QED BY <3>3, <3>4
  <2> HIDE DEF below
  <2>2. below(p) = below(n)
    BY <1>2, <1>3, <2>1, FS_Subset
  <2> QED BY <2>1, <2>2
<1>4. rank \in [D -> 1..c]
  BY <1>2
<1>5. \A n \in D, p \in D : rank[n] = rank[p] => n = p
  <2> SUFFICES ASSUME NEW n \in D, NEW p \in D, rank[n] = rank[p], n # p PROVE FALSE
    OBVIOUS
  <2>1. Cardinality(below(n)) = Cardinality(below(p))
    OBVIOUS
  <2>2. n < p \/ p < n
    OBVIOUS
  <2> HIDE DEF below, rank
  <2> QED BY <1>3, <2>1, <2>2
<1>6. rank \in Injection(D, 1..c)
  BY <1>4, <1>5 DEF Injection, IsInjective
<1>7. rank \in Surjection(D, 1..c)
  BY <1>1, <1>6, FS_Injection
<1>8. \A t \in 1..c : \E n \in D : rank[n] = t
  BY <1>7 DEF Surjection
<1> QED BY <1>8

LEMMA MaxOf ==
  ASSUME NEW D \in SUBSET Nat, IsFiniteSet(D), D # {}
  PROVE  Max(D) \in D /\ \A m \in D : m <= Max(D)
<1>1. Cardinality(D) \in Nat /\ Cardinality(D) # 0
  BY FS_CardinalityType, FS_EmptySet
<1>2. PICK n \in D : Cardinality({m \in D : m <= n}) = Cardinality(D)
  BY <1>1, Ranked
<1>3. {m \in D : m <= n} = D
  BY <1>2, FS_Subset
<1>4. \A m \in D : n >= m
  BY <1>3
<1> QED BY <1>4 DEF Max

(* Networks by number, of the supplicant or of its file. *)
Nets(f) ==
  /\ f \in [DOMAIN f -> NetworkEntry]
  /\ DOMAIN f \in SUBSET (Nat \ {0}) /\ IsFiniteSet(DOMAIN f)

Places == {"list", "add", "ssid", "key", "select", "wait", "save", "undo", "enable",
           "reassociate", "ended"}

Before == join.networks
SameEntry(d, e) == d.ssid = e.ssid /\ d.key = e.key
Alike ==
  /\ DOMAIN networks = DOMAIN Before
  /\ \A n \in DOMAIN Before : SameEntry(networks[n], Before[n])
OneMore ==
  /\ join.number \in Nat \ {0} /\ join.number \notin DOMAIN Before
  /\ DOMAIN networks = DOMAIN Before \cup {join.number}
  /\ \A n \in DOMAIN Before : SameEntry(networks[n], Before[n])
Joined == networks[join.number].ssid = join.ssid /\ networks[join.number].key = "right"
Result == IF join.ok /\ join.new THEN OneMore /\ Joined ELSE Alike
FileKept ==
  \/ file = join.file
  \/ join.ok /\ Range(NameAndKey(file)) \subseteq Range(NameAndKey(networks))
NoneDisabled ==
  \A n \in DOMAIN networks :
    (n \in DOMAIN Before => Before[n].enabled) => networks[n].enabled

(* Whoever is in use has a key that is right.                                  *)
NetworkTyped ==
  /\ Nets(networks) /\ Nets(file) /\ supplicant \in Int
  /\ supplicant > 0 =>
       /\ supplicant \in DOMAIN networks
       /\ networks[supplicant].enabled /\ networks[supplicant].key = "right"

JoinTyped ==
  /\ join.at \in Places
  /\ join = [at |-> join.at, ssid |-> join.ssid, new |-> join.new, key |-> join.key,
             number |-> join.number, ok |-> join.ok, networks |-> join.networks,
             file |-> join.file]
  /\ join.ssid \in Ssids /\ join.key \in {"right", "wrong"}
  /\ join.new \in BOOLEAN /\ join.ok \in BOOLEAN
  /\ Nets(Before)

(* What a join has done, by the place it is at.                                *)
JoinProgress ==
  /\ join.at \in {"list", "add"} =>
       ~join.ok /\ networks = Before /\ file = join.file /\ (join.new <=> join.at = "add")
  /\ join.at \in {"ssid", "key"} =>
       ~join.ok /\ join.new /\ OneMore /\ ~networks[join.number].enabled /\ file = join.file
  /\ join.at = "key" => networks[join.number].ssid = join.ssid
  /\ join.at \in {"select", "wait"} =>
       /\ ~join.ok /\ file = join.file
       /\ IF join.new THEN OneMore ELSE Alike
       /\ join.new => networks[join.number].ssid = join.ssid
  /\ join.at = "wait" =>
       \A n \in DOMAIN networks : networks[n].enabled <=> n = join.number
  /\ join.at = "save" => join.ok /\ join.new /\ OneMore /\ Joined /\ file = join.file
  /\ join.at = "undo" => ~join.ok /\ join.new /\ OneMore /\ file = join.file
  /\ join.at \in {"enable", "reassociate", "ended"} => Result /\ FileKept
  /\ join.at \in {"reassociate", "ended"} => NoneDisabled
  /\ join.at = "reassociate" => ~join.ok

NetworkIInv == NetworkTyped /\ (join.at = "rest" \/ (JoinTyped /\ JoinProgress))

(* A join that moves on takes everything else with it.                         *)
Moved(j, place, number, ok) ==
  /\ j.at = place /\ j.ssid = join.ssid /\ j.new = join.new /\ j.key = join.key
  /\ j.number = number /\ j.ok = ok /\ j.networks = join.networks /\ j.file = join.file
  /\ j = [at |-> j.at, ssid |-> j.ssid, new |-> j.new, key |-> j.key,
          number |-> j.number, ok |-> j.ok, networks |-> j.networks, file |-> j.file]

LEMMA JoinMoves ==
  ASSUME JoinTyped, NEW place, NEW number, NEW ok
  PROVE  /\ Moved([join EXCEPT !.at = place], place, join.number, join.ok)
         /\ Moved([join EXCEPT !.at = place, !.number = number], place, number, join.ok)
         /\ Moved([join EXCEPT !.at = place, !.ok = ok], place, join.number, ok)
<1> DEFINE j(at, n, well) ==
             [at |-> at, ssid |-> join.ssid, new |-> join.new, key |-> join.key,
              number |-> n, ok |-> well, networks |-> join.networks, file |-> join.file]
<1>1. join = j(join.at, join.number, join.ok)
  BY DEF JoinTyped
<1>2. [j(join.at, join.number, join.ok) EXCEPT !.at = place]
        = j(place, join.number, join.ok)
  OBVIOUS
<1>3. [j(place, join.number, join.ok) EXCEPT !.number = number] = j(place, number, join.ok)
  OBVIOUS
<1>4. [j(place, join.number, join.ok) EXCEPT !.ok = ok] = j(place, join.number, ok)
  OBVIOUS
<1>5. \A n, well : Moved(j(place, n, well), place, n, well)
  BY DEF Moved
<1> HIDE DEF j
<1>6. [join EXCEPT !.at = place] = j(place, join.number, join.ok)
  BY <1>1, <1>2
<1>7. [join EXCEPT !.at = place, !.number = number] = j(place, number, join.ok)
  BY <1>3, <1>6, Zenon
<1>8. [join EXCEPT !.at = place, !.ok = ok] = j(place, join.number, ok)
  BY <1>4, <1>6, Zenon
<1>9. /\ Moved(j(place, join.number, join.ok), place, join.number, join.ok)
      /\ Moved(j(place, number, join.ok), place, number, join.ok)
      /\ Moved(j(place, join.number, ok), place, join.number, ok)
  BY <1>5
<1>10. Moved([join EXCEPT !.at = place], place, join.number, join.ok)
  BY <1>6, <1>9, Zenon
<1>11. Moved([join EXCEPT !.at = place, !.number = number], place, number, join.ok)
  BY <1>7, <1>9, Zenon
<1>12. Moved([join EXCEPT !.at = place, !.ok = ok], place, join.number, ok)
  BY <1>8, <1>9, Zenon
<1> QED BY <1>10, <1>11, <1>12

(* enable_network all changes no name and no key. *)
LEMMA EnabledAllOf ==
  ASSUME NEW f, Nets(f)
  PROVE  /\ Nets(EnabledAll(f)) /\ DOMAIN EnabledAll(f) = DOMAIN f
         /\ \A n \in DOMAIN f : EnabledAll(f)[n].enabled /\ SameEntry(EnabledAll(f)[n], f[n])
         /\ NameAndKey(EnabledAll(f)) = NameAndKey(f)
<1>1. \A n \in DOMAIN f :
        LET e == [f[n] EXCEPT !.enabled = TRUE]
        IN e \in NetworkEntry /\ e.enabled /\ e.ssid = f[n].ssid /\ e.key = f[n].key
  BY DEF Nets, NetworkEntry
<1>2. EnabledAll(f) = [n \in DOMAIN f |-> [f[n] EXCEPT !.enabled = TRUE]]
  BY DEF EnabledAll
<1>3. /\ DOMAIN EnabledAll(f) = DOMAIN f
      /\ \A n \in DOMAIN f : /\ EnabledAll(f)[n] \in NetworkEntry /\ EnabledAll(f)[n].enabled
                             /\ SameEntry(EnabledAll(f)[n], f[n])
  BY <1>1, <1>2 DEF SameEntry
<1>4. EnabledAll(f) \in [DOMAIN f -> NetworkEntry]
  BY <1>2, <1>3
<1>5. NameAndKey(EnabledAll(f)) = NameAndKey(f)
  BY <1>3 DEF NameAndKey, SameEntry
<1> QED BY <1>3, <1>4, <1>5 DEF Nets

(* save_config writes networks that are there, and all of them. *)
LEMMA WrittenOf ==
  ASSUME NEW f, Nets(f)
  PROVE  Nets(Written(f)) /\ Range(NameAndKey(Written(f))) \subseteq Range(NameAndKey(f))
<1> DEFINE D == DOMAIN f
           nth(k) == CHOOSE n \in D : Cardinality({m \in D : m <= n}) = k
<1>1. Written(f) = [k \in 1..Cardinality(D) |-> f[nth(k)]]
  BY DEF Written
<1>2. D \in SUBSET Nat /\ IsFiniteSet(D) /\ f \in [D -> NetworkEntry]
  BY DEF Nets
<1>3. ASSUME NEW k \in 1..Cardinality(D) PROVE nth(k) \in D
  <2>1. \E n \in D : Cardinality({m \in D : m <= n}) = k
    BY <1>2, Ranked
  <2> QED BY <2>1
<1> HIDE DEF nth, D
<1>4. /\ DOMAIN Written(f) = 1..Cardinality(D)
      /\ Written(f) \in [1..Cardinality(D) -> NetworkEntry]
  BY <1>1, <1>2, <1>3
<1>5. Cardinality(D) \in Nat
  BY <1>2, FS_CardinalityType
<1>6. IsFiniteSet(1..Cardinality(D)) /\ 1..Cardinality(D) \in SUBSET (Nat \ {0})
  <2>1. IsFiniteSet(1..Cardinality(D))
    BY <1>5, FS_Interval
  <2>2. \A k \in 1..Cardinality(D) : k \in Nat \ {0}
    BY <1>5
  <2> QED BY <2>1, <2>2
<1>7. ASSUME NEW k \in 1..Cardinality(D)
      PROVE  NameAndKey(Written(f))[k] \in Range(NameAndKey(f))
  <2>1. Written(f)[k] = f[nth(k)] /\ nth(k) \in D
    BY <1>1, <1>3
  <2>2. NameAndKey(Written(f))[k] = <<f[nth(k)].ssid, f[nth(k)].key>>
    BY <1>4, <2>1 DEF NameAndKey
  <2>3. NameAndKey(f)[nth(k)] = <<f[nth(k)].ssid, f[nth(k)].key>>
        /\ DOMAIN NameAndKey(f) = D
    BY <2>1 DEF NameAndKey, D
  <2> QED BY <2>1, <2>2, <2>3 DEF Range
<1>8. DOMAIN NameAndKey(Written(f)) = 1..Cardinality(D)
  BY <1>4 DEF NameAndKey
<1> QED BY <1>4, <1>6, <1>7, <1>8 DEF Nets, Range

(* The rest of the join is as it was. *)
SameJoin ==
  /\ JoinTyped' /\ Before' = Before /\ join'.ssid = join.ssid /\ join'.new = join.new
  /\ join'.key = join.key /\ join'.file = join.file

LEMMA MovedTyped ==
  ASSUME JoinTyped, NEW place \in Places, NEW number, NEW ok \in BOOLEAN,
         Moved(join', place, number, ok)
  PROVE  SameJoin /\ join'.at = place /\ join'.number = number /\ join'.ok = ok
BY DEF JoinTyped, Moved, Before, SameJoin

LEMMA MovesOn ==
  ASSUME JoinTyped, NEW place \in Places, join' = [join EXCEPT !.at = place]
  PROVE  SameJoin /\ join'.at = place /\ join'.number = join.number /\ join'.ok = join.ok
<1>1. Moved([join EXCEPT !.at = place], place, join.number, join.ok)
  BY JoinMoves, Zenon
<1>2. Moved(join', place, join.number, join.ok)
  BY <1>1, Zenon
<1> QED BY <1>2, MovedTyped DEF JoinTyped

LEMMA MovesNumbered ==
  ASSUME JoinTyped, NEW place \in Places, NEW number,
         join' = [join EXCEPT !.at = place, !.number = number]
  PROVE  SameJoin /\ join'.at = place /\ join'.number = number /\ join'.ok = join.ok
<1>1. Moved([join EXCEPT !.at = place, !.number = number], place, number, join.ok)
  BY JoinMoves, Zenon
<1>2. Moved(join', place, number, join.ok)
  BY <1>1, Zenon
<1> QED BY <1>2, MovedTyped DEF JoinTyped

LEMMA MovesJudged ==
  ASSUME JoinTyped, NEW place \in Places, NEW ok \in BOOLEAN,
         join' = [join EXCEPT !.at = place, !.ok = ok]
  PROVE  SameJoin /\ join'.at = place /\ join'.number = join.number /\ join'.ok = ok
<1>1. Moved([join EXCEPT !.at = place, !.ok = ok], place, join.number, ok)
  BY JoinMoves, Zenon
<1>2. Moved(join', place, join.number, ok)
  BY <1>1, Zenon
<1> QED BY <1>2, MovedTyped

(* The commands of set_network and select_network change one field.            *)
LEMMA EntryChanged ==
  ASSUME NEW e \in NetworkEntry, NEW s \in Ssids, NEW k \in {"right", "wrong"},
         NEW b \in BOOLEAN
  PROVE  /\ LET d == [e EXCEPT !.ssid = s]
            IN d \in NetworkEntry /\ d.ssid = s /\ d.key = e.key /\ d.enabled = e.enabled
         /\ LET d == [e EXCEPT !.key = k]
            IN d \in NetworkEntry /\ d.ssid = e.ssid /\ d.key = k /\ d.enabled = e.enabled
         /\ LET d == [e EXCEPT !.enabled = b]
            IN d \in NetworkEntry /\ d.ssid = e.ssid /\ d.key = e.key /\ d.enabled = b
BY DEF NetworkEntry

LEMMA NetworkInitially == ASSUME NEW on, NetworkInit(on) PROVE NetworkIInv
<1>1. file \in Seq(NetworkEntry) /\ networks = file /\ join.at = "rest"
  BY NetworkAssumption DEF NetworkInit
<1>2. supplicant \in {0, -1}
  BY Zenon DEF NetworkInit
<1>3. Len(file) \in Nat /\ DOMAIN file = 1..Len(file) /\ file \in [DOMAIN file -> NetworkEntry]
  BY <1>1, LenProperties
<1>4. IsFiniteSet(1..Len(file))
  <2>1. Len(file) \in Int /\ 1 \in Int
    BY <1>3
  <2> QED BY <2>1, FS_Interval
<1>5. \A n \in DOMAIN file : n \in Nat \ {0}
  BY <1>3
<1>6. supplicant \in Int /\ ~(supplicant > 0)
  BY <1>2
<1>7. Nets(file)
  BY <1>3, <1>4, <1>5 DEF Nets
<1>8. Nets(networks)
  BY <1>1, <1>7, Zenon
<1> QED BY <1>1, <1>6, <1>7, <1>8 DEF NetworkIInv, NetworkTyped

(* What the supplicant does by itself, and the panel while no join goes on.    *)
LEMMA AssociateStep == ASSUME NetworkIInv, Associate PROVE NetworkIInv'
<1>1. NetworkTyped'
  <2>1. supplicant' = 0 \/ (supplicant' \in DOMAIN networks
          /\ networks[supplicant'].enabled /\ networks[supplicant'].key = "right")
    BY DEF Associate
  <2>2. supplicant' \in Int
    BY <2>1 DEF NetworkIInv, NetworkTyped, Nets
  <2> QED BY <2>1, <2>2 DEF Associate, NetworkIInv, NetworkTyped
<1>2. JoinTyped => JoinTyped'
  BY DEF Associate, JoinTyped, Before
<1>3. JoinProgress => JoinProgress'
  BY DEF Associate, JoinProgress, Before, Alike, OneMore, Joined, Result, FileKept,
         NoneDisabled
<1> QED BY <1>1, <1>2, <1>3 DEF Associate, NetworkIInv

LEMMA RefreshStep == ASSUME NetworkIInv, RefreshNetworks PROVE NetworkIInv'
<1>1. NetworkTyped'
  BY DEF RefreshNetworks, NetworkIInv, NetworkTyped
<1>2. JoinTyped => JoinTyped'
  BY DEF RefreshNetworks, JoinTyped, Before
<1>3. JoinProgress => JoinProgress'
  BY DEF RefreshNetworks, JoinProgress, Before, Alike, OneMore, Joined, Result, FileKept,
         NoneDisabled
<1> QED BY <1>1, <1>2, <1>3 DEF RefreshNetworks, NetworkIInv

LEMMA RestartStep == ASSUME NetworkIInv, RestartSupplicant PROVE NetworkIInv'
<1>1. networks' = file /\ file' = file /\ supplicant' = 0 /\ join'.at = "rest"
  BY DEF RestartSupplicant
<1>2. Nets(networks') /\ Nets(file')
  BY <1>1, Zenon DEF NetworkIInv, NetworkTyped
<1>3. supplicant' \in Int /\ ~(supplicant' > 0)
  BY <1>1
<1> QED BY <1>1, <1>2, <1>3 DEF NetworkIInv, NetworkTyped

LEMMA ForgetStep == ASSUME NetworkIInv, NEW s, Forget(s) PROVE NetworkIInv'
<1> DEFINE left == WithoutNetwork(Number(s))
<1>1. join'.at = "rest"
  BY DEF Forget
<1>2. Nets(left)
  <2>1. /\ DOMAIN left \subseteq DOMAIN networks
        /\ left = [n \in DOMAIN left |-> left[n]]
        /\ \A n \in DOMAIN left : left[n] = networks[n]
    BY DEF WithoutNetwork
  <2> HIDE DEF left
  <2>2. IsFiniteSet(DOMAIN left)
    <3>1. IsFiniteSet(DOMAIN networks) /\ DOMAIN left \in SUBSET DOMAIN networks
      BY <2>1 DEF NetworkIInv, NetworkTyped, Nets
    <3> QED BY <3>1, FS_Subset
  <2>3. \A n \in DOMAIN left : left[n] \in NetworkEntry /\ n \in Nat \ {0}
    BY <2>1 DEF NetworkIInv, NetworkTyped, Nets
  <2>4. left \in [DOMAIN left -> NetworkEntry]
    BY <2>1, <2>3
  <2> QED BY <2>2, <2>3, <2>4 DEF Nets
<1>3. CASE UNCHANGED <<supplicant, networks, file, known>>
  <2>1. NetworkTyped'
    BY <1>3 DEF NetworkIInv, NetworkTyped
  <2> QED BY <1>1, <2>1 DEF NetworkIInv
<1>4. CASE /\ networks' = EnabledAll(left) /\ Stays(left)
           /\ file' = Written(left) \/ file' = file
  <2> HIDE DEF left
  <2>1. Nets(networks') /\ Nets(file')
    BY <1>2, <1>4, EnabledAllOf, WrittenOf DEF NetworkIInv, NetworkTyped
  <2>2. /\ DOMAIN networks' = DOMAIN left
        /\ \A n \in DOMAIN left : networks'[n].enabled /\ networks'[n].key = left[n].key
    BY <1>2, <1>4, EnabledAllOf DEF SameEntry
  <2>3. supplicant' = 0 \/ (supplicant' = supplicant /\ supplicant \in DOMAIN left)
    BY <1>4 DEF Stays
  <2>4. supplicant \in DOMAIN left /\ supplicant > 0 => left[supplicant].key = "right"
    BY DEF left, WithoutNetwork, NetworkIInv, NetworkTyped
  <2>5. NetworkTyped'
    BY <2>1, <2>2, <2>3, <2>4 DEF NetworkIInv, NetworkTyped
  <2> QED BY <1>1, <2>5 DEF NetworkIInv
<1> QED BY <1>3, <1>4 DEF Forget, Fails

LEMMA StartStep == ASSUME NetworkIInv, NEW s \in Ssids, StartJoin(s) PROVE NetworkIInv'
<1>1. PICK key \in {"right", "wrong"} : join' = Started(s, s \notin known, key)
  BY DEF StartJoin
<1>2. NetworkTyped'
  BY DEF StartJoin, NetworkIInv, NetworkTyped
<1>3. JoinTyped'
  BY <1>1 DEF Started, JoinTyped, Places, Before, NetworkIInv, NetworkTyped
<1>4. JoinProgress'
  BY <1>1 DEF StartJoin, Started, JoinProgress, Before
<1> QED BY <1>2, <1>3, <1>4 DEF NetworkIInv

(* A join under way is at none of the places of one that rests.                *)
LEMMA UnderWay ==
  ASSUME NetworkIInv, join.at # "rest" PROVE NetworkTyped /\ JoinTyped /\ JoinProgress
BY DEF NetworkIInv

(* A command that fails changes nothing but the place of the join.             *)
LEMMA Unmoved ==
  ASSUME NetworkTyped, SameJoin, join'.number = join.number,
         UNCHANGED <<supplicant, networks, file, known>>
  PROVE  /\ NetworkTyped' /\ (Alike' <=> Alike) /\ (OneMore' <=> OneMore)
         /\ (Joined' <=> Joined) /\ (NoneDisabled' <=> NoneDisabled)
<1>1. NetworkTyped'
  BY DEF NetworkTyped
<1>2. (Alike' <=> Alike) /\ (OneMore' <=> OneMore)
  BY DEF Alike, OneMore, SameJoin
<1>3. (Joined' <=> Joined) /\ (NoneDisabled' <=> NoneDisabled)
  BY DEF Joined, NoneDisabled, SameJoin
<1> QED BY <1>1, <1>2, <1>3

(* What was found is all there is: a join that ends so has done nothing.       *)
LEMMA AsFound ==
  ASSUME networks = Before, NetworkTyped PROVE Alike /\ NoneDisabled
BY DEF Alike, NoneDisabled, SameEntry

LEMMA ListStep == ASSUME NetworkIInv, ListNetworks PROVE NetworkIInv'
<1>1. /\ NetworkTyped /\ JoinTyped /\ JoinProgress /\ join.at = "list"
      /\ ~join.ok /\ ~join.new /\ networks = Before /\ file = join.file
  BY UnderWay DEF ListNetworks, JoinAt, JoinProgress
<1>2. UNCHANGED <<supplicant, networks, file, known>>
  BY DEF ListNetworks, Fails
<1>3. CASE join' = JoinEnded(FALSE)
  <2>0. "ended" \in Places
    BY DEF Places
  <2>1. /\ SameJoin /\ join'.at = "ended" /\ join'.number = join.number /\ ~join'.ok
    BY <1>1, <1>3, <2>0, MovesJudged, Zenon DEF JoinEnded
  <2>2. NetworkTyped' /\ Alike' /\ NoneDisabled'
    BY <1>1, <1>2, <2>1, AsFound, Unmoved
  <2>3. JoinProgress'
    BY <1>1, <1>2, <2>1, <2>2 DEF JoinProgress, Result, FileKept, SameJoin
  <2> QED BY <2>1, <2>2, <2>3 DEF NetworkIInv, SameJoin
<1>4. CASE join' = [join EXCEPT !.at = "select", !.number = Number(join.ssid)]
  <2>0. "select" \in Places
    BY DEF Places
  <2>1. SameJoin /\ join'.at = "select" /\ ~join'.ok
    BY <1>1, <1>4, <2>0, MovesNumbered, Zenon
  <2>2. NetworkTyped'
    BY <1>1, <1>2 DEF NetworkTyped
  <2>3. Alike'
    BY <1>1, <1>2, <2>1, AsFound DEF Alike, SameJoin
  <2>4. JoinProgress'
    BY <1>1, <1>2, <2>1, <2>3 DEF JoinProgress, SameJoin
  <2> QED BY <2>1, <2>2, <2>4 DEF NetworkIInv, SameJoin
<1> QED BY <1>3, <1>4 DEF ListNetworks

LEMMA AddStep == ASSUME NetworkIInv, AddNetwork PROVE NetworkIInv'
<1>1. /\ NetworkTyped /\ JoinTyped /\ JoinProgress /\ join.at = "add"
      /\ ~join.ok /\ join.new /\ networks = Before /\ file = join.file
  BY UnderWay DEF AddNetwork, JoinAt, JoinProgress
<1>2. "ended" \in Places /\ "ssid" \in Places
  BY DEF Places
<1>3. CASE Fails("add") /\ join' = JoinEnded(FALSE)
  <2>1. /\ SameJoin /\ join'.at = "ended" /\ join'.number = join.number /\ ~join'.ok
    BY <1>1, <1>2, <1>3, MovesJudged, Zenon DEF JoinEnded
  <2>2. NetworkTyped' /\ Alike' /\ NoneDisabled'
    BY <1>1, <1>3, <2>1, AsFound, Unmoved DEF Fails
  <2>3. JoinProgress'
    BY <1>1, <1>3, <2>1, <2>2 DEF Fails, JoinProgress, Result, FileKept, SameJoin
  <2> QED BY <2>1, <2>2, <2>3 DEF NetworkIInv, SameJoin
<1> DEFINE last == Max(DOMAIN networks \cup {0})
           n == last + 1
           fresh == [ssid |-> "none", key |-> "none", enabled |-> FALSE]
<1>4. CASE /\ networks' = [k \in DOMAIN networks \cup {n} |->
                             IF k = n THEN fresh ELSE networks[k]]
           /\ join' = [join EXCEPT !.at = "ssid", !.number = n]
           /\ UNCHANGED <<supplicant, file, known>>
  <2>2. n \in Nat \ {0} /\ n \notin DOMAIN networks
    <3>1. DOMAIN networks \cup {0} \in SUBSET Nat /\ DOMAIN networks \cup {0} # {}
      BY <1>1 DEF NetworkTyped, Nets
    <3>2. IsFiniteSet(DOMAIN networks \cup {0})
      BY <1>1, FS_AddElement DEF NetworkTyped, Nets
    <3>3. last \in Nat /\ \A m \in DOMAIN networks : m \in Nat /\ m <= last
      BY <3>1, <3>2, MaxOf
    <3> HIDE DEF last
    <3>4. \A m \in DOMAIN networks : m # n
      BY <3>3
    <3> QED BY <3>3, <3>4
  <2> HIDE DEF n
  <2>3. SameJoin /\ join'.at = "ssid" /\ join'.number = n /\ ~join'.ok
    BY <1>1, <1>2, <1>4, MovesNumbered, Zenon
  <2>4. fresh \in NetworkEntry /\ ~fresh.enabled
    BY DEF NetworkEntry
  <2> HIDE DEF fresh
  <2>5. /\ DOMAIN networks' = DOMAIN networks \cup {n} /\ networks'[n] = fresh
        /\ \A k \in DOMAIN networks : networks'[k] = networks[k]
    BY <1>4, <2>2
  <2>6. Nets(networks')
    <3>1. networks' \in [DOMAIN networks' -> NetworkEntry]
      BY <1>1, <1>4, <2>4, <2>5 DEF NetworkTyped, Nets
    <3>2. IsFiniteSet(DOMAIN networks')
      BY <1>1, <2>5, FS_AddElement DEF NetworkTyped, Nets
    <3> QED BY <1>1, <2>2, <2>5, <3>1, <3>2 DEF NetworkTyped, Nets
  <2>7. NetworkTyped'
    BY <1>1, <1>4, <2>5, <2>6 DEF NetworkTyped
  <2>8. OneMore' /\ ~networks'[join'.number].enabled
    BY <1>1, <2>2, <2>3, <2>4, <2>5 DEF OneMore, SameEntry, SameJoin
  <2>9. JoinProgress'
    BY <1>1, <1>4, <2>3, <2>8 DEF JoinProgress, SameJoin
  <2> QED BY <2>3, <2>7, <2>9 DEF NetworkIInv, SameJoin
<1> QED BY <1>3, <1>4 DEF AddNetwork

(* One entry of the networks is changed for another.                           *)
LEMMA EntrySet ==
  ASSUME NetworkTyped, NEW n \in DOMAIN networks, NEW e \in NetworkEntry,
         networks' = [networks EXCEPT ![n] = e]
  PROVE  /\ Nets(networks') /\ DOMAIN networks' = DOMAIN networks /\ networks'[n] = e
         /\ \A k \in DOMAIN networks : k # n => networks'[k] = networks[k]
BY DEF NetworkTyped, Nets

LEMMA SsidStep == ASSUME NetworkIInv, SetSsid PROVE NetworkIInv'
<1>1. /\ NetworkTyped /\ JoinTyped /\ JoinProgress /\ join.at = "ssid"
      /\ ~join.ok /\ join.new /\ OneMore /\ ~networks[join.number].enabled
      /\ file = join.file
  BY UnderWay DEF SetSsid, JoinAt, JoinProgress
<1>2. "undo" \in Places /\ "key" \in Places
  BY DEF Places
<1>3. CASE Fails("set") /\ join' = [join EXCEPT !.at = "undo"]
  <2>1. SameJoin /\ join'.at = "undo" /\ join'.number = join.number /\ ~join'.ok
    BY <1>1, <1>2, <1>3, MovesOn, Zenon
  <2>2. NetworkTyped' /\ OneMore'
    BY <1>1, <1>3, <2>1, Unmoved DEF Fails
  <2>3. JoinProgress'
    BY <1>1, <1>3, <2>1, <2>2 DEF Fails, JoinProgress, SameJoin
  <2> QED BY <2>1, <2>2, <2>3 DEF NetworkIInv, SameJoin
<1>4. CASE ~(Fails("set") /\ join' = [join EXCEPT !.at = "undo"])
  <2> DEFINE n == join.number
             e == [networks[n] EXCEPT !.ssid = join.ssid]
  <2>1. /\ networks' = [networks EXCEPT ![n].ssid = join.ssid]
        /\ join' = [join EXCEPT !.at = "key"]
        /\ UNCHANGED <<supplicant, file, known>>
    BY <1>4, Zenon DEF SetSsid
  <2>2. SameJoin /\ join'.at = "key" /\ join'.number = n /\ ~join'.ok
    BY <1>1, <1>2, <2>1, MovesOn, Zenon
  <2>3. n \in DOMAIN networks /\ networks[n] \in NetworkEntry
    BY <1>1 DEF OneMore, NetworkTyped, Nets
  <2>4. e \in NetworkEntry /\ e.ssid = join.ssid /\ e.key = networks[n].key /\ ~e.enabled
    BY <1>1, <2>3 DEF NetworkEntry, JoinTyped
  <2>5. networks' = [networks EXCEPT ![n] = e]
    BY <2>1, Zenon
  <2> HIDE DEF e
  <2>6. /\ Nets(networks') /\ DOMAIN networks' = DOMAIN networks /\ networks'[n] = e
        /\ \A k \in DOMAIN networks : k # n => networks'[k] = networks[k]
    BY <1>1, <2>3, <2>4, <2>5, EntrySet
  <2>7. NetworkTyped'
    BY <1>1, <2>1, <2>4, <2>6 DEF NetworkTyped
  <2>8. OneMore'
    BY <1>1, <2>2, <2>6 DEF OneMore, SameEntry, SameJoin
  <2>9. JoinProgress'
    BY <1>1, <2>1, <2>2, <2>4, <2>6, <2>8 DEF JoinProgress, SameJoin
  <2> QED BY <2>2, <2>7, <2>9 DEF NetworkIInv, SameJoin
<1> QED BY <1>3, <1>4

LEMMA KeyStep == ASSUME NetworkIInv, SetKey PROVE NetworkIInv'
<1>1. /\ NetworkTyped /\ JoinTyped /\ JoinProgress /\ join.at = "key"
      /\ ~join.ok /\ join.new /\ OneMore /\ ~networks[join.number].enabled
      /\ networks[join.number].ssid = join.ssid /\ file = join.file
  BY UnderWay DEF SetKey, JoinAt, JoinProgress
<1>2. "undo" \in Places /\ "select" \in Places
  BY DEF Places
<1>3. CASE Fails("set") /\ join' = [join EXCEPT !.at = "undo"]
  <2>1. SameJoin /\ join'.at = "undo" /\ join'.number = join.number /\ ~join'.ok
    BY <1>1, <1>2, <1>3, MovesOn, Zenon
  <2>2. NetworkTyped' /\ OneMore'
    BY <1>1, <1>3, <2>1, Unmoved DEF Fails
  <2>3. JoinProgress'
    BY <1>1, <1>3, <2>1, <2>2 DEF Fails, JoinProgress, SameJoin
  <2> QED BY <2>1, <2>2, <2>3 DEF NetworkIInv, SameJoin
<1>4. CASE ~(Fails("set") /\ join' = [join EXCEPT !.at = "undo"])
  <2> DEFINE n == join.number
             e == [networks[n] EXCEPT !.key = join.key]
  <2>1. /\ networks' = [networks EXCEPT ![n].key = join.key]
        /\ join' = [join EXCEPT !.at = "select"]
        /\ UNCHANGED <<supplicant, file, known>>
    BY <1>4, Zenon DEF SetKey
  <2>2. SameJoin /\ join'.at = "select" /\ join'.number = n /\ ~join'.ok
    BY <1>1, <1>2, <2>1, MovesOn, Zenon
  <2>3. n \in DOMAIN networks /\ networks[n] \in NetworkEntry
    BY <1>1 DEF OneMore, NetworkTyped, Nets
  <2>4. e \in NetworkEntry /\ e.ssid = join.ssid /\ ~e.enabled
    BY <1>1, <2>3 DEF NetworkEntry, JoinTyped
  <2>5. networks' = [networks EXCEPT ![n] = e]
    BY <2>1, Zenon
  <2> HIDE DEF e
  <2>6. /\ Nets(networks') /\ DOMAIN networks' = DOMAIN networks /\ networks'[n] = e
        /\ \A k \in DOMAIN networks : k # n => networks'[k] = networks[k]
    BY <1>1, <2>3, <2>4, <2>5, EntrySet
  <2>7. NetworkTyped'
    BY <1>1, <2>1, <2>4, <2>6 DEF NetworkTyped
  <2>8. OneMore'
    BY <1>1, <2>2, <2>6 DEF OneMore, SameEntry, SameJoin
  <2>9. JoinProgress'
    BY <1>1, <2>1, <2>2, <2>4, <2>6, <2>8 DEF JoinProgress, SameJoin
  <2> QED BY <2>2, <2>7, <2>9 DEF NetworkIInv, SameJoin
<1> QED BY <1>3, <1>4

(* A join that failed is undone; one that went on is as it was before.         *)
LEMMA FailedStep ==
  ASSUME NetworkTyped, JoinTyped, JoinProgress, join.at \in {"select", "wait"},
         UNCHANGED <<supplicant, networks, file, known>>, join' = JoinFailed
  PROVE  NetworkIInv'
<1>1. /\ ~join.ok /\ file = join.file /\ (IF join.new THEN OneMore ELSE Alike)
  BY DEF JoinProgress
<1>2. "undo" \in Places /\ "enable" \in Places
  BY DEF Places
<1>3. CASE join.new
  <2>1. join' = [join EXCEPT !.at = "undo"]
    BY <1>3, Zenon DEF JoinFailed
  <2>2. SameJoin /\ join'.at = "undo" /\ join'.number = join.number /\ ~join'.ok
    BY <1>1, <1>2, <2>1, MovesOn, Zenon
  <2>3. NetworkTyped' /\ OneMore'
    BY <1>1, <1>3, <2>2, Unmoved
  <2>4. JoinProgress'
    BY <1>1, <1>3, <2>2, <2>3 DEF JoinProgress, SameJoin
  <2> QED BY <2>2, <2>3, <2>4 DEF NetworkIInv, SameJoin
<1>4. CASE ~join.new
  <2>1. join' = [join EXCEPT !.at = "enable"]
    BY <1>4, Zenon DEF JoinFailed
  <2>2. SameJoin /\ join'.at = "enable" /\ join'.number = join.number /\ ~join'.ok
    BY <1>1, <1>2, <2>1, MovesOn, Zenon
  <2>3. NetworkTyped' /\ Alike'
    BY <1>1, <1>4, <2>2, Unmoved
  <2>4. JoinProgress'
    BY <1>1, <1>4, <2>2, <2>3 DEF JoinProgress, SameJoin, Result, FileKept
  <2> QED BY <2>2, <2>3, <2>4 DEF NetworkIInv, SameJoin
<1> QED BY <1>3, <1>4 DEF JoinTyped

LEMMA SelectStep == ASSUME NetworkIInv, SelectNetwork PROVE NetworkIInv'
<1>1. /\ NetworkTyped /\ JoinTyped /\ JoinProgress /\ join.at = "select"
      /\ ~join.ok /\ file = join.file /\ (IF join.new THEN OneMore ELSE Alike)
      /\ (join.new => networks[join.number].ssid = join.ssid)
  BY UnderWay DEF SelectNetwork, JoinAt, JoinProgress
<1>2. "wait" \in Places
  BY DEF Places
<1>3. CASE Fails("select") /\ join' = JoinFailed
  BY <1>1, <1>3, FailedStep DEF Fails
<1>4. CASE ~(Fails("select") /\ join' = JoinFailed)
  <2> DEFINE n == join.number
  <2>1. /\ networks' = SelectOnly(n) /\ Stays(networks')
        /\ join' = [join EXCEPT !.at = "wait"] /\ UNCHANGED <<file, known>>
    BY <1>4, Zenon DEF SelectNetwork
  <2>2. SameJoin /\ join'.at = "wait" /\ join'.number = n /\ ~join'.ok
    BY <1>1, <1>2, <2>1, MovesOn, Zenon
  <2>3. \A k \in DOMAIN networks :
          LET e == [networks[k] EXCEPT !.enabled = k = n]
          IN e \in NetworkEntry /\ SameEntry(e, networks[k]) /\ (e.enabled <=> k = n)
    <3>1. \A k \in DOMAIN networks : networks[k] \in NetworkEntry /\ (k = n) \in BOOLEAN
      BY <1>1 DEF NetworkTyped, Nets
    <3> HIDE DEF n
    <3> QED BY <3>1 DEF NetworkEntry, SameEntry
  <2>4. /\ DOMAIN networks' = DOMAIN networks
        /\ \A k \in DOMAIN networks : /\ networks'[k] \in NetworkEntry
                                      /\ SameEntry(networks'[k], networks[k])
                                      /\ networks'[k].enabled <=> k = n
    BY <2>1, <2>3 DEF SelectOnly
  <2>5. networks' \in [DOMAIN networks' -> NetworkEntry]
    BY <2>1, <2>4 DEF SelectOnly
  <2>6. Nets(networks')
    BY <1>1, <2>4, <2>5 DEF NetworkTyped, Nets
  <2>7. supplicant' = 0 \/ (/\ supplicant' = supplicant /\ supplicant \in DOMAIN networks'
                            /\ networks'[supplicant].enabled)
    BY <2>1 DEF Stays
  <2>8. NetworkTyped'
    BY <1>1, <2>1, <2>4, <2>6, <2>7 DEF NetworkTyped, SameEntry
  <2>9. IF join.new THEN OneMore' ELSE Alike'
    BY <1>1, <2>2, <2>4 DEF OneMore, Alike, SameEntry, SameJoin
  <2>10. join.new => networks'[n].ssid = join.ssid
    BY <1>1, <2>4 DEF OneMore, SameEntry
  <2>11. JoinProgress'
    BY <1>1, <2>1, <2>2, <2>4, <2>9, <2>10 DEF JoinProgress, SameJoin
  <2> QED BY <2>2, <2>8, <2>11 DEF NetworkIInv, SameJoin
<1> QED BY <1>3, <1>4

(* The supplicant uses what the join selected: its key is seen to be right.    *)
LEMMA ConnectedStep == ASSUME NetworkIInv, Connected PROVE NetworkIInv'
<1>1. /\ NetworkTyped /\ JoinTyped /\ JoinProgress /\ join.at = "wait" /\ supplicant > 0
      /\ ~join.ok /\ file = join.file /\ (IF join.new THEN OneMore ELSE Alike)
      /\ (join.new => networks[join.number].ssid = join.ssid)
  <2>1. supplicant >= 0 /\ supplicant # 0 /\ supplicant \in Int
    BY UnderWay DEF Connected, JoinAt, SupplicantOn, NetworkTyped
  <2>2. supplicant > 0
    BY <2>1
  <2> QED BY <2>2, UnderWay DEF Connected, JoinAt, JoinProgress
<1>2. "save" \in Places /\ "enable" \in Places
  BY DEF Places
<1>3. UNCHANGED <<supplicant, networks, file, known>> /\ join' = JoinDone
  BY DEF Connected
<1>4. CASE join.new
  <2>1. join' = [join EXCEPT !.at = "save", !.ok = TRUE]
    BY <1>3, <1>4, Zenon DEF JoinDone
  <2>2. SameJoin /\ join'.at = "save" /\ join'.number = join.number /\ join'.ok
    BY <1>1, <1>2, <2>1, MovesJudged, Zenon
  <2>3. Joined
    BY <1>1, <1>4 DEF Joined, JoinProgress, NetworkTyped
  <2>4. NetworkTyped' /\ OneMore' /\ Joined'
    BY <1>1, <1>3, <1>4, <2>2, <2>3, Unmoved
  <2>5. JoinProgress'
    BY <1>1, <1>3, <1>4, <2>2, <2>4 DEF JoinProgress, SameJoin
  <2> QED BY <2>2, <2>4, <2>5 DEF NetworkIInv, SameJoin
<1>5. CASE ~join.new
  <2>1. join' = [join EXCEPT !.at = "enable", !.ok = TRUE]
    BY <1>3, <1>5, Zenon DEF JoinDone
  <2>2. SameJoin /\ join'.at = "enable" /\ join'.number = join.number /\ join'.ok
    BY <1>1, <1>2, <2>1, MovesJudged, Zenon
  <2>3. NetworkTyped' /\ Alike'
    BY <1>1, <1>3, <1>5, <2>2, Unmoved
  <2>4. JoinProgress'
    BY <1>1, <1>3, <1>5, <2>2, <2>3 DEF JoinProgress, SameJoin, Result, FileKept
  <2> QED BY <2>2, <2>3, <2>4 DEF NetworkIInv, SameJoin
<1> QED BY <1>4, <1>5

LEMMA NotConnectedStep == ASSUME NetworkIInv, NotConnected PROVE NetworkIInv'
BY UnderWay, FailedStep DEF NotConnected, JoinAt

LEMMA SaveStep == ASSUME NetworkIInv, SaveConfig PROVE NetworkIInv'
<1>1. /\ NetworkTyped /\ JoinTyped /\ JoinProgress /\ join.at = "save"
      /\ join.ok /\ join.new /\ OneMore /\ Joined /\ file = join.file
  BY UnderWay DEF SaveConfig, JoinAt, JoinProgress
<1>2. "enable" \in Places
  BY DEF Places
<1>3. SameJoin /\ join'.at = "enable" /\ join'.number = join.number /\ join'.ok
  BY <1>1, <1>2, MovesOn, Zenon DEF SaveConfig
<1>4. /\ networks' = networks /\ supplicant' = supplicant
      /\ file' = file \/ file' = Written(networks)
  BY DEF SaveConfig, Fails
<1>5. NetworkTyped'
  BY <1>1, <1>4, WrittenOf DEF NetworkTyped
<1>6. OneMore' /\ Joined'
  BY <1>1, <1>3, <1>4 DEF OneMore, Joined, SameJoin
<1>7. FileKept'
  <2>1. CASE file' = file
    BY <1>1, <1>3, <2>1 DEF FileKept, SameJoin
  <2>2. CASE file' = Written(networks)
    <3>1. Range(NameAndKey(Written(networks))) \subseteq Range(NameAndKey(networks))
      BY <1>1, WrittenOf DEF NetworkTyped
    <3>2. Range(NameAndKey(file')) \subseteq Range(NameAndKey(networks'))
      BY <1>4, <2>2, <3>1, Zenon
    <3> QED BY <1>3, <3>2 DEF FileKept
  <2> QED BY <1>4, <2>1, <2>2
<1>8. JoinProgress'
  BY <1>1, <1>3, <1>6, <1>7 DEF JoinProgress, Result, SameJoin
<1> QED BY <1>3, <1>5, <1>8 DEF NetworkIInv, SameJoin

(* What was added is taken away again. *)
LEMMA RemoveStep ==
  ASSUME NetworkIInv, RemoveFailed, "remove" \notin MayFail PROVE NetworkIInv'
<1>1. /\ NetworkTyped /\ JoinTyped /\ JoinProgress /\ join.at = "undo"
      /\ ~join.ok /\ join.new /\ OneMore /\ file = join.file
  BY UnderWay DEF RemoveFailed, JoinAt, JoinProgress
<1>2. "enable" \in Places
  BY DEF Places
<1>3. SameJoin /\ join'.at = "enable" /\ join'.number = join.number /\ ~join'.ok
  BY <1>1, <1>2, MovesOn, Zenon DEF RemoveFailed
<1>4. networks' = WithoutNetwork(join.number) /\ Stays(networks') /\ file' = file
  BY DEF RemoveFailed, Fails
<1>5. /\ DOMAIN networks' = DOMAIN networks \ {join.number}
      /\ \A k \in DOMAIN networks' : networks'[k] = networks[k]
      /\ networks' = [k \in DOMAIN networks' |-> networks'[k]]
  BY <1>4 DEF WithoutNetwork
<1>6. Nets(networks')
  <2>1. \A k \in DOMAIN networks' : networks'[k] \in NetworkEntry
    BY <1>1, <1>5 DEF NetworkTyped, Nets
  <2>2. networks' \in [DOMAIN networks' -> NetworkEntry]
    BY <1>5, <2>1
  <2>3. IsFiniteSet(DOMAIN networks')
    <3>1. IsFiniteSet(DOMAIN networks) /\ DOMAIN networks' \in SUBSET DOMAIN networks
      BY <1>1, <1>5 DEF NetworkTyped, Nets
    <3> QED BY <3>1, FS_Subset
  <2> QED BY <1>1, <1>5, <2>2, <2>3 DEF NetworkTyped, Nets
<1>7. supplicant' = 0 \/ (/\ supplicant' = supplicant /\ supplicant \in DOMAIN networks'
                          /\ networks'[supplicant].enabled)
  BY <1>4 DEF Stays
<1>8. NetworkTyped'
  BY <1>1, <1>4, <1>5, <1>6, <1>7 DEF NetworkTyped
<1>9. Alike'
  BY <1>1, <1>3, <1>5 DEF OneMore, Alike, SameJoin
<1>10. JoinProgress'
  BY <1>1, <1>3, <1>4, <1>9 DEF JoinProgress, Result, FileKept, SameJoin
<1> QED BY <1>3, <1>8, <1>10 DEF NetworkIInv, SameJoin

LEMMA EnableStep ==
  ASSUME NetworkIInv, EnableAll, "enable" \notin MayFail PROVE NetworkIInv'
<1>1. /\ NetworkTyped /\ JoinTyped /\ JoinProgress /\ join.at = "enable"
      /\ Result /\ FileKept
  BY UnderWay DEF EnableAll, JoinAt, JoinProgress
<1>2. "ended" \in Places /\ "reassociate" \in Places
  BY DEF Places
<1>3. networks' = EnabledAll(networks) /\ UNCHANGED <<supplicant, file, known>>
  BY DEF EnableAll, Fails
<1>4. /\ SameJoin /\ join'.number = join.number /\ join'.ok = join.ok
      /\ join'.at = IF join.ok THEN "ended" ELSE "reassociate"
  <2>1. CASE join.ok
    <3>1. join' = [join EXCEPT !.at = "ended", !.ok = TRUE]
      BY <2>1, Zenon DEF EnableAll, JoinEnded
    <3>2. SameJoin /\ join'.at = "ended" /\ join'.number = join.number /\ join'.ok = TRUE
      BY <1>1, <1>2, <3>1, MovesJudged, Zenon
    <3> QED BY <1>1, <2>1, <3>2 DEF JoinTyped
  <2>2. CASE ~join.ok
    <3>1. join' = [join EXCEPT !.at = "reassociate"]
      BY <2>2, Zenon DEF EnableAll
    <3>2. SameJoin /\ join'.at = "reassociate" /\ join'.number = join.number
          /\ join'.ok = join.ok
      BY <1>1, <1>2, <3>1, MovesOn, Zenon
    <3> QED BY <1>1, <2>2, <3>2 DEF JoinTyped
  <2> QED BY <2>1, <2>2
<1>5. /\ Nets(networks') /\ DOMAIN networks' = DOMAIN networks
      /\ NameAndKey(networks') = NameAndKey(networks)
      /\ \A n \in DOMAIN networks : networks'[n].enabled /\ SameEntry(networks'[n], networks[n])
  BY <1>1, <1>3, EnabledAllOf DEF NetworkTyped
<1>6. NetworkTyped'
  BY <1>1, <1>3, <1>5 DEF NetworkTyped, SameEntry
<1>7. Result'
  <2>1. (Alike => Alike') /\ (OneMore => OneMore')
    BY <1>4, <1>5 DEF Alike, OneMore, SameEntry, SameJoin
  <2>2. OneMore /\ Joined => Joined'
    BY <1>4, <1>5 DEF Joined, OneMore, SameEntry, SameJoin
  <2> QED BY <1>1, <1>4, <2>1, <2>2 DEF Result, SameJoin
<1>8. FileKept'
  BY <1>1, <1>3, <1>4, <1>5 DEF FileKept, SameJoin
<1>9. NoneDisabled'
  BY <1>5 DEF NoneDisabled
<1>10. JoinProgress'
  BY <1>4, <1>7, <1>8, <1>9 DEF JoinProgress
<1> QED BY <1>4, <1>6, <1>10 DEF NetworkIInv, SameJoin

LEMMA ReassociateStep == ASSUME NetworkIInv, Reassociate PROVE NetworkIInv'
<1>1. /\ NetworkTyped /\ JoinTyped /\ JoinProgress /\ join.at = "reassociate"
      /\ ~join.ok /\ Result /\ FileKept /\ NoneDisabled
  BY UnderWay DEF Reassociate, JoinAt, JoinProgress
<1>2. "ended" \in Places
  BY DEF Places
<1>3. supplicant' = 0 /\ UNCHANGED <<networks, file, known>> /\ join' = JoinEnded(FALSE)
  BY DEF Reassociate
<1>4. SameJoin /\ join'.at = "ended" /\ join'.number = join.number /\ ~join'.ok
  BY <1>1, <1>2, <1>3, MovesJudged, Zenon DEF JoinEnded
<1>5. NetworkTyped'
  BY <1>1, <1>3 DEF NetworkTyped
<1>6. Alike' /\ NoneDisabled'
  BY <1>1, <1>3, <1>4 DEF Alike, NoneDisabled, Result, SameJoin
<1>7. JoinProgress'
  BY <1>1, <1>3, <1>4, <1>6 DEF JoinProgress, Result, FileKept, SameJoin
<1> QED BY <1>4, <1>5, <1>7 DEF NetworkIInv, SameJoin

LEMMA NetworkStep ==
  ASSUME NetworkIInv, NetworkNext, MayFail \cap {"remove", "enable"} = {}
  PROVE  NetworkIInv'
BY AssociateStep, RestartStep, RefreshStep, ForgetStep, StartStep, ListStep, AddStep,
   SsidStep, KeyStep, SelectStep, ConnectedStep, NotConnectedStep, SaveStep, RemoveStep,
   EnableStep, ReassociateStep
DEF NetworkNext

(* What the places of a join come to is the property of one that has ended.    *)
LEMMA NetworkEnough == NetworkIInv => JoinUndone
<1> SUFFICES ASSUME NetworkIInv, join.at = "ended" PROVE JoinUndone
  BY DEF JoinUndone
<1>1. JoinTyped /\ Result /\ FileKept /\ NoneDisabled
  BY UnderWay DEF JoinProgress
<1> DEFINE before == NameAndKey(join.networks)
           added == IF join.ok /\ join.new THEN {join.number} ELSE {}
<1>2. NameAndKey(networks) = [n \in DOMAIN before \cup added |->
                                IF n \in added THEN <<join.ssid, "right">> ELSE before[n]]
  <2>1. CASE join.ok /\ join.new
    BY <1>1, <2>1 DEF Result, OneMore, Joined, NameAndKey, SameEntry, Before
  <2>2. CASE ~(join.ok /\ join.new)
    BY <1>1, <2>2 DEF Result, Alike, NameAndKey, SameEntry, Before
  <2> QED BY <2>1, <2>2
<1> QED BY <1>1, <1>2 DEF JoinUndone, FileKept, NoneDisabled, Before

(* Whatever commands of it fail, whatever the supplicant does between two of   *)
(* them and however old the rows: a join that ends has added the network it    *)
(* was asked for, with a key seen to be right, or nothing (network.c:896,      *)
(* :980), as long as what a join is undone with does not fail itself.          *)
THEOREM JoinsUndone ==
  ASSUME MayFail \cap {"remove", "enable"} = {}
  PROVE  Spec => []JoinUndone
<1>1. Init => NetworkIInv
  BY NetworkInitially DEF Init, InitOf
<1>2. NetworkIInv /\ [Next]_vars => NetworkIInv'
  <2> SUFFICES ASSUME NetworkIInv, [Next]_vars PROVE NetworkIInv'
    OBVIOUS
  <2>1. CASE NetworkNext
    BY <2>1, NetworkStep
  <2>2. CASE UNCHANGED networkVars
    <3>1. UNCHANGED <<supplicant, networks, file, known, join>>
      BY <2>2 DEF networkVars
    <3>2. NetworkTyped'
      BY <3>1 DEF NetworkIInv, NetworkTyped
    <3>3. JoinTyped => JoinTyped'
      BY <3>1 DEF JoinTyped, Before
    <3>4. JoinProgress => JoinProgress'
      BY <3>1 DEF JoinProgress, Before, Alike, OneMore, Joined, Result, FileKept, NoneDisabled
    <3> QED BY <3>1, <3>2, <3>3, <3>4 DEF NetworkIInv
  <2> QED BY <2>1, <2>2, PartSteps
<1>3. NetworkIInv => JoinUndone
  BY NetworkEnough
<1> QED BY <1>1, <1>2, <1>3, PTL DEF Spec
--------------------------------------------------------------------------------
(* The tray daemon and the strip.                                              *)

Requests == (Props \cup {"all"}) \X Items

Mail ==
  ({"register", "signal"} \X Items) \cup ({"gone"} \X Apps) \cup {<<"list">>}
    \cup ({"activate"} \X Items \X Nat)
    \cup ({"reply"} \X Items \X (Props \cup {"all"}) \X (0..Failed))

StripState == [open : BOOLEAN, asking : BOOLEAN, answered : BOOLEAN,
               entries : Seq(TrayEntry), from : Nat, opens : Nat]

TrayTyped ==
  /\ registry \in Seq(Items) /\ data \in [Items -> [Props -> 0..MaxVersion]]
  /\ refetch \in [Items -> BOOLEAN] /\ life \in Nat /\ strip \in StripState

(* What the main loop may still run is for a proxy that there is.              *)
RegisteredCalls ==
  calls \in Seq(Requests) /\ \A n \in 1..Len(calls) : Registered(calls[n][2])
RegisteredReplies ==
  /\ inbox \in Seq(Mail)
  /\ \A n \in 1..Len(inbox) : inbox[n][1] = "reply" => Registered(inbox[n][2])
RegisteredTimers == \A i \in Items : refetch[i] => Registered(i)

TrayIInv ==
  /\ TrayTyped /\ RegisteredCalls /\ RegisteredReplies /\ RegisteredTimers
  /\ ~misdirected

LEMMA TrayEnough == TrayIInv => NothingStale
<1> SUFFICES ASSUME TrayIInv PROVE NothingStale
  OBVIOUS
<1>1. DOMAIN calls = 1..Len(calls) /\ DOMAIN inbox = 1..Len(inbox)
  BY LenProperties DEF TrayIInv, RegisteredCalls, RegisteredReplies
<1> QED
  BY <1>1 DEF TrayIInv, RegisteredCalls, RegisteredReplies, RegisteredTimers,
              NothingStale

LEMMA TrayInitially == ASSUME NEW on \in BOOLEAN, TrayInit(on) PROVE TrayIInv
<1>1. <<>> \in Seq(Requests) /\ <<>> \in Seq(Mail) /\ <<>> \in Seq(Items)
      /\ <<>> \in Seq(TrayEntry) /\ Len(<<>>) = 0
  BY EmptySeq
<1>2. MaxVersion \in Nat /\ MaxOpens \in Nat
  BY TrayAssumption
<1>3. data \in [Items -> [Props -> 0..MaxVersion]] /\ refetch \in [Items -> BOOLEAN]
  BY <1>2 DEF TrayInit, Unread
<1>4. strip \in StripState
  BY <1>1, <1>2 DEF TrayInit, StripState
<1>5. TrayTyped
  BY <1>1, <1>3, <1>4 DEF TrayInit, TrayTyped
<1> QED
  BY <1>1, <1>5 DEF TrayInit, TrayIInv, RegisteredCalls, RegisteredReplies,
                    RegisteredTimers

(* Messages carry what they say. *)
LEMMA MailParts ==
  ASSUME NEW m \in Mail
  PROVE  /\ m[1] = "register" => m[2] \in Items
         /\ m[1] = "signal" => m[2] \in Items
         /\ m[1] = "reply" => /\ m[2] \in Items /\ m[3] \in Props \cup {"all"}
                              /\ m[4] \in 0..Failed
BY DEF Mail

LEMMA MailOf ==
  ASSUME NEW i \in Items, NEW a \in Apps, NEW k \in Nat,
         NEW p \in Props \cup {"all"}, NEW v \in 0..Failed
  PROVE  /\ <<"register", i>> \in Mail /\ <<"signal", i>> \in Mail
         /\ <<"gone", a>> \in Mail /\ <<"list">> \in Mail
         /\ <<"activate", i, k>> \in Mail /\ <<"reply", i, p, v>> \in Mail
BY DEF Mail

(* A message arrives: a reply is to a call of a proxy that there is. *)
LEMMA Posted ==
  ASSUME TrayIInv, NEW m \in Mail, m[1] = "reply" => Registered(m[2]),
         inbox' = Append(inbox, m), registry' = registry
  PROVE  RegisteredReplies'
<1>1. /\ inbox \in Seq(Mail) /\ Len(inbox) \in Nat
      /\ \A n \in 1..Len(inbox) : inbox[n][1] = "reply" => Registered(inbox[n][2])
  BY LenProperties DEF TrayIInv, RegisteredReplies
<1>2. /\ inbox' \in Seq(Mail) /\ Len(inbox') = Len(inbox) + 1
      /\ inbox'[Len(inbox) + 1] = m
      /\ \A n \in 1..Len(inbox) : inbox'[n] = inbox[n]
  BY <1>1, AppendProperties
<1>3. ASSUME NEW n \in 1..Len(inbox'), inbox'[n][1] = "reply"
      PROVE  Registered(inbox'[n][2])
  <2>1. CASE n = Len(inbox) + 1
    BY <1>2, <1>3, <2>1
  <2>2. CASE n # Len(inbox) + 1
    <3>1. n \in 1..Len(inbox)
      BY <1>1, <1>2, <2>2
    <3> QED
      BY <1>1, <1>2, <1>3, <3>1
  <2> QED
    BY <2>1, <2>2
<1> QED
  BY <1>2, <1>3 DEF RegisteredReplies, Registered

(* The first message is taken. *)
LEMMA Taken ==
  ASSUME TrayIInv, inbox # <<>>
  PROVE  /\ Head(inbox) \in Mail
         /\ Head(inbox)[1] = "reply" => Registered(Head(inbox)[2])
         /\ Tail(inbox) \in Seq(Mail)
         /\ \A n \in 1..Len(Tail(inbox)) :
              n + 1 \in 1..Len(inbox) /\ Tail(inbox)[n] = inbox[n + 1]
<1>1. /\ inbox \in Seq(Mail) /\ Len(inbox) \in Nat \ {0}
      /\ \A n \in 1..Len(inbox) : inbox[n][1] = "reply" => Registered(inbox[n][2])
  BY EmptySeq DEF TrayIInv, RegisteredReplies
<1>2. /\ Tail(inbox) \in Seq(Mail) /\ Head(inbox) = inbox[1] /\ Head(inbox) \in Mail
      /\ Len(Tail(inbox)) = Len(inbox) - 1
      /\ \A n \in 1..Len(Tail(inbox)) : Tail(inbox)[n] = inbox[n + 1]
  BY <1>1, HeadTailProperties
<1>3. \A n \in 1..Len(Tail(inbox)) : n + 1 \in 1..Len(inbox)
  BY <1>1, <1>2
<1>4. 1 \in 1..Len(inbox)
  BY <1>1
<1> QED
  BY <1>1, <1>2, <1>3, <1>4

(* The others stay good as long as no item goes. *)
LEMMA OthersWait ==
  ASSUME TrayIInv, inbox # <<>>, inbox' = Tail(inbox),
         \A j : Registered(j) => Registered(j)'
  PROVE  RegisteredReplies'
<1>1. /\ inbox' \in Seq(Mail)
      /\ \A n \in 1..Len(inbox') : n + 1 \in 1..Len(inbox) /\ inbox'[n] = inbox[n + 1]
  BY Taken
<1>2. \A n \in 1..Len(inbox) : inbox[n][1] = "reply" => Registered(inbox[n][2])
  BY DEF TrayIInv, RegisteredReplies
<1> QED
  BY <1>1, <1>2 DEF RegisteredReplies

(* A proxy asks its item. *)
LEMMA Asked ==
  ASSUME TrayIInv, NEW p \in Props \cup {"all"}, NEW i \in Items, Registered(i)',
         \A j : Registered(j) => Registered(j)',
         calls' = Append(calls, <<p, i>>)
  PROVE  RegisteredCalls'
<1> DEFINE c == <<p, i>>
<1>1. /\ calls \in Seq(Requests) /\ Len(calls) \in Nat /\ c \in Requests
      /\ c[2] = i
      /\ \A n \in 1..Len(calls) : Registered(calls[n][2])
  BY LenProperties DEF TrayIInv, RegisteredCalls, Requests
<1> HIDE DEF c
<1>2. /\ calls' \in Seq(Requests) /\ Len(calls') = Len(calls) + 1
      /\ calls'[Len(calls) + 1] = c
      /\ \A n \in 1..Len(calls) : calls'[n] = calls[n]
  BY <1>1, AppendProperties DEF c
<1>3. ASSUME NEW n \in 1..Len(calls')
      PROVE  Registered(calls[n][2])'
  <2>1. CASE n = Len(calls) + 1
    BY <1>1, <1>2, <2>1
  <2>2. CASE n # Len(calls) + 1
    <3>1. n \in 1..Len(calls)
      BY <1>1, <1>2, <2>2
    <3> QED
      BY <1>1, <1>2, <3>1
  <2> QED
    BY <2>1, <2>2
<1> QED
  BY <1>2, <1>3 DEF RegisteredCalls

(* The daemon does nothing, or nothing but take or get a message. *)
LEMMA DaemonRests ==
  ASSUME TrayIInv, UNCHANGED <<calls, registry, refetch>>
  PROVE  RegisteredCalls' /\ RegisteredTimers'
BY DEF TrayIInv, RegisteredCalls, RegisteredTimers, Registered

LEMMA InboxRests ==
  ASSUME TrayIInv, UNCHANGED inbox, \A j : Registered(j) => Registered(j)'
  PROVE  RegisteredReplies'
BY DEF TrayIInv, RegisteredReplies

LEMMA StripRests ==
  ASSUME TrayIInv, UNCHANGED <<registry, refetch, data, life, strip>>
  PROVE  TrayTyped'
BY DEF TrayIInv, TrayTyped

LEMMA RegistryRests ==
  ASSUME UNCHANGED registry
  PROVE  \A j : Registered(j)' <=> Registered(j)
BY DEF Registered

(* An item comes in; no other goes. *)
LEMMA Enrolled ==
  ASSUME registry \in Seq(Items), NEW i \in Items, registry' = Append(registry, i)
  PROVE  /\ registry' \in Seq(Items) /\ Registered(i)'
         /\ \A j : Registered(j) => Registered(j)'
<1>1. /\ registry' \in Seq(Items) /\ Len(registry') = Len(registry) + 1
      /\ registry'[Len(registry) + 1] = i /\ Len(registry) \in Nat
      /\ \A n \in 1..Len(registry) : registry'[n] = registry[n]
  BY AppendProperties, LenProperties
<1>2. \A n \in 1..Len(registry) : n \in 1..Len(registry')
  BY <1>1
<1>3. Len(registry) + 1 \in 1..Len(registry')
  BY <1>1
<1>4. Registered(i)'
  BY <1>1, <1>3 DEF Registered, Contains
<1>5. ASSUME NEW j, Registered(j)
      PROVE  Registered(j)'
  <2>1. PICK n \in 1..Len(registry) : registry[n] = j
    BY <1>5 DEF Registered, Contains
  <2> QED
    BY <1>1, <1>2, <2>1 DEF Registered, Contains
<1> QED
  BY <1>1, <1>4, <1>5

(* Items go, and with them whatever was in flight for their proxies. *)
LEMMA Departed ==
  ASSUME TrayIInv, inbox # <<>>, NEW gone,
         registry' = Without(registry, gone), FreeProxies(gone)
  PROVE  /\ registry' \in Seq(Items) /\ refetch' \in [Items -> BOOLEAN]
         /\ RegisteredCalls' /\ RegisteredReplies' /\ RegisteredTimers'
<1>1. /\ registry \in Seq(Items) /\ refetch \in [Items -> BOOLEAN]
      /\ calls \in Seq(Requests) /\ inbox \in Seq(Mail)
      /\ \A n \in 1..Len(calls) : Registered(calls[n][2])
      /\ \A n \in 1..Len(inbox) : inbox[n][1] = "reply" => Registered(inbox[n][2])
      /\ \A i \in Items : refetch[i] => Registered(i)
  BY DEF TrayIInv, TrayTyped, RegisteredCalls, RegisteredReplies, RegisteredTimers
<1>2. registry' \in Seq(Items)
  BY <1>1, WithoutFrom
<1>3. ASSUME NEW j, Registered(j), j \notin gone
      PROVE  Registered(j)'
  <2>1. PICK n \in 1..Len(registry) : registry[n] = j
    BY <1>3 DEF Registered, Contains
  <2>2. \E k \in 1..Len(registry') : registry'[k] = j
    BY <1>1, <1>3, <2>1, WithoutKeeps
  <2> QED
    BY <2>2 DEF Registered, Contains
<1>4. RegisteredCalls'
  <2>1. /\ calls' \in Seq(Requests)
        /\ \A k \in 1..Len(calls') : /\ calls'[k] \notin CallsOf(gone)
                                     /\ \E n \in 1..Len(calls) : calls'[k] = calls[n]
    BY <1>1, WithoutFrom DEF FreeProxies
  <2>2. ASSUME NEW k \in 1..Len(calls')
        PROVE  Registered(calls[k][2])'
    <3>1. PICK n \in 1..Len(calls) : calls'[k] = calls[n]
      BY <2>1
    <3>2. n \in DOMAIN calls
      BY <1>1, LenProperties
    <3>3. calls[n][2] \notin gone
      BY <2>1, <3>1, <3>2 DEF CallsOf, ToSet
    <3> QED
      BY <1>1, <1>3, <3>1, <3>3
  <2> QED
    BY <2>1, <2>2 DEF RegisteredCalls
<1>5. RegisteredReplies'
  <2> DEFINE rest == Tail(inbox)
  <2>1. /\ rest \in Seq(Mail)
        /\ \A n \in 1..Len(rest) : n + 1 \in 1..Len(inbox) /\ rest[n] = inbox[n + 1]
    BY Taken
  <2>2. inbox' = Without(rest, RepliesOf(gone))
    BY DEF FreeProxies
  <2> HIDE DEF rest
  <2>3. /\ inbox' \in Seq(Mail)
        /\ \A k \in 1..Len(inbox') : /\ inbox'[k] \notin RepliesOf(gone)
                                     /\ \E n \in 1..Len(rest) : inbox'[k] = rest[n]
    BY <2>1, <2>2, WithoutFrom
  <2>4. ASSUME NEW k \in 1..Len(inbox'), inbox'[k][1] = "reply"
        PROVE  Registered(inbox[k][2])'
    <3>1. PICK n \in 1..Len(rest) : inbox'[k] = rest[n]
      BY <2>3
    <3>2. PICK m \in 1..Len(inbox) : inbox'[k] = inbox[m]
      BY <2>1, <3>1
    <3>3. m \in DOMAIN inbox
      BY <1>1, LenProperties
    <3>4. inbox[m][2] \notin gone
      BY <2>3, <2>4, <3>2, <3>3 DEF RepliesOf, ToSet
    <3> QED
      BY <1>1, <1>3, <2>4, <3>2, <3>4
  <2> QED
    BY <2>3, <2>4 DEF RegisteredReplies
<1>6. refetch' \in [Items -> BOOLEAN] /\ RegisteredTimers'
  <2>1. refetch' = [i \in Items |-> refetch[i] /\ i \notin gone]
    BY DEF FreeProxies
  <2>2. \A i \in Items : refetch'[i] => refetch[i] /\ i \notin gone
    BY <2>1
  <2>3. refetch' \in [Items -> BOOLEAN]
    BY <2>1, Zenon
  <2> QED
    BY <1>1, <1>3, <2>2, <2>3 DEF RegisteredTimers
<1> QED
  BY <1>2, <1>4, <1>5, <1>6

(* A call is answered: the others keep their order. *)
LEMMA Answered ==
  ASSUME TrayIInv, NEW n \in DOMAIN calls, calls' = RemoveAt(calls, n),
         registry' = registry
  PROVE  calls[n] \in Requests /\ Registered(calls[n][2]) /\ RegisteredCalls'
<1>1. /\ calls \in Seq(Requests) /\ Len(calls) \in Nat /\ n \in 1..Len(calls)
      /\ \A m \in 1..Len(calls) : calls[m] \in Requests /\ Registered(calls[m][2])
  BY LenProperties, ElementOfSeq DEF TrayIInv, RegisteredCalls
<1> DEFINE one == SubSeq(calls, 1, n - 1)
           two == SubSeq(calls, n + 1, Len(calls))
<1>2. calls' = one \o two
  BY DEF RemoveAt
<1>3. /\ one \in Seq(Requests) /\ Len(one) = n - 1
      /\ \A m \in 1..(n - 1) : one[m] = calls[m]
  <2>1. /\ 1 \in Int /\ n - 1 \in Int
        /\ \A m \in 1..(n - 1) : calls[m] \in Requests
    BY <1>1
  <2>2. /\ one \in Seq(Requests)
        /\ Len(one) = IF 1 <= n - 1 THEN n - 1 - 1 + 1 ELSE 0
        /\ \A m \in 1..(n - 1 - 1 + 1) : one[m] = calls[1 + m - 1]
    BY <2>1, SubSeqProperties
  <2> HIDE DEF one
  <2>3. ASSUME NEW m \in 1..(n - 1)
        PROVE  m \in 1..(n - 1 - 1 + 1) /\ 1 + m - 1 = m
    BY <1>1, <2>3
  <2> QED
    BY <1>1, <2>2, <2>3
<1>4. /\ two \in Seq(Requests) /\ Len(two) = Len(calls) - n
      /\ \A m \in 1..(Len(calls) - n) : two[m] = calls[n + m]
  <2>1. /\ n + 1 \in Int /\ Len(calls) \in Int
        /\ \A m \in (n + 1)..Len(calls) : calls[m] \in Requests
    BY <1>1
  <2>2. /\ two \in Seq(Requests)
        /\ Len(two) = IF n + 1 <= Len(calls) THEN Len(calls) - (n + 1) + 1 ELSE 0
        /\ \A m \in 1..(Len(calls) - (n + 1) + 1) : two[m] = calls[n + 1 + m - 1]
    BY <2>1, SubSeqProperties
  <2> HIDE DEF two
  <2>3. ASSUME NEW m \in 1..(Len(calls) - n)
        PROVE  m \in 1..(Len(calls) - (n + 1) + 1) /\ n + 1 + m - 1 = n + m
    BY <1>1, <2>3
  <2> QED
    BY <1>1, <2>2, <2>3
<1> HIDE DEF one, two
<1>5. /\ calls' \in Seq(Requests) /\ Len(calls') = Len(one) + Len(two)
      /\ \A m \in 1..(Len(one) + Len(two)) :
           calls'[m] = IF m <= Len(one) THEN one[m] ELSE two[m - Len(one)]
  <2>1. /\ one \o two \in Seq(Requests) /\ Len(one \o two) = Len(one) + Len(two)
        /\ \A m \in 1..(Len(one) + Len(two)) :
             (one \o two)[m] = IF m <= Len(one) THEN one[m] ELSE two[m - Len(one)]
    <3>1. one \in Seq(Requests) /\ two \in Seq(Requests)
      BY <1>3, <1>4
    <3> QED
      BY <3>1, ConcatProperties
  <2> QED
    BY <1>2, <2>1
<1>6. ASSUME NEW m \in 1..Len(calls')
      PROVE  \E k \in 1..Len(calls) : calls'[m] = calls[k]
  <2> DEFINE whole == Len(calls)
             l == m - (n - 1)
  <2>1. whole \in Nat /\ n \in 1..whole /\ Len(one) = n - 1 /\ Len(two) = whole - n
    BY <1>1, <1>3, <1>4
  <2>2. m \in 1..(whole - 1) /\ m \in 1..(Len(one) + Len(two))
    <3>1. m \in 1..(Len(one) + Len(two))
      BY <1>5
    <3> QED
      BY <2>1, <3>1
  <2>3. calls'[m] = IF m <= n - 1 THEN one[m] ELSE two[l]
    BY <1>5, <2>1, <2>2
  <2> HIDE DEF whole
  <2>4. /\ m <= n - 1 => m \in 1..(n - 1) /\ m \in 1..whole
        /\ ~(m <= n - 1) => l \in 1..(whole - n) /\ n + l \in 1..whole
    <3>1. n \in Nat /\ whole \in Nat /\ m \in Nat /\ 1 <= n /\ 1 <= m /\ m <= whole - 1 /\ n <= whole
      BY <2>1, <2>2
    <3> QED
      BY <3>1
  <2> HIDE DEF l
  <2> USE DEF whole
  <2> QED
    BY <1>3, <1>4, <2>3, <2>4
<1> QED
  BY <1>1, <1>5, <1>6 DEF RegisteredCalls, Registered

(* The list of now is one of entries. *)
LEMMA ListedTyped == ASSUME TrayIInv PROVE Listed \in Seq(TrayEntry)
<1>1. /\ registry \in Seq(Items) /\ Len(registry) \in Nat
      /\ data \in [Items -> [Props -> 0..MaxVersion]]
      /\ DOMAIN registry = 1..Len(registry)
      /\ \A k \in 1..Len(registry) : registry[k] \in Items
  BY LenProperties, ElementOfSeq DEF TrayIInv, TrayTyped
<1>2. Listed \in [1..Len(registry) -> TrayEntry]
  BY <1>1 DEF Listed, TrayEntry
<1> QED
  BY <1>1, <1>2, FunctionIsSeq

(* Applications only send, and the strip only asks: nothing else moves. *)
LEMMA OnlyMail ==
  ASSUME TrayIInv, NEW m \in Mail, m[1] # "reply", inbox' = Append(inbox, m),
         UNCHANGED <<calls, daemon, misdirected>>, strip' \in StripState
  PROVE  TrayIInv'
<1>1. RegisteredReplies'
  BY Posted DEF daemon
<1>2. RegisteredCalls' /\ RegisteredTimers'
  BY DaemonRests DEF daemon
<1>3. TrayTyped'
  BY DEF TrayIInv, TrayTyped, daemon
<1> QED
  BY <1>1, <1>2, <1>3 DEF TrayIInv

LEMMA NoMail ==
  ASSUME TrayIInv, UNCHANGED <<inbox, calls, registry, data, refetch, life, misdirected>>,
         strip' \in StripState
  PROVE  TrayIInv'
<1>1. RegisteredReplies'
  BY InboxRests, RegistryRests
<1>2. RegisteredCalls' /\ RegisteredTimers'
  BY DaemonRests
<1>3. TrayTyped'
  BY DEF TrayIInv, TrayTyped
<1> QED
  BY <1>1, <1>2, <1>3 DEF TrayIInv

LEMMA AppsStep ==
  ASSUME TrayIInv, NEW a \in Apps, StartApp(a) \/ StopApp(a)
  PROVE  TrayIInv'
<1>1. strip \in StripState /\ <<"gone", a>> \in Mail /\ <<"gone", a>>[1] # "reply"
  BY DEF TrayIInv, TrayTyped, Mail
<1>2. CASE StartApp(a)
  BY <1>1, <1>2, NoMail DEF StartApp, daemon, zone
<1>3. CASE StopApp(a)
  BY <1>1, <1>3, OnlyMail DEF StopApp, zone
<1> QED
  BY <1>2, <1>3

LEMMA ItemsStep ==
  ASSUME TrayIInv, NEW i \in Items, Announce(i) \/ Change(i)
  PROVE  TrayIInv'
<1>1. /\ strip \in StripState
      /\ <<"register", i>> \in Mail /\ <<"register", i>>[1] # "reply"
      /\ <<"signal", i>> \in Mail /\ <<"signal", i>>[1] # "reply"
  BY DEF TrayIInv, TrayTyped, Mail
<1>2. CASE Announce(i)
  BY <1>1, <1>2, OnlyMail DEF Announce, zone
<1>3. CASE Change(i)
  BY <1>1, <1>3, OnlyMail DEF Change, zone
<1> QED
  BY <1>2, <1>3

LEMMA AnswerStep ==
  ASSUME TrayIInv, NEW n \in DOMAIN calls, NEW v \in 0..Failed, Answer(n, v)
  PROVE  TrayIInv'
<1> DEFINE c == calls[n]
<1>1. c \in Requests /\ Registered(c[2]) /\ RegisteredCalls'
  BY Answered DEF Answer, daemon
<1>2. inbox' = Append(inbox, <<"reply", c[2], c[1], v>>)
      /\ UNCHANGED <<registry, data, refetch, life, strip, misdirected>>
  BY DEF Answer, daemon, zone
<1> HIDE DEF c
<1> DEFINE m == <<"reply", c[2], c[1], v>>
<1>3. m \in Mail /\ m[2] = c[2]
  BY <1>1 DEF Requests, Mail
<1>4. inbox' = Append(inbox, m)
  BY <1>2
<1> HIDE DEF m
<1>5. RegisteredReplies'
  BY <1>1, <1>2, <1>3, <1>4, Posted
<1>6. TrayTyped' /\ RegisteredTimers'
  BY <1>2 DEF TrayIInv, TrayTyped, RegisteredTimers, Registered
<1> QED
  BY <1>1, <1>2, <1>5, <1>6 DEF TrayIInv

LEMMA RegisterStep == ASSUME TrayIInv, HandleRegister PROVE TrayIInv'
<1>0. Head(inbox)[2] \in Items
  BY Taken, MailParts DEF HandleRegister
<1> PICK i \in Items : i = Head(inbox)[2]
  BY <1>0
<1>1. /\ inbox # <<>> /\ inbox' = Tail(inbox)
      /\ UNCHANGED <<life, strip, misdirected>> /\ RegisterItem(i)
  BY DEF HandleRegister, zone
<1>2. CASE Registered(i)
  <2>1. UNCHANGED <<registry, data, refetch, calls>>
    BY <1>1, <1>2 DEF RegisterItem
  <2>2. RegisteredReplies'
    BY <1>1, <2>1, OthersWait, RegistryRests
  <2>3. RegisteredCalls' /\ RegisteredTimers' /\ TrayTyped'
    BY <1>1, <2>1, DaemonRests, StripRests
  <2> QED
    BY <1>1, <2>2, <2>3 DEF TrayIInv
<1>3. CASE ~Registered(i)
  <2>1. /\ registry' = Append(registry, i) /\ data' = [data EXCEPT ![i] = Unread]
        /\ refetch' = [refetch EXCEPT ![i] = FALSE]
        /\ calls' = Append(calls, <<"all", i>>)
    BY <1>1, <1>3 DEF RegisterItem, FetchAll
  <2>2. /\ registry' \in Seq(Items) /\ Registered(i)'
        /\ \A j : Registered(j) => Registered(j)'
    BY <1>1, <2>1, Enrolled DEF TrayIInv, TrayTyped
  <2>3. RegisteredReplies'
    BY <1>1, <2>2, OthersWait
  <2>4. RegisteredCalls'
    BY <1>1, <2>1, <2>2, Asked
  <2>5. RegisteredTimers' /\ refetch' \in [Items -> BOOLEAN]
    BY <1>1, <2>1, <2>2 DEF TrayIInv, TrayTyped, RegisteredTimers
  <2>6. data' \in [Items -> [Props -> 0..MaxVersion]]
    BY <1>1, <2>1, TrayAssumption DEF TrayIInv, TrayTyped, Unread
  <2>7. TrayTyped'
    BY <1>1, <2>2, <2>5, <2>6 DEF TrayIInv, TrayTyped
  <2> QED
    BY <1>1, <2>3, <2>4, <2>5, <2>7 DEF TrayIInv
<1> QED
  BY <1>2, <1>3

LEMMA GoneStep == ASSUME TrayIInv, HandleGone PROVE TrayIInv'
<1> DEFINE gone == Vanished(Head(inbox)[2])
<1>1. /\ inbox # <<>> /\ registry' = Without(registry, gone) /\ FreeProxies(gone)
      /\ UNCHANGED <<life, data, strip, misdirected>>
  BY DEF HandleGone, zone
<1> HIDE DEF gone
<1>2. /\ registry' \in Seq(Items) /\ refetch' \in [Items -> BOOLEAN]
      /\ RegisteredCalls' /\ RegisteredReplies' /\ RegisteredTimers'
  BY <1>1, Departed
<1>3. TrayTyped'
  BY <1>1, <1>2 DEF TrayIInv, TrayTyped
<1> QED
  BY <1>1, <1>2, <1>3 DEF TrayIInv

LEMMA SignalStep == ASSUME TrayIInv, HandleSignal PROVE TrayIInv'
<1> DEFINE i == Head(inbox)[2]
<1>1. i \in Items /\ inbox # <<>> /\ inbox' = Tail(inbox)
      /\ UNCHANGED <<calls, life, registry, data, strip, misdirected>>
      /\ refetch' = [refetch EXCEPT ![i] = @ \/ Registered(i)]
  BY Taken, MailParts DEF HandleSignal, ItemSignal, zone
<1> HIDE DEF i
<1>2. RegisteredReplies'
  BY <1>1, OthersWait, RegistryRests
<1>3. RegisteredCalls'
  BY <1>1 DEF TrayIInv, RegisteredCalls, Registered
<1>4. refetch \in [Items -> BOOLEAN] /\ RegisteredTimers
  BY DEF TrayIInv, TrayTyped
<1>5. refetch' \in [Items -> BOOLEAN]
  BY <1>1, <1>4, Zenon
<1>6. \A j \in Items : refetch'[j] => refetch[j] \/ Registered(j)
  BY <1>1, <1>4
<1>7. RegisteredTimers' /\ TrayTyped'
  BY <1>1, <1>4, <1>5, <1>6, RegistryRests DEF TrayIInv, TrayTyped, RegisteredTimers
<1> QED
  BY <1>1, <1>2, <1>3, <1>7 DEF TrayIInv

LEMMA RefetchStep ==
  ASSUME TrayIInv, NEW i \in Items, RefetchDue(i) PROVE TrayIInv'
<1>1. /\ refetch[i] /\ refetch' = [refetch EXCEPT ![i] = FALSE]
      /\ calls' = Append(calls, <<"all", i>>)
      /\ UNCHANGED <<inbox, life, registry, data, strip, misdirected>>
  BY DEF RefetchDue, FetchAll, zone
<1>2. Registered(i) /\ RegisteredTimers /\ refetch \in [Items -> BOOLEAN]
  BY <1>1 DEF TrayIInv, TrayTyped, RegisteredTimers
<1>3. \A j : Registered(j) => Registered(j)'
  BY <1>1, RegistryRests
<1>4. RegisteredReplies'
  BY <1>1, <1>3, InboxRests
<1>5. RegisteredCalls'
  BY <1>1, <1>2, <1>3, Asked
<1>6. RegisteredTimers' /\ refetch' \in [Items -> BOOLEAN]
  BY <1>1, <1>2, <1>3 DEF RegisteredTimers
<1>7. TrayTyped'
  BY <1>1, <1>6 DEF TrayIInv, TrayTyped
<1> QED
  BY <1>1, <1>4, <1>5, <1>6, <1>7 DEF TrayIInv

(* The calls one by one that stand for one that failed. *)
LEMMA SomeOrder ==
  ASSUME NEW S, IsFiniteSet(S)
  PROVE  SetToSeq(S) \in Seq(S)
<1>1. Cardinality(S) \in Nat /\ ExistsBijection(1..Cardinality(S), S)
  BY FS_CardinalityType
<1>2. PICK f \in [1..Cardinality(S) -> S] : IsInjective(f)
  BY <1>1 DEF ExistsBijection, Bijection, Injection
<1>3. SetToSeq(S) \in [1..Cardinality(S) -> S]
  BY <1>2 DEF SetToSeq
<1> QED
  BY <1>1, <1>3, FunctionIsSeq

LEMMA OneByOne ==
  ASSUME NEW i
  PROVE  SetToSeq({<<p, i>> : p \in Props}) \in Seq({<<p, i>> : p \in Props})
<1> DEFINE T == {<<p, i>> : p \in Props}
           f == [p \in Props |-> <<p, i>>]
<1>1. f \in Surjection(Props, T)
  BY DEF Surjection
<1>2. IsFiniteSet(T)
  BY <1>1, TrayAssumption, FS_Surjection
<1> HIDE DEF T
<1> QED
  BY <1>2, SomeOrder DEF T

LEMMA GetAllStep == ASSUME TrayIInv, HandleGetAll PROVE TrayIInv'
<1>0. /\ inbox # <<>> /\ Head(inbox) \in Mail /\ Registered(Head(inbox)[2])
      /\ Head(inbox)[2] \in Items /\ Head(inbox)[4] \in 0..Failed
  BY Taken, MailParts DEF HandleGetAll
<1> PICK i \in Items, v \in 0..Failed : i = Head(inbox)[2] /\ v = Head(inbox)[4]
  BY <1>0
<1>1. /\ inbox # <<>> /\ inbox' = Tail(inbox)
      /\ UNCHANGED <<life, registry, refetch, strip, misdirected>>
      /\ Registered(i)
  BY <1>0 DEF HandleGetAll, zone
<1>2. \A j : Registered(j)' <=> Registered(j)
  BY <1>1, RegistryRests
<1>3. RegisteredReplies'
  BY <1>1, <1>2, OthersWait
<1>4. RegisteredTimers'
  BY <1>1, <1>2 DEF TrayIInv, RegisteredTimers
<1>5. CASE v = Failed
  <2> DEFINE T == {<<p, i>> : p \in Props}
             more == SetToSeq(T)
  <2>1. calls' = calls \o more /\ UNCHANGED data
    BY <1>5 DEF HandleGetAll
  <2>2. T \subseteq Requests
    BY DEF Requests
  <2>0. more \in Seq(T)
    BY OneByOne
  <2>3. \A c \in T : c[2] = i
    OBVIOUS
  <2> HIDE DEF T, more
  <2>4. more \in Seq(Requests) /\ \A k \in 1..Len(more) : more[k][2] = i
    BY <2>0, <2>2, <2>3, SeqMonotonic, ElementOfSeq
  <2>5. /\ calls \in Seq(Requests) /\ Len(calls) \in Nat /\ Len(more) \in Nat
        /\ \A k \in 1..Len(calls) : Registered(calls[k][2])
    BY <2>4, LenProperties DEF TrayIInv, RegisteredCalls
  <2>6. /\ calls' \in Seq(Requests) /\ Len(calls') = Len(calls) + Len(more)
        /\ \A k \in 1..(Len(calls) + Len(more)) :
             calls'[k] = IF k <= Len(calls) THEN calls[k] ELSE more[k - Len(calls)]
    BY <2>1, <2>4, <2>5, ConcatProperties
  <2>7. ASSUME NEW k \in 1..Len(calls')
        PROVE  Registered(calls[k][2])'
    <3>1. CASE k <= Len(calls)
      <4>1. k \in 1..Len(calls) /\ calls'[k] = calls[k]
        BY <2>5, <2>6, <3>1
      <4> QED
        BY <1>2, <2>5, <4>1
    <3>2. CASE ~(k <= Len(calls))
      <4>1. k - Len(calls) \in 1..Len(more) /\ calls'[k] = more[k - Len(calls)]
        BY <2>5, <2>6, <3>2
      <4> QED
        BY <1>1, <1>2, <2>4, <4>1
    <3> QED
      BY <3>1, <3>2
  <2>8. RegisteredCalls'
    BY <2>6, <2>7 DEF RegisteredCalls
  <2>9. TrayTyped'
    BY <1>1, <2>1, StripRests
  <2> QED
    BY <1>1, <1>3, <1>4, <2>8, <2>9 DEF TrayIInv
<1>6. CASE v # Failed
  <2>1. data' = [data EXCEPT ![i] = [p \in Props |-> v]] /\ UNCHANGED calls
    BY <1>6 DEF HandleGetAll
  <2>2. v \in 0..MaxVersion
    BY <1>6, TrayAssumption DEF Failed
  <2>3. data' \in [Items -> [Props -> 0..MaxVersion]]
    BY <2>1, <2>2 DEF TrayIInv, TrayTyped
  <2>4. TrayTyped'
    BY <1>1, <2>3 DEF TrayIInv, TrayTyped
  <2>5. RegisteredCalls'
    BY <1>1, <2>1, DaemonRests
  <2> QED
    BY <1>1, <1>3, <1>4, <2>4, <2>5 DEF TrayIInv
<1> QED
  BY <1>5, <1>6

LEMMA GetStep == ASSUME TrayIInv, HandleGet PROVE TrayIInv'
<1>0. /\ inbox # <<>> /\ Head(inbox) \in Mail
      /\ Head(inbox)[2] \in Items /\ Head(inbox)[4] \in 0..Failed
      /\ Head(inbox)[3] \in Props
  BY Taken, MailParts DEF HandleGet
<1> PICK i \in Items, p \in Props, v \in 0..Failed :
      i = Head(inbox)[2] /\ p = Head(inbox)[3] /\ v = Head(inbox)[4]
  BY <1>0
<1>1. /\ inbox # <<>> /\ inbox' = Tail(inbox)
      /\ UNCHANGED <<calls, life, registry, refetch, strip, misdirected>>
      /\ \/ v = Failed /\ UNCHANGED data
         \/ v # Failed /\ data' = [data EXCEPT ![i][p] = v]
  BY <1>0 DEF HandleGet, zone
<1>2. data' \in [Items -> [Props -> 0..MaxVersion]]
  <2>1. v # Failed => v \in 0..MaxVersion
    BY TrayAssumption DEF Failed
  <2>2. data \in [Items -> [Props -> 0..MaxVersion]]
    BY DEF TrayIInv, TrayTyped
  <2>3. CASE v # Failed
    <3> DEFINE old == data[i]
               new == [old EXCEPT ![p] = v]
    <3>1. new \in [Props -> 0..MaxVersion]
      BY <2>1, <2>2, <2>3
    <3>2. data' = [data EXCEPT ![i] = new]
      BY <1>1, <2>3
    <3> HIDE DEF new
    <3> QED
      BY <2>2, <3>1, <3>2
  <2> QED
    BY <1>1, <2>2, <2>3
<1>3. TrayTyped'
  BY <1>1, <1>2 DEF TrayIInv, TrayTyped
<1>4. RegisteredReplies'
  BY <1>1, OthersWait, RegistryRests
<1>5. RegisteredCalls' /\ RegisteredTimers'
  BY <1>1, DaemonRests
<1> QED
  BY <1>1, <1>3, <1>4, <1>5 DEF TrayIInv

LEMMA AskedStep ==
  ASSUME TrayIInv, HandleList \/ HandleActivate
  PROVE  TrayIInv'
<1>1. /\ inbox # <<>> /\ inbox' = Tail(inbox)
      /\ UNCHANGED <<calls, registry, data, refetch, life>>
  BY DEF HandleList, HandleActivate, daemon
<1>2. RegisteredReplies' /\ RegisteredCalls' /\ RegisteredTimers'
  BY <1>1, OthersWait, RegistryRests, DaemonRests
<1>3. strip' \in StripState /\ ~misdirected'
  <2>1. strip \in StripState /\ life \in Nat /\ Listed \in Seq(TrayEntry) /\ ~misdirected
    BY ListedTyped DEF TrayIInv, TrayTyped
  <2>2. CASE HandleList
    BY <2>1, <2>2 DEF HandleList, StripState
  <2>3. CASE HandleActivate
    BY <2>1, <2>3 DEF HandleActivate, FindProxy
  <2> QED
    BY <2>2, <2>3
<1>4. TrayTyped'
  BY <1>1, <1>3 DEF TrayIInv, TrayTyped
<1> QED
  BY <1>2, <1>3, <1>4 DEF TrayIInv

LEMMA DaemonRestartStep == ASSUME TrayIInv, Restart PROVE TrayIInv'
<1>1. /\ <<>> \in Seq(Requests) /\ <<>> \in Seq(Mail) /\ <<>> \in Seq(Items)
      /\ Len(<<>>) = 0
  BY EmptySeq
<1>2. /\ life' = life + 1 /\ registry' = <<>> /\ calls' = <<>> /\ inbox' = <<>>
      /\ data' = [i \in Items |-> Unread] /\ refetch' = [i \in Items |-> FALSE]
      /\ strip' = [strip EXCEPT !.asking = FALSE, !.answered = @ /\ ~strip.asking]
      /\ UNCHANGED misdirected
  BY DEF Restart
<1>3. strip \in StripState /\ life \in Nat /\ ~misdirected
  BY DEF TrayIInv, TrayTyped
<1>4. strip' \in StripState
  <2> DEFINE answered == strip.answered /\ ~strip.asking
  <2>1. answered \in BOOLEAN
    BY Zenon
  <2>2. strip' = [strip EXCEPT !.asking = FALSE, !.answered = answered]
    BY <1>2, Zenon
  <2> HIDE DEF answered
  <2> QED
    BY <1>3, <2>1, <2>2 DEF StripState
<1>5. data' \in [Items -> [Props -> 0..MaxVersion]] /\ refetch' \in [Items -> BOOLEAN]
  BY <1>2, TrayAssumption DEF Unread
<1>6. TrayTyped'
  BY <1>1, <1>2, <1>3, <1>4, <1>5 DEF TrayTyped
<1>7. RegisteredCalls' /\ RegisteredReplies' /\ RegisteredTimers'
  BY <1>1, <1>2 DEF RegisteredCalls, RegisteredReplies, RegisteredTimers
<1> QED
  BY <1>2, <1>3, <1>6, <1>7 DEF TrayIInv

LEMMA ZoneStep ==
  ASSUME TrayIInv, \/ EmitChanged \/ OpenStrip \/ TrayChanged \/ ListTimeout \/ CloseStrip
                   \/ \E k \in DOMAIN strip.entries : ClickIcon(k)
  PROVE  TrayIInv'
<1>1. strip \in StripState /\ <<>> \in Seq(TrayEntry)
  BY EmptySeq DEF TrayIInv, TrayTyped
<1>2. CASE EmitChanged
  BY <1>1, <1>2, NoMail DEF EmitChanged
<1>3. CASE CloseStrip
  <2>1. strip' \in StripState
    BY <1>1, <1>3 DEF CloseStrip, StripState
  <2> QED
    BY <1>3, <2>1, NoMail DEF CloseStrip, daemon
<1>4. CASE OpenStrip \/ TrayChanged
  <2>0. Asking \in StripState
    BY <1>1 DEF Asking, StripState
  <2>1. strip' \in StripState
    <3>1. \/ strip' = Asking
          \/ strip' = [Asking EXCEPT !.open = TRUE, !.opens = @ + 1]
      BY <1>4 DEF OpenStrip, TrayChanged
    <3>2. Asking.opens + 1 \in Nat
      BY <2>0 DEF StripState
    <3>3. [Asking EXCEPT !.open = TRUE, !.opens = @ + 1] \in StripState
      BY <2>0, <3>2 DEF StripState
    <3> QED
      BY <2>0, <3>1, <3>3
  <2>2. <<"list">> \in Mail /\ <<"list">>[1] # "reply"
    BY DEF Mail
  <2>3. inbox' = Append(inbox, <<"list">>) /\ UNCHANGED <<calls, daemon, misdirected>>
    BY <1>4 DEF OpenStrip, TrayChanged, Ask
  <2> QED
    BY <2>1, <2>2, <2>3, OnlyMail
<1>5. CASE ListTimeout
  <2>1. /\ strip' = [strip EXCEPT !.asking = FALSE, !.answered = FALSE]
        /\ inbox' = Without(inbox, {<<"list">>})
        /\ UNCHANGED <<calls, registry, data, refetch, life, misdirected>>
    BY <1>5 DEF ListTimeout, daemon
  <2>2. /\ inbox \in Seq(Mail)
        /\ \A n \in 1..Len(inbox) : inbox[n][1] = "reply" => Registered(inbox[n][2])
    BY DEF TrayIInv, RegisteredReplies
  <2>3. /\ inbox' \in Seq(Mail)
        /\ \A k \in 1..Len(inbox') : \E n \in 1..Len(inbox) : inbox'[k] = inbox[n]
    BY <2>1, <2>2, WithoutFrom
  <2>4. \A j : Registered(j)' <=> Registered(j)
    BY <2>1, RegistryRests
  <2>5. RegisteredReplies'
    BY <2>2, <2>3, <2>4 DEF RegisteredReplies
  <2>6. RegisteredCalls' /\ RegisteredTimers'
    BY <2>1, DaemonRests
  <2>7. strip' \in StripState
    BY <1>1, <2>1 DEF StripState
  <2>8. TrayTyped'
    BY <2>1, <2>7 DEF TrayIInv, TrayTyped
  <2> QED
    BY <2>1, <2>5, <2>6, <2>8 DEF TrayIInv
<1>6. ASSUME NEW k \in DOMAIN strip.entries, ClickIcon(k)
      PROVE  TrayIInv'
  <2> DEFINE m == <<"activate", strip.entries[k].item, k>>
  <2>1. strip.entries \in Seq(TrayEntry)
    BY <1>1 DEF StripState
  <2>2. k \in 1..Len(strip.entries) /\ Len(strip.entries) \in Nat
    BY <2>1, LenProperties
  <2>3. strip.entries[k] \in TrayEntry /\ k \in Nat
    BY <2>1, <2>2, ElementOfSeq
  <2>4. m \in Mail /\ m[1] # "reply"
    BY <2>3 DEF Mail, TrayEntry
  <2>5. inbox' = Append(inbox, m) /\ UNCHANGED <<calls, daemon, misdirected, strip>>
    BY <1>6 DEF ClickIcon, zone
  <2> HIDE DEF m
  <2> QED
    BY <1>1, <2>4, <2>5, OnlyMail
<1> QED
  BY <1>2, <1>3, <1>4, <1>5, <1>6

LEMMA TrayStep == ASSUME TrayIInv, [TrayNext]_trayVars PROVE TrayIInv'
<1>1. CASE UNCHANGED trayVars
  <2>1. UNCHANGED <<inbox, calls, registry, data, refetch, life, misdirected, strip>>
    BY <1>1 DEF trayVars, daemon, zone
  <2> QED
    BY <2>1, NoMail DEF TrayIInv, TrayTyped
<1> QED
  BY <1>1, AppsStep, ItemsStep, AnswerStep, RegisterStep, GoneStep, SignalStep, RefetchStep,
     GetAllStep, GetStep, AskedStep, DaemonRestartStep, ZoneStep DEF TrayNext

(* When an item goes, its proxy's timer, calls and unread answers go with it  *)
(* (sofi_tray_item_free(), tray-item.c:478-488), and a click on an old list   *)
(* meets its own item or nothing (find_proxy(), tray-service.c:133-137): for  *)
(* any applications, items and properties, and however often the daemon dies. *)
THEOREM NothingOutdated == Spec => []NothingStale
<1>1. Init => TrayIInv
  <2>1. \A part : (part = "tray") \in BOOLEAN
    OBVIOUS
  <2> QED
    BY <2>1, TrayInitially DEF Init, InitOf
<1>2. TrayIInv /\ [Next]_vars => TrayIInv'
  BY PartSteps, TrayStep
<1>3. TrayIInv => NothingStale
  BY TrayEnough
<1> QED BY <1>1, <1>2, <1>3, PTL DEF Spec
--------------------------------------------------------------------------------
(* The pairing of a device in files that hold every other's.                   *)

Known == Devices \cup {Default}
Codes == Pins \cup {"nopin"}
Entry == [device : Known, pin : Codes]
Verbs == {"none", "pair", "connect", "setup", "forget"}
OpPlaces == {"off", "rest", "prompt", "stanza", "load", "link", "hid", "unlink",
           "unstanza", "unkey"}
Under == [verb : Verbs, device : Devices, at : OpPlaces, pin : Codes]
Resting == [verb : {"none"}, device : Known, at : {"off", "rest"}]

PairingTyped ==
  hcsecd \in Seq(Entry) /\ bthidd \in Seq(Devices) /\ op \in Under \cup Resting

(* A PIN that is being loaded is the one stanza of the device in the file,     *)
(* and one that is being tried is what hcsecd has read of it.                  *)
OneStanza == \A d \in Devices : Len(Stanzas(hcsecd, d)) <= 1
OnFile ==
  op.at = "load" => Stanzas(hcsecd, op.device) = <<Stanza(op.device, op.pin)>>
OnLink ==
  op.at = "link" /\ op.verb = "pair"
    => Stanzas(loaded, op.device) = <<Stanza(op.device, op.pin)>>

PairingIInv == PairingTyped /\ OneStanza /\ OnFile /\ OnLink

OthersKept ==
  op' # op =>
    /\ \A d \in (Devices \cup {Default}) \ {op.device} :
         Stanzas(hcsecd', d) = Stanzas(hcsecd, d)
    /\ Without(bthidd', {op.device}) = Without(bthidd, {op.device})

(* Which stanzas leave the file depends on their device alone. *)
Of(d) == {s \in Entry : s.device = d}
NotOf(d) == {s \in Entry : s.device # d}

LEMMA StanzasBySet ==
  ASSUME NEW conf \in Seq(Entry), NEW d
  PROVE  /\ Stanzas(conf, d) = Without(conf, NotOf(d))
         /\ WithoutStanza(conf, d) = Without(conf, Of(d))
         /\ Stanzas(conf, d) \in Seq(Entry) /\ WithoutStanza(conf, d) \in Seq(Entry)
<1>1. \A i \in 1..Len(conf) : conf[i] \in Entry /\ conf[i] \in ToSet(conf)
  BY ElementOfSeq, LenProperties DEF ToSet
<1>2. Stanzas(conf, d) = Without(conf, NotOf(d))
  <2> DEFINE S == {s \in ToSet(conf) : s.device # d}
  <2>1. \A i \in 1..Len(conf) : conf[i] \in S <=> conf[i] \in NotOf(d)
    BY <1>1 DEF NotOf
  <2> HIDE DEF S
  <2>2. Without(conf, S) = Without(conf, NotOf(d))
    BY <2>1, WithoutSame
  <2> QED
    BY <2>2 DEF Stanzas, S
<1>3. WithoutStanza(conf, d) = Without(conf, Of(d))
  <2> DEFINE S == {s \in ToSet(conf) : s.device = d}
  <2>1. \A i \in 1..Len(conf) : conf[i] \in S <=> conf[i] \in Of(d)
    BY <1>1 DEF Of
  <2> HIDE DEF S
  <2>2. Without(conf, S) = Without(conf, Of(d))
    BY <2>1, WithoutSame
  <2> QED
    BY <2>2 DEF WithoutStanza, S
<1> QED
  BY <1>2, <1>3, WithoutFrom

LEMMA StanzasAppend ==
  ASSUME NEW conf \in Seq(Entry), NEW x \in Entry, NEW d
  PROVE  Stanzas(Append(conf, x), d) =
           IF x.device = d THEN Append(Stanzas(conf, d), x) ELSE Stanzas(conf, d)
<1> DEFINE longer == Append(conf, x)
<1>1. longer \in Seq(Entry) /\ Without(longer, NotOf(d)) =
         IF x \in NotOf(d) THEN Without(conf, NotOf(d))
         ELSE Append(Without(conf, NotOf(d)), x)
  BY AppendProperties, WithoutAppend
<1> HIDE DEF longer
<1>2. Stanzas(longer, d) = Without(longer, NotOf(d))
      /\ Stanzas(conf, d) = Without(conf, NotOf(d))
  BY <1>1, StanzasBySet
<1>3. x \in NotOf(d) <=> x.device # d
  BY DEF NotOf
<1> QED
  BY <1>1, <1>2, <1>3 DEF longer

LEMMA NothingRemains ==
  ASSUME NEW T, NEW s \in Seq(T), NEW S, \A i \in 1..Len(s) : s[i] \in S
  PROVE  Without(s, S) = <<>>
<1> DEFINE w == Without(s, S)
<1>1. w \in Seq(T) /\ \A k \in 1..Len(w) : w[k] \notin S /\ \E i \in 1..Len(s) : w[k] = s[i]
  BY WithoutFrom
<1> HIDE DEF w
<1>2. ~(1 \in 1..Len(w))
  BY <1>1
<1>3. w # <<>> => Len(w) \in Nat \ {0}
  BY <1>1, EmptySeq
<1> QED
  BY <1>2, <1>3 DEF w

LEMMA StanzasWithout ==
  ASSUME NEW conf \in Seq(Entry), NEW d, NEW e
  PROVE  Stanzas(WithoutStanza(conf, e), d) =
           IF d = e THEN <<>> ELSE Stanzas(conf, d)
<1> DEFINE rest == WithoutStanza(conf, e)
<1>1. rest \in Seq(Entry) /\ rest = Without(conf, Of(e))
      /\ Stanzas(conf, d) = Without(conf, NotOf(d))
  BY StanzasBySet
<1> HIDE DEF rest
<1>2. Stanzas(rest, d) = Without(rest, NotOf(d))
  BY <1>1, StanzasBySet
<1>3. Without(rest, NotOf(d)) = Without(conf, Of(e) \cup NotOf(d))
  BY <1>1, WithoutTwice
<1>4. CASE d = e
  <2>1. \A i \in 1..Len(conf) : conf[i] \in Of(e) \cup NotOf(d)
    BY <1>4, ElementOfSeq DEF Of, NotOf
  <2>2. Without(conf, Of(e) \cup NotOf(d)) = <<>>
    BY <2>1, NothingRemains
  <2> QED
    BY <1>2, <1>3, <1>4, <2>2 DEF rest
<1>5. CASE d # e
  <2>1. Of(e) \cup NotOf(d) = NotOf(d)
    BY <1>5 DEF Of, NotOf
  <2> QED
    BY <1>1, <1>2, <1>3, <1>5, <2>1 DEF rest
<1> QED
  BY <1>4, <1>5

LEMMA PairingInitially ==
  ASSUME NEW on \in BOOLEAN, PairingInit(on) PROVE PairingIInv
<1>1. <<>> \in Seq(Entry) /\ <<>> \in Seq(Devices) /\ Len(<<>>) = 0
  BY EmptySeq
<1>2. op = [verb |-> "none", device |-> Default, at |-> IF on THEN "rest" ELSE "off"]
  BY DEF PairingInit, Rest
<1>3. op \in Resting
  BY <1>2 DEF Resting, Known
<1>4. bthidd \in Seq(Devices)
  <2>1. \A d \in Devices : <<d>> \in Seq(Devices)
    BY <1>1, AppendProperties
  <2>2. bthidd \in {<<>>} \cup {<<d>> : d \in InputDevices}
    BY DEF PairingInit
  <2>3. InputDevices \subseteq Devices
    BY PairingAssumption
  <2> QED
    BY <1>1, <2>1, <2>2, <2>3, Zenon
<1>5. hcsecd \in Seq(Entry) /\ OneStanza
  <2>1. CASE hcsecd = <<>>
    <3>1. \A d : Stanzas(<<>>, d) = <<>>
      BY WithoutEmpty DEF Stanzas
    <3> QED
      BY <1>1, <2>1, <3>1 DEF OneStanza
  <2>2. ASSUME NEW d \in Devices, NEW pin \in Pins,
               hcsecd = <<Stanza(Default, "nopin"), Stanza(d, pin)>>
        PROVE  hcsecd \in Seq(Entry) /\ OneStanza
    <3> DEFINE x == Stanza(Default, "nopin")
               y == Stanza(d, pin)
    <3>1. x \in Entry /\ y \in Entry /\ x.device = Default /\ y.device = d
      BY DEF Stanza, Entry, Known, Codes
    <3>2. hcsecd = Append(Append(<<>>, x), y)
      BY <2>2
    <3> HIDE DEF x, y
    <3>3. Append(<<>>, x) \in Seq(Entry) /\ hcsecd \in Seq(Entry)
      BY <1>1, <3>1, <3>2, AppendProperties
    <3>4. ASSUME NEW e \in Devices
          PROVE  Len(Stanzas(hcsecd, e)) <= 1
      <4>1. Stanzas(<<>>, e) = <<>>
        BY WithoutEmpty DEF Stanzas
      <4>2. Stanzas(Append(<<>>, x), e) = <<>>
        BY <1>1, <3>1, <4>1, StanzasAppend, PairingAssumption
      <4>3. Stanzas(hcsecd, e) \in {<<>>, Append(<<>>, y)}
        BY <3>1, <3>2, <3>3, <4>2, StanzasAppend
      <4>4. Len(Append(<<>>, y)) = 1
        BY <1>1, <3>1, AppendProperties
      <4>5. Len(Stanzas(hcsecd, e)) \in {0, 1}
        BY <1>1, <4>3, <4>4, Zenon
      <4> QED
        BY <4>5
    <3> QED
      BY <3>3, <3>4 DEF OneStanza
  <2> QED
    BY <2>1, <2>2 DEF PairingInit
<1> QED
  BY <1>2, <1>3, <1>4, <1>5 DEF PairingIInv, PairingTyped, OnFile, OnLink

(* No file changes: only where the operation is. *)
LEMMA FilesRest ==
  ASSUME PairingIInv, UNCHANGED <<hcsecd, bthidd>>
  PROVE  OneStanza' /\ OthersKept
BY DEF PairingIInv, OneStanza, OthersKept

(* The operation is over, or goes on elsewhere. *)
LEMMA Elsewhere ==
  ASSUME PairingIInv, NEW place \in OpPlaces, ~PairingAt("off"), ~PairingAt("rest"),
         op' = Rest \/ op' = [op EXCEPT !.at = place]
  PROVE  /\ op' \in Under \cup Resting
         /\ \/ op'.at = "rest"
            \/ /\ op'.at = place /\ op'.device = op.device /\ op'.verb = op.verb
               /\ op'.pin = op.pin
<1>1. op \in Under
  BY DEF PairingIInv, PairingTyped, PairingAt, Resting
<1>2. CASE op' = Rest
  BY <1>2 DEF Rest, Resting, Known
<1>3. CASE op' = [op EXCEPT !.at = place]
  BY <1>1, <1>3 DEF Under
<1> QED
  BY <1>2, <1>3

LEMMA BeginStep ==
  ASSUME PairingIInv, NEW d \in Devices,
         NEW verb \in {"connect", "pair", "setup", "forget"},
         NEW place \in {"link", "prompt", "hid", "unlink"},
         place = "link" => verb = "connect", Begin(verb, d, place)
  PROVE  PairingIInv' /\ OthersKept
<1>1. /\ op' = [verb |-> verb, device |-> d, at |-> place, pin |-> "nopin"]
      /\ UNCHANGED <<hcsecd, bthidd, loaded>>
  BY DEF Begin
<1>2. op' \in Under
  BY <1>1 DEF Under, Verbs, OpPlaces, Known, Codes
<1> QED
  BY <1>1, <1>2, FilesRest DEF PairingIInv, PairingTyped, OnFile, OnLink

LEMMA PromptStep ==
  ASSUME PairingIInv, Prompt PROVE PairingIInv' /\ OthersKept
<1>1. op \in Under /\ UNCHANGED <<hcsecd, bthidd, loaded>>
  BY DEF PairingIInv, PairingTyped, Prompt, PairingAt, Resting
<1>2. op' \in Under \cup Resting /\ op'.at \in {"rest", "stanza"}
  <2>1. CASE op' = Rest
    BY <2>1 DEF Rest, Resting, Known
  <2>2. ASSUME NEW pin \in Pins, op' = [op EXCEPT !.at = "stanza", !.pin = pin]
        PROVE  op' \in Under /\ op'.at = "stanza"
    BY <1>1, <2>2 DEF Under, OpPlaces, Codes
  <2> QED
    BY <2>1, <2>2 DEF Prompt, EndUnchanged
<1> QED
  BY <1>1, <1>2, FilesRest DEF PairingIInv, PairingTyped, OnFile, OnLink

(* bt_hcsecd_upsert(): one stanza of the device, and the others as they were. *)
LEMMA WriteStep ==
  ASSUME PairingIInv, WriteStanza PROVE PairingIInv' /\ OthersKept
<1>1. PairingAt("stanza") /\ op \in Under /\ UNCHANGED <<bthidd, loaded>>
  BY DEF PairingIInv, PairingTyped, WriteStanza, PairingAt, Resting
<1>2. CASE op' = Rest /\ UNCHANGED hcsecd
  <2>1. op' \in Resting
    BY <1>2 DEF Rest, Resting, Known
  <2> QED
    BY <1>1, <1>2, <2>1, FilesRest DEF PairingIInv, PairingTyped, OnFile, OnLink, Rest
<1>3. CASE /\ hcsecd' = Append(WithoutStanza(hcsecd, op.device), Stanza(op.device, op.pin))
           /\ op' = [op EXCEPT !.at = "load"]
  <2> DEFINE rest == WithoutStanza(hcsecd, op.device)
             x == Stanza(op.device, op.pin)
  <2>1. x \in Entry /\ x.device = op.device
    BY <1>1 DEF Stanza, Entry, Under, Known
  <2>2. rest \in Seq(Entry) /\ hcsecd \in Seq(Entry) /\ bthidd \in Seq(Devices)
    BY StanzasBySet DEF PairingIInv, PairingTyped
  <2>3. \A d : Stanzas(rest, d) =
           IF d = op.device THEN <<>> ELSE Stanzas(hcsecd, d)
    BY <2>2, StanzasWithout
  <2>4. hcsecd' = Append(rest, x)
    BY <1>3
  <2>5. /\ op' \in Under /\ op'.at = "load" /\ op'.device = op.device
        /\ op'.verb = op.verb /\ op'.pin = op.pin
    BY <1>1, <1>3 DEF Under, OpPlaces
  <2> HIDE DEF rest, x
  <2>6. hcsecd' \in Seq(Entry)
    BY <2>1, <2>2, <2>4, AppendProperties
  <2>7. \A d : Stanzas(hcsecd', d) =
           IF d = op.device THEN <<x>> ELSE Stanzas(hcsecd, d)
    <3> TAKE d
    <3>1. Stanzas(Append(rest, x), d) =
            IF x.device = d THEN Append(Stanzas(rest, d), x) ELSE Stanzas(rest, d)
      BY <2>1, <2>2, StanzasAppend
    <3>2. Append(<<>>, x) = <<x>>
      OBVIOUS
    <3> QED
      BY <2>1, <2>3, <2>4, <3>1, <3>2
  <2>8. \A d \in Devices : Len(Stanzas(hcsecd', d)) <= 1
    <3> TAKE d \in Devices
    <3>1. Len(<<x>>) = 1 /\ Len(Stanzas(hcsecd, d)) <= 1
      BY DEF PairingIInv, OneStanza
    <3>2. CASE d = op.device
      <4>1. Len(Stanzas(hcsecd', d)) = 1
        BY <2>7, <3>1, <3>2, Zenon
      <4> QED
        BY <4>1
    <3>3. CASE d # op.device
      BY <2>7, <3>1, <3>3, Zenon
    <3> QED
      BY <3>2, <3>3
  <2>9. OthersKept
    BY <1>1, <2>7 DEF OthersKept
  <2>10. OnFile'
    BY <2>5, <2>7 DEF OnFile, x
  <2> QED
    BY <1>1, <2>2, <2>5, <2>6, <2>8, <2>9, <2>10
       DEF PairingIInv, PairingTyped, OneStanza, OnLink
<1> QED
  BY <1>2, <1>3 DEF WriteStanza, EndUnchanged, PairingGoto

LEMMA LoadStep ==
  ASSUME PairingIInv, LoadStanza PROVE PairingIInv' /\ OthersKept
<1>1. /\ ~PairingAt("off") /\ ~PairingAt("rest") /\ UNCHANGED <<hcsecd, bthidd>>
      /\ Stanzas(hcsecd, op.device) = <<Stanza(op.device, op.pin)>>
  BY DEF PairingIInv, OnFile, LoadStanza, PairingAt
<1>2. \/ op' = Rest
      \/ op' = [op EXCEPT !.at = "link"] /\ loaded' = hcsecd
  BY DEF LoadStanza, EndUnchanged, PairingGoto
<1>3. "link" \in OpPlaces
  BY DEF OpPlaces
<1>4. /\ op' \in Under \cup Resting
      /\ \/ op'.at = "rest"
         \/ /\ op'.at = "link" /\ op'.device = op.device /\ op'.pin = op.pin
            /\ loaded' = hcsecd
  BY <1>1, <1>2, <1>3, Elsewhere DEF Rest
<1>5. OnLink' /\ OnFile'
  BY <1>1, <1>4 DEF OnLink, OnFile
<1> QED
  BY <1>1, <1>4, <1>5, FilesRest DEF PairingIInv, PairingTyped

(* Link, SetupHid, Unlink, DeleteKeys: hcsecd.conf rests. *)
LEMMA GoesOn ==
  ASSUME PairingIInv, NEW place \in OpPlaces \ {"load", "link"},
         ~PairingAt("off"), ~PairingAt("rest"),
         op' = Rest \/ op' = [op EXCEPT !.at = place],
         UNCHANGED hcsecd, bthidd' \in Seq(Devices),
         Without(bthidd', {op.device}) = Without(bthidd, {op.device})
  PROVE  PairingIInv' /\ OthersKept
<1>1. op' \in Under \cup Resting /\ op'.at \in {"rest", place}
  BY Elsewhere
<1>2. OneStanza' /\ OthersKept
  BY DEF PairingIInv, OneStanza, OthersKept
<1>3. hcsecd' \in Seq(Entry)
  BY DEF PairingIInv, PairingTyped
<1> QED
  BY <1>1, <1>2, <1>3 DEF PairingIInv, PairingTyped, OnFile, OnLink

LEMMA OthersStep ==
  ASSUME PairingIInv, Link \/ SetupHid \/ Unlink \/ DeleteKeys
  PROVE  PairingIInv' /\ OthersKept
<1>1. /\ ~PairingAt("off") /\ ~PairingAt("rest") /\ UNCHANGED hcsecd
      /\ bthidd \in Seq(Devices)
  BY DEF Link, SetupHid, Unlink, DeleteKeys, PairingAt, PairingIInv, PairingTyped
<1>2. {"hid", "unstanza", "rest"} \subseteq OpPlaces \ {"load", "link"}
  BY DEF OpPlaces
<1>3. CASE Link
  <2>1. \/ op' = Rest
        \/ op' = [op EXCEPT !.at = "hid"]
        \/ op' = [op EXCEPT !.at = "unstanza"]
    BY <1>3 DEF Link, EndChanged, EndUnchanged, PairingGoto
  <2>2. UNCHANGED bthidd
    BY <1>3 DEF Link
  <2> QED
    BY <1>1, <1>2, <2>1, <2>2, GoesOn
<1>4. CASE SetupHid
  <2>1. op' = Rest
    BY <1>4 DEF SetupHid, EndChanged, EndUnchanged
  <2>2. bthidd' = bthidd \/ bthidd' = Append(bthidd, op.device)
    BY <1>4 DEF SetupHid, Extended
  <2>3. op.device \in Devices
    BY <1>1 DEF PairingIInv, PairingTyped, PairingAt, Under, Resting
  <2>4. /\ Append(bthidd, op.device) \in Seq(Devices)
        /\ Without(Append(bthidd, op.device), {op.device}) = Without(bthidd, {op.device})
    BY <1>1, <2>3, AppendProperties, WithoutAppend
  <2> QED
    BY <1>1, <1>2, <2>1, <2>2, <2>4, GoesOn
<1>5. CASE Unlink
  <2>1. op' = [op EXCEPT !.at = "unstanza"] /\ UNCHANGED bthidd
    BY <1>5 DEF Unlink, PairingGoto
  <2> QED
    BY <1>1, <1>2, <2>1, GoesOn
<1>6. CASE DeleteKeys
  <2>1. op' = Rest /\ UNCHANGED bthidd
    BY <1>6 DEF DeleteKeys, EndChanged, EndUnchanged
  <2> QED
    BY <1>1, <1>2, <2>1, GoesOn
<1> QED
  BY <1>3, <1>4, <1>5, <1>6

(* bt_hcsecd_remove() and an edit by hand take the stanza of one device.       *)
LEMMA StanzaGone ==
  ASSUME PairingIInv, NEW d \in Known, hcsecd' = WithoutStanza(hcsecd, d)
  PROVE  /\ hcsecd' \in Seq(Entry) /\ OneStanza'
         /\ \A e : e # d => Stanzas(hcsecd', e) = Stanzas(hcsecd, e)
<1>1. hcsecd \in Seq(Entry)
  BY DEF PairingIInv, PairingTyped
<1>2. hcsecd' \in Seq(Entry)
  BY <1>1, StanzasBySet
<1>3. \A e : Stanzas(hcsecd', e) = IF e = d THEN <<>> ELSE Stanzas(hcsecd, e)
  BY <1>1, StanzasWithout
<1>4. Len(<<>>) = 0
  OBVIOUS
<1> QED
  BY <1>2, <1>3, <1>4 DEF PairingIInv, OneStanza

LEMMA StanzaRemoveStep ==
  ASSUME PairingIInv, RemoveStanza PROVE PairingIInv' /\ OthersKept
<1>1. /\ ~PairingAt("off") /\ ~PairingAt("rest") /\ UNCHANGED bthidd
      /\ bthidd \in Seq(Devices) /\ op.device \in Known
      /\ op' = Rest \/ op' = [op EXCEPT !.at = "unkey"]
  BY DEF RemoveStanza, PairingAt, PairingIInv, PairingTyped, Under, Resting, Known,
         EndUnchanged, PairingGoto
<1>2. "unkey" \in OpPlaces \ {"load", "link"}
  BY DEF OpPlaces
<1>3. CASE UNCHANGED hcsecd
  BY <1>1, <1>2, <1>3, GoesOn
<1>4. CASE hcsecd' = WithoutStanza(hcsecd, op.device)
  <2>1. /\ hcsecd' \in Seq(Entry) /\ OneStanza'
        /\ \A e : e # op.device => Stanzas(hcsecd', e) = Stanzas(hcsecd, e)
    BY <1>1, <1>4, StanzaGone
  <2>2. OthersKept
    BY <1>1, <2>1 DEF OthersKept
  <2>3. op' \in Under \cup Resting /\ op'.at \in {"rest", "unkey"}
    BY <1>1, <1>2, Elsewhere
  <2> QED
    BY <1>1, <2>1, <2>2, <2>3 DEF PairingIInv, PairingTyped, OnFile, OnLink
<1> QED
  BY <1>3, <1>4 DEF RemoveStanza

LEMMA EditStep ==
  ASSUME PairingIInv, NEW d \in Devices, Edit(d)
  PROVE  PairingIInv' /\ OthersKept
<1>1. UNCHANGED <<bthidd, loaded, op>> /\ op.at \in {"rest", "prompt"}
      /\ hcsecd \in Seq(Entry)
  BY DEF Edit, PairingIInv, PairingTyped
<1>2. hcsecd' \in Seq(Entry) /\ OneStanza'
  <2>1. CASE HasStanza(d)
    <3>1. hcsecd' = WithoutStanza(hcsecd, d) /\ d \in Known
      BY <2>1 DEF Edit, Known
    <3> QED
      BY <3>1, StanzaGone
  <2>2. CASE ~HasStanza(d)
    <3> DEFINE x == Stanza(d, CHOOSE p \in Pins : TRUE)
    <3>1. x \in Entry /\ x.device = d
      <4>1. (CHOOSE p \in Pins : TRUE) \in Pins
        BY PairingAssumption
      <4> QED
        BY <4>1 DEF Stanza, Entry, Known, Codes
    <3>2. hcsecd' = Append(hcsecd, x) /\ Stanzas(hcsecd, d) = <<>>
      BY <2>2 DEF Edit, HasStanza
    <3> HIDE DEF x
    <3>3. hcsecd' \in Seq(Entry)
      BY <1>1, <3>1, <3>2, AppendProperties
    <3>4. ASSUME NEW e \in Devices
          PROVE  Len(Stanzas(hcsecd', e)) <= 1
      <4>1. Stanzas(hcsecd', e) =
              IF x.device = e THEN Append(Stanzas(hcsecd, e), x) ELSE Stanzas(hcsecd, e)
        BY <1>1, <3>1, <3>2, StanzasAppend
      <4>2. CASE e = d
        <5>1. Stanzas(hcsecd', e) = Append(<<>>, x)
          BY <3>1, <3>2, <4>1, <4>2
        <5>2. Len(Append(<<>>, x)) = 1
          OBVIOUS
        <5>3. Len(Stanzas(hcsecd', e)) = 1
          BY <5>1, <5>2, Zenon
        <5> QED
          BY <5>3
      <4>3. CASE e # d
        BY <3>1, <4>1, <4>3, Zenon DEF PairingIInv, OneStanza
      <4> QED
        BY <4>2, <4>3
    <3> QED
      BY <3>3, <3>4 DEF OneStanza
  <2> QED
    BY <2>1, <2>2
<1>3. OnFile' /\ OnLink'
  BY <1>1 DEF OnFile, OnLink
<1> QED
  BY <1>1, <1>2, <1>3 DEF PairingIInv, PairingTyped, OthersKept

LEMMA PairingStep ==
  ASSUME PairingIInv, [PairingNext]_pairingVars
  PROVE  PairingIInv' /\ (OthersKept \/ UNCHANGED pairingVars)
<1>1. ASSUME NEW d \in Devices,
             BeginPair(d) \/ BeginConnect(d) \/ BeginSetup(d) \/ BeginForget(d)
      PROVE  PairingIInv' /\ OthersKept
  BY <1>1, BeginStep DEF BeginPair, BeginConnect, BeginSetup, BeginForget
<1>2. ASSUME NEW d \in Devices, Disconnect(d) \/ Peer(d)
      PROVE  PairingIInv' /\ OthersKept
  <2>1. UNCHANGED <<hcsecd, bthidd, loaded, op>>
    BY <1>2 DEF Disconnect, Peer
  <2> QED
    BY <2>1, FilesRest DEF PairingIInv, PairingTyped, OnFile, OnLink
<1>3. CASE UNCHANGED pairingVars
  <2>1. UNCHANGED <<hcsecd, bthidd, loaded, op>>
    BY <1>3 DEF pairingVars
  <2> QED
    BY <1>3, <2>1, FilesRest DEF PairingIInv, PairingTyped, OnFile, OnLink
<1> QED
  BY <1>1, <1>2, <1>3, PromptStep, WriteStep, LoadStep, OthersStep, StanzaRemoveStep, EditStep
     DEF PairingNext

(* Whatever fails while a device is paired, connected, set up or forgotten    *)
(* (modes/bluetooth.c), the entries of every other device stay as they are in *)
(* both files, no device has two stanzas, and a link for pairing is made with *)
(* the PIN just typed: for any devices, PINs and edits by hand between the    *)
(* commands.                                                                  *)
THEOREM PairingsAreKept == Spec => PairingsKept
<1>1. Init => PairingIInv
  <2>1. \A part : (part = "pairing") \in BOOLEAN
    OBVIOUS
  <2> QED
    BY <2>1, PairingInitially DEF Init, InitOf
<1>2. PairingIInv /\ [Next]_vars => PairingIInv'
  BY PartSteps, PairingStep
<1>3. PairingIInv /\ [Next]_vars =>
        [op' # op =>
          /\ \A d \in (Devices \cup {Default}) \ {op.device} :
               Stanzas(hcsecd', d) = Stanzas(hcsecd, d)
          /\ Without(bthidd', {op.device}) = Without(bthidd, {op.device})]_pairingVars
  BY PartSteps, PairingStep DEF OthersKept
<1>4. PairingIInv => /\ \A d \in Devices : Len(Stanzas(hcsecd, d)) <= 1
                     /\ op.at = "link" /\ op.verb = "pair"
                          => Stanzas(loaded, op.device) = <<Stanza(op.device, op.pin)>>
  BY DEF PairingIInv, OneStanza, OnLink
<1> QED BY <1>1, <1>2, <1>3, <1>4, PTL DEF Spec, PairingsKept
================================================================================
