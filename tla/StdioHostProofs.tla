-------------------------- MODULE StdioHostProofs --------------------------
(***************************************************************************)
(* The stdio host, for any number of clients, any cap and any behaviour of *)
(* the child.                                                              *)
(*                                                                         *)
(* First its tables at their caps: the pending map holds exactly the       *)
(* requests in flight, the event streams are counted, and a session is     *)
(* lost only to a delete, to a newer session at the cap or to Stop.        *)
(*                                                                         *)
(* Then its answers: every one goes to the request it belongs to, and one  *)
(* the child gives before it exits reaches its client: the watch of the    *)
(* child's exit waits for the reader, and every handler looks into its     *)
(* channel before it answers 502.                                          *)
(***************************************************************************)
EXTENDS StdioHost, FiniteSetTheorems, WellFoundedInduction, TLAPS

-----------------------------------------------------------------------------
(* The tables. *)

PcSet == {"idle", "register", "write", "peek", "select", "reply",
          "subscribe", "undo", "stream", "done"}

StatusSet == {"none", "refused", "200", "accepted", "deleted", "408",
              "500", "502", "503", "504", "closed"}

\* The lines the child sends on its own account are lines.
LEMMA UnsolicitedType == \A line \in Unsolicited : line \in Line
<1> SUFFICES ASSUME NEW line \in Unsolicited PROVE line \in Line
  OBVIOUS
<1>1. CASE line \in [id : ServerIds, kind : {"request"}, to : {None}]
  BY <1>1, StdioAssumption, ZenonT(20) DEF Line
<1>2. CASE line \in [id : {0}, kind : {"notification"}, to : {None}]
  BY <1>2 DEF Line
<1> QED
  BY <1>1, <1>2 DEF Unsolicited

\* The initial states are typed.
LEMMA TypeInit == Init => TypeOK
<1> SUFFICES ASSUME Init PROVE TypeOK
  OBVIOUS
<1>1. kind \in [Reqs -> AllKinds]
  BY StdioAssumption DEF Init
<1>2. stdin \in Seq(Message) /\ stdout \in Seq(Line)
  BY DEF Init
<1>3. /\ DOMAIN pending \subseteq 1..nextInternalID
      /\ \A i \in DOMAIN pending : pending[i] \in Reqs
  BY DEF Init
<1>4. /\ reader \in [pc : {"scan", "send", "done"}, line : Line \cup {None},
                     to : Reqs \cup {None}]
      /\ reader.pc # "send"
  BY DEF Init
<1>5. /\ pc \in [Reqs -> PcSet] /\ status \in [Reqs -> StatusSet]
      /\ id \in [Reqs -> Nat] /\ session \in [Reqs -> Nat]
      /\ body \in [Reqs -> Line \cup {None}] /\ chan \in [Reqs -> Line \cup {None}]
  BY DEF Init, PcSet, StatusSet
<1>6. /\ nextInternalID \in Nat /\ initCached \in Line \cup {None}
      /\ nextSessionSeq \in Nat /\ sessions \subseteq 1..nextSessionSeq
      /\ sseActive \in Int /\ work \subseteq Message
      /\ replied \subseteq Nat /\ unsolicited \in Nat
  BY DEF Init
<1>7. /\ stopped \in BOOLEAN /\ alive \in BOOLEAN
      /\ stopper \in {"idle", "kill", "wait", "returned", "leaked"}
      /\ watcher \in {"wait", "drain", "drained", "aborted", "timedOut"}
  BY ZenonT(20) DEF Init
<1>8. holder \in BOOLEAN
  BY ZenonT(20) DEF Init
<1> QED
  BY <1>1, <1>2, <1>3, <1>4, <1>5, <1>6, <1>7, <1>8 DEF TypeOK, PcSet, StatusSet

\* A handler that returns leaves typed state behind and only removes entries.
LEMMA ReturnType ==
  ASSUME TypeOK, NEW c \in Reqs, NEW s \in StatusSet, Return(c, s)
  PROVE  /\ pc' \in [Reqs -> PcSet] /\ status' \in [Reqs -> StatusSet]
         /\ chan' \in [Reqs -> Line \cup {None}]
         /\ DOMAIN pending' \subseteq DOMAIN pending
         /\ \A i \in DOMAIN pending' : pending'[i] \in Reqs
BY DEF TypeOK, Return, Restrict, PcSet, StatusSet

\* Moving a handler on keeps the types and the pending map.
LEMMA GotoType ==
  ASSUME TypeOK, NEW c \in Reqs, NEW l \in PcSet, Goto(c, l)
  PROVE  /\ pc' \in [Reqs -> PcSet] /\ status' \in [Reqs -> StatusSet]
         /\ pending' = pending
BY DEF TypeOK, Goto, PcSet, StatusSet

\* Taking a line out of respCh keeps the types and the pending map.
LEMMA TakeType ==
  ASSUME TypeOK, NEW c \in Reqs, Take(c)
  PROVE  /\ pc' \in [Reqs -> PcSet] /\ status' \in [Reqs -> StatusSet]
         /\ pending' = pending
         /\ body' \in [Reqs -> Line \cup {None}]
         /\ chan' \in [Reqs -> Line \cup {None}]
         /\ chan[c] \in Line
BY DEF TypeOK, Take, Goto, PcSet, StatusSet

\* Every step keeps the types.
LEMMA TypeStep == TypeOK /\ [Next]_vars => TypeOK'
<1> SUFFICES ASSUME TypeOK, [Next]_vars PROVE TypeOK'
  OBVIOUS
<1> USE DEF handlerVars, muxVars, sessionVars, lifeVars, childVars
<1>a. /\ nextSessionSeq \in Nat /\ sessions \subseteq 1..nextSessionSeq
      /\ session \in [Reqs -> Nat]
  BY DEF TypeOK
<1>b. /\ nextInternalID \in Nat /\ id \in [Reqs -> Nat]
      /\ DOMAIN pending \subseteq 1..nextInternalID
      /\ \A i \in DOMAIN pending : pending[i] \in Reqs
  BY DEF TypeOK
<1>c. /\ pc \in [Reqs -> PcSet] /\ status \in [Reqs -> StatusSet]
      /\ body \in [Reqs -> Line \cup {None}] /\ chan \in [Reqs -> Line \cup {None}]
      /\ initCached \in Line \cup {None}
  BY DEF TypeOK, PcSet, StatusSet
<1>d. /\ stdin \in Seq(Message) /\ stdout \in Seq(Line)
      /\ work \subseteq Message /\ replied \subseteq Nat
  BY DEF TypeOK
<1>e. /\ reader \in [pc : {"scan", "send", "done"}, line : Line \cup {None},
                     to : Reqs \cup {None}]
      /\ reader.pc = "send" => reader.line \in Line /\ reader.to \in Reqs
  BY DEF TypeOK
<1>1. ASSUME NEW c \in Reqs, NEW s \in 0..nextSessionSeq, Receive(c, s) PROVE TypeOK'
  <2>1. ASSUME NEW x \in StatusSet, Return(c, x)
        PROVE  /\ pc' \in [Reqs -> PcSet] /\ status' \in [Reqs -> StatusSet]
               /\ chan' \in [Reqs -> Line \cup {None}]
               /\ DOMAIN pending' \subseteq 1..nextInternalID
               /\ \A i \in DOMAIN pending' : pending'[i] \in Reqs
    BY Zenon, <2>1, ReturnType DEF TypeOK
  <2>2. ASSUME NEW l \in PcSet, Goto(c, l), UNCHANGED chan
        PROVE  /\ pc' \in [Reqs -> PcSet] /\ status' \in [Reqs -> StatusSet]
               /\ chan' \in [Reqs -> Line \cup {None}]
               /\ DOMAIN pending' \subseteq 1..nextInternalID
               /\ \A i \in DOMAIN pending' : pending'[i] \in Reqs
    BY Zenon, <2>2, GotoType DEF TypeOK
  <2>3. /\ pc' \in [Reqs -> PcSet] /\ status' \in [Reqs -> StatusSet]
        /\ chan' \in [Reqs -> Line \cup {None}]
        /\ DOMAIN pending' \subseteq 1..nextInternalID
        /\ \A i \in DOMAIN pending' : pending'[i] \in Reqs
    BY <1>1, <2>1, <2>2 DEF Receive, StatusSet, PcSet
  <2>4. /\ sessions' \subseteq 1..nextSessionSeq
        /\ session' \in [Reqs -> Nat]
    <3>1. s \in Nat
      BY <1>a
    <3>2. \/ UNCHANGED <<sessions, session>>
          \/ sessions' = sessions \ {s} /\ session' = [session EXCEPT ![c] = s]
      BY <1>1 DEF Receive
    <3> QED
      BY <3>1, <3>2, <1>a, ZenonT(20)
  <2>5. body' \in [Reqs -> Line \cup {None}]
    <3>1. body' = body \/ body' = [body EXCEPT ![c] = initCached]
      BY <1>1 DEF Receive
    <3> QED
      BY <3>1, <1>c
  <2> QED
    BY <1>1, <2>3, <2>4, <2>5 DEF Receive, TypeOK, PcSet, StatusSet
<1>2. ASSUME NEW c \in Reqs, Register(c) PROVE TypeOK'
  <2>1. /\ nextInternalID' \in Nat /\ id' \in [Reqs -> Nat]
        /\ pc' \in [Reqs -> PcSet] /\ status' \in [Reqs -> StatusSet]
    <3>1. nextInternalID' = nextInternalID + 1 /\ id' = [id EXCEPT ![c] = nextInternalID']
      BY <1>2 DEF Register
    <3>2. /\ \E l \in {"done", "write"} : pc' = [pc EXCEPT ![c] = l]
          /\ status' = status \/ status' = [status EXCEPT ![c] = "refused"]
      BY <1>2 DEF Register
    <3> QED
      BY <3>1, <3>2, <1>b, <1>c DEF PcSet, StatusSet
  <2>2. /\ DOMAIN pending' \subseteq 1..nextInternalID'
        /\ \A i \in DOMAIN pending' : pending'[i] \in Reqs
    <3>1. \/ pending' = pending
          \/ pending' = [i \in DOMAIN pending \cup {nextInternalID'} |->
                            IF i = nextInternalID' THEN c ELSE pending[i]]
      BY <1>2 DEF Register
    <3>2. nextInternalID' = nextInternalID + 1
      BY <1>2 DEF Register
    <3>3. 1..nextInternalID \subseteq 1..nextInternalID' /\ nextInternalID' \in 1..nextInternalID'
      BY <3>2, <1>b
    <3> QED
      BY <3>1, <3>3, <1>b
  <2> QED
    BY SMTT(40), <1>2, <2>1, <2>2 DEF Register, TypeOK, PcSet, StatusSet
<1>3. ASSUME NEW c \in Reqs, Write(c) PROVE TypeOK'
  <2>1. stdin' \in Seq(Message)
    <3>1. [id |-> id[c], from |-> c] \in Message
      BY DEF TypeOK, Message
    <3> QED
      BY <1>3, <3>1, <1>d DEF Write
  <2>2. \/ Return(c, "500") \/ Return(c, "accepted")
        \/ Goto(c, "peek") /\ UNCHANGED chan
    BY <1>3 DEF Write
  <2>3. /\ pc' \in [Reqs -> PcSet] /\ status' \in [Reqs -> StatusSet]
        /\ chan' \in [Reqs -> Line \cup {None}]
        /\ DOMAIN pending' \subseteq 1..nextInternalID
        /\ \A i \in DOMAIN pending' : pending'[i] \in Reqs
    BY <2>2, ReturnType, GotoType, ZenonT(20) DEF TypeOK, PcSet, StatusSet
  <2> QED
    BY <1>3, <2>1, <2>3 DEF Write, TypeOK, PcSet, StatusSet
<1>4. ASSUME NEW c \in Reqs, Peek(c) \/ SelectReply(c) PROVE TypeOK'
  <2>1. /\ pc' \in [Reqs -> PcSet] /\ status' \in [Reqs -> StatusSet]
        /\ body' \in [Reqs -> Line \cup {None}]
        /\ chan' \in [Reqs -> Line \cup {None}]
        /\ pending' = pending
    BY Zenon, <1>4, TakeType, GotoType DEF Peek, SelectReply, TypeOK, PcSet
  <2>2. initCached' \in Line \cup {None}
    BY Zenon, <1>4, TakeType DEF Peek, SelectReply, CacheInitialize, TypeOK
  <2>3. Waiting
    BY <1>4 DEF Peek, SelectReply
  <2> QED
    BY <2>1, <2>2, <2>3 DEF Waiting, TypeOK, PcSet, StatusSet
<1>5. ASSUME NEW c \in Reqs,
             SelectDone(c) \/ SelectExited(c) \/ SelectCancel(c) \/ SelectTimeout(c)
      PROVE  TypeOK'
  <2>1. \/ Take(c)
        \/ \E x \in StatusSet : Return(c, x) /\ UNCHANGED body
    BY <1>5 DEF SelectDone, SelectExited, SelectCancel, SelectTimeout, StatusSet
  <2>2. /\ pc' \in [Reqs -> PcSet] /\ status' \in [Reqs -> StatusSet]
        /\ body' \in [Reqs -> Line \cup {None}]
        /\ chan' \in [Reqs -> Line \cup {None}]
        /\ DOMAIN pending' \subseteq 1..nextInternalID
        /\ \A i \in DOMAIN pending' : pending'[i] \in Reqs
    BY Zenon, <2>1, TakeType, ReturnType DEF TypeOK
  <2>3. Waiting /\ UNCHANGED initCached
    BY <1>5 DEF SelectDone, SelectExited, SelectCancel, SelectTimeout
  <2> QED
    BY <2>2, <2>3 DEF Waiting, TypeOK, PcSet, StatusSet
<1>6. ASSUME NEW c \in Reqs, Reply(c) PROVE TypeOK'
  <2>1. \E x \in StatusSet : Return(c, x)
    BY Zenon, <1>6 DEF Reply, StatusSet
  <2>2. /\ pc' \in [Reqs -> PcSet] /\ status' \in [Reqs -> StatusSet]
        /\ chan' \in [Reqs -> Line \cup {None}]
        /\ DOMAIN pending' \subseteq 1..nextInternalID
        /\ \A i \in DOMAIN pending' : pending'[i] \in Reqs
    BY Zenon, <2>1, ReturnType DEF TypeOK
  <2>3. /\ nextSessionSeq' \in Nat /\ sessions' \subseteq 1..nextSessionSeq'
        /\ session' \in [Reqs -> Nat]
    <3>1. CASE CreateSession(c)
      <4>1. nextSessionSeq' = nextSessionSeq + 1
            /\ sessions' \subseteq sessions \cup {nextSessionSeq'}
        BY <3>1 DEF CreateSession
      <4>2. 1..nextSessionSeq \subseteq 1..nextSessionSeq' /\ nextSessionSeq' \in 1..nextSessionSeq'
        BY <4>1, <1>a
      <4>3. session' \in [Reqs -> Nat]
        BY <3>1, <4>1, <1>a DEF CreateSession
      <4> QED
        BY <4>1, <4>2, <4>3, <1>a
    <3>2. CASE UNCHANGED <<session, sessions, nextSessionSeq>>
      BY Zenon, <3>2 DEF TypeOK
    <3> QED
      BY <1>6, <3>1, <3>2 DEF Reply
  <2> QED
    BY <1>6, <2>2, <2>3 DEF Reply, TypeOK, PcSet, StatusSet
<1>7. ASSUME NEW c \in Reqs, Subscribe(c) \/ UndoSubscribe(c) \/ Unsubscribe(c)
      PROVE  TypeOK'
  <2>1. sseActive' \in Int
    BY <1>7 DEF Subscribe, UndoSubscribe, Unsubscribe, TypeOK
  <2>2. \/ \E x \in StatusSet : Return(c, x)
        \/ \E l \in PcSet : Goto(c, l) /\ UNCHANGED chan
    BY <1>7 DEF Subscribe, UndoSubscribe, Unsubscribe, StatusSet, PcSet
  <2>3. /\ pc' \in [Reqs -> PcSet] /\ status' \in [Reqs -> StatusSet]
        /\ chan' \in [Reqs -> Line \cup {None}]
        /\ DOMAIN pending' \subseteq 1..nextInternalID
        /\ \A i \in DOMAIN pending' : pending'[i] \in Reqs
    BY ZenonT(40), <2>2, ReturnType, GotoType DEF TypeOK
  <2>4. SseSame
    BY <1>7 DEF Subscribe, UndoSubscribe, Unsubscribe
  <2> QED
    BY <2>1, <2>3, <2>4 DEF SseSame, TypeOK, PcSet, StatusSet
<1>8. CASE Scan \/ Send \/ ReadEnd
  <2>1. stdout' \in Seq(Line)
    <3>1. stdout' = stdout \/ (stdout # <<>> /\ stdout' = Tail(stdout))
      BY <1>8 DEF Scan, Send, ReadEnd
    <3> QED
      BY <3>1, <1>d
  <2>2. /\ reader' \in [pc : {"scan", "send", "done"}, line : Line \cup {None},
                        to : Reqs \cup {None}]
        /\ reader'.pc = "send" => reader'.line \in Line /\ reader'.to \in Reqs
    <3>1. CASE Scan
      <4>1. Head(stdout) \in Line
        BY <3>1 DEF Scan, TypeOK
      <4> QED
        BY <3>1, <4>1, <1>b, <1>e, ZenonT(20) DEF Scan
    <3>2. CASE Send
      BY <3>2 DEF Send
    <3>3. CASE ReadEnd
      BY <3>3, <1>e DEF ReadEnd
    <3> QED
      BY <1>8, <3>1, <3>2, <3>3
  <2>3. chan' \in [Reqs -> Line \cup {None}]
    BY <1>8, <1>c, <1>e, ZenonT(20) DEF Scan, Send, ReadEnd
  <2> QED
    BY <1>8, <2>1, <2>2, <2>3 DEF Scan, Send, ReadEnd, ReaderSame, TypeOK
<1>9. CASE Reap \/ Drain \/ DrainTimeout \/ Stop \/ Kill \/ StopReturn
  <2>1. /\ sessions' \subseteq 1..nextSessionSeq
        /\ stopped' \in BOOLEAN /\ alive' \in BOOLEAN /\ holder' \in BOOLEAN
        /\ stopper' \in {"idle", "kill", "wait", "returned", "leaked"}
        /\ watcher' \in {"wait", "drain", "drained", "aborted", "timedOut"}
    BY <1>9, ZenonT(30) DEF Reap, Drain, DrainTimeout, Stop, Kill, StopReturn, JobClose, TypeOK
  <2>2. LifeSame
    BY Zenon, <1>9 DEF Reap, Drain, DrainTimeout, Stop, Kill, StopReturn, JobClose
  <2> QED
    BY <2>1, <2>2 DEF LifeSame, TypeOK
<1>10. CASE ChildReads
  <2>1. stdin' \in Seq(Message) /\ work' \subseteq Message
    BY <1>10 DEF ChildReads, TypeOK
  <2> QED
    BY <1>10, <2>1 DEF ChildReads, ChildSame, TypeOK
<1>11. ASSUME NEW m \in work, NEW a \in Answers, ChildAnswers(m, a) PROVE TypeOK'
  <2>1. [id |-> m.id, kind |-> a, to |-> m.from] \in Line /\ m.id \in Nat
    BY StdioAssumption DEF TypeOK, Message, Line
  <2>2. stdout' \in Seq(Line) /\ replied' \subseteq Nat /\ work' \subseteq Message
    <3>1. stdout' = Append(stdout, [id |-> m.id, kind |-> a, to |-> m.from])
      BY <1>11 DEF ChildAnswers
    <3>2. replied' \subseteq replied \cup {m.id} /\ work' \subseteq work
      BY <1>11 DEF ChildAnswers
    <3>3. stdout' \in Seq(Line)
      BY <2>1, <3>1, <1>d
    <3> QED
      BY <2>1, <3>2, <3>3, <1>d, ZenonT(20)
  <2> QED
    BY <1>11, <2>2 DEF ChildAnswers, ChildSame, TypeOK
<1>12. ASSUME NEW line \in Unsolicited, ChildSpeaks(line) PROVE TypeOK'
  <2>1. stdout' \in Seq(Line) /\ unsolicited' \in Nat
    BY <1>12, UnsolicitedType DEF ChildSpeaks, TypeOK
  <2> QED
    BY <1>12, <2>1 DEF ChildSpeaks, ChildSame, TypeOK
<1>13. CASE ChildExits \/ DescendantExits
  <2>1. alive' \in BOOLEAN /\ holder' \in BOOLEAN
    BY <1>13, ZenonT(20) DEF ChildExits, DescendantExits, TypeOK
  <2>2. ChildSame /\ UNCHANGED <<work, stdout, replied, unsolicited, stdin>>
    BY Zenon, <1>13 DEF ChildExits, DescendantExits
  <2> QED
    BY <2>1, <2>2 DEF ChildSame, TypeOK
<1>14. CASE UNCHANGED vars
  BY <1>14 DEF vars, TypeOK
<1> QED
  BY Zenon, <1>1, <1>2, <1>3, <1>4, <1>5, <1>6, <1>7, <1>8, <1>9, <1>10, <1>11, <1>12,
     <1>13, <1>14 DEF Next

\* Every variable of the stdio host keeps its type.
THEOREM StdioTypeCorrect == Spec => []TypeOK
BY TypeInit, TypeStep, PTL DEF Spec

-----------------------------------------------------------------------------
(* The pending map. *)

\* Internal ids are given out once, by Register, and never change.
IdInv ==
    /\ \A c \in Reqs : id[c] <= nextInternalID
    /\ \A c \in Reqs : pc[c] \in {"idle", "register"} => id[c] = 0
    /\ \A c, d \in Reqs : id[c] # 0 /\ id[c] = id[d] => c = d

FlightPcs == {"write", "peek", "select", "reply"}

PendingInv == IdInv /\ PendingIsInFlight

\* The pending map is finite: its keys lie below the id counter.
LEMMA PendingFinite ==
  ASSUME TypeOK
  PROVE  IsFiniteSet(DOMAIN pending)
<1>1. IsFiniteSet(1..nextInternalID)
  BY FS_Interval DEF TypeOK
<1> QED
  BY <1>1, FS_Subset DEF TypeOK

\* The deferred delete removes exactly the entry of the handler that returns.
LEMMA PendingReturn ==
  ASSUME TypeOK, PendingInv, NEW c \in Reqs, NEW s, Return(c, s),
         UNCHANGED <<id, nextInternalID>>
  PROVE  PendingInv'
<1>1. /\ pc' = [pc EXCEPT ![c] = "done"]
      /\ DOMAIN pending' = DOMAIN pending \ {id[c]}
      /\ \A i \in DOMAIN pending' : pending'[i] = pending[i]
  BY Zenon DEF Return, Restrict
<1>2. IdInv'
  BY Zenon, <1>1 DEF PendingInv, IdInv, TypeOK
<1>3. Cardinality(DOMAIN pending') <= MaxPending
  <2>1. IsFiniteSet(DOMAIN pending) /\ Cardinality(DOMAIN pending) <= MaxPending
    BY PendingFinite DEF PendingInv, PendingIsInFlight
  <2>2. Cardinality(DOMAIN pending') <= Cardinality(DOMAIN pending)
        /\ Cardinality(DOMAIN pending') \in Nat /\ Cardinality(DOMAIN pending) \in Nat
    BY Zenon, <1>1, <2>1, FS_Subset, FS_CardinalityType
  <2> QED
    BY <2>1, <2>2, StdioAssumption
<1>4. ASSUME NEW i \in DOMAIN pending'
      PROVE  InFlight(pending[i])' /\ id'[pending'[i]] = i
  <2>1. i \in DOMAIN pending /\ i # id[c] /\ pending[i] \in Reqs
    BY Zenon, <1>1 DEF TypeOK
  <2>2. InFlight(pending[i]) /\ id[pending[i]] = i
    BY <2>1 DEF PendingInv, PendingIsInFlight
  <2>3. pending[i] # c
    BY <2>1, <2>2
  <2> QED
    BY Zenon, <1>1, <2>1, <2>2, <2>3 DEF InFlight, TypeOK
<1>5. ASSUME NEW d \in Reqs, InFlight(d)'
      PROVE  id'[d] \in DOMAIN pending' /\ pending'[id'[d]] = d
  <2>1. d # c /\ InFlight(d)
    BY Zenon, <1>1, <1>5 DEF InFlight, TypeOK
  <2>2. id[d] \in DOMAIN pending /\ pending[id[d]] = d /\ id[d] # 0
    BY <2>1 DEF PendingInv, PendingIsInFlight, InFlight
  <2>3. id[d] # id[c]
    BY <2>1, <2>2 DEF PendingInv, IdInv
  <2> QED
    BY Zenon, <1>1, <2>2, <2>3
<1> QED
  BY <1>1, <1>2, <1>3, <1>4, <1>5 DEF PendingInv, PendingIsInFlight

\* A handler that moves on without entering or leaving its flight.
LEMMA PendingGoto ==
  ASSUME TypeOK, PendingInv, NEW c \in Reqs, NEW l, Goto(c, l),
         UNCHANGED <<id, nextInternalID>>,
         id[c] # 0 => (pc[c] \in FlightPcs <=> l \in FlightPcs),
         l \in {"idle", "register"} => id[c] = 0
  PROVE  PendingInv'
<1>1. pc' = [pc EXCEPT ![c] = l] /\ pending' = pending
  BY DEF Goto
<1>2. IdInv'
  BY <1>1 DEF PendingInv, IdInv, TypeOK
<1>3. ASSUME NEW d \in Reqs PROVE InFlight(d)' <=> InFlight(d)
  BY <1>1 DEF InFlight, FlightPcs, TypeOK
<1> QED
  BY Zenon, <1>1, <1>2, <1>3 DEF PendingInv, PendingIsInFlight, TypeOK

\* Registration takes a fresh id and respects the cap.
LEMMA PendingRegister ==
  ASSUME TypeOK, PendingInv, NEW c \in Reqs, Register(c)
  PROVE  PendingInv'
<1> DEFINE n == nextInternalID + 1
<1>1. /\ nextInternalID' = n /\ n \in Nat /\ n > nextInternalID /\ n # 0
      /\ id' = [id EXCEPT ![c] = n] /\ id \in [Reqs -> Nat] /\ id[c] = 0
  BY DEF Register, TypeOK, PendingInv, IdInv
<1>2. /\ pc \in [Reqs -> PcSet]
      /\ \E l \in {"done", "write"} : pc' = [pc EXCEPT ![c] = l]
  BY DEF Register, TypeOK, PcSet
<1> HIDE DEF n
<1>3. IdInv'
  BY <1>1, <1>2 DEF PendingInv, IdInv, TypeOK
<1>4. ASSUME NEW d \in Reqs, d # c PROVE (InFlight(d)' <=> InFlight(d)) /\ id'[d] = id[d]
  BY <1>1, <1>2, <1>4 DEF InFlight
<1>5. \A i \in DOMAIN pending : pending[i] \in Reqs /\ pending[i] # c /\ i # n
  <2>1. \A i \in DOMAIN pending : id[pending[i]] = i /\ i \in 1..nextInternalID
    BY Zenon DEF PendingInv, PendingIsInFlight, TypeOK
  <2> QED
    BY <1>1, <2>1 DEF TypeOK
<1>6. CASE pending' = pending /\ pc' = [pc EXCEPT ![c] = "done"]
  <2>1. ~InFlight(c)'
    BY Zenon, <1>2, <1>6 DEF InFlight
  <2> QED
    BY <1>3, <1>4, <1>5, <1>6, <2>1 DEF PendingInv, PendingIsInFlight
<1>7. CASE /\ Cardinality(DOMAIN pending) < MaxPending
           /\ pc' = [pc EXCEPT ![c] = "write"]
           /\ pending' = [i \in DOMAIN pending \cup {n} |->
                             IF i = n THEN c ELSE pending[i]]
  <2>1. DOMAIN pending' = DOMAIN pending \cup {n} /\ pending'[n] = c
        /\ \A i \in DOMAIN pending : pending'[i] = pending[i]
    BY <1>5, <1>7
  <2>2. Cardinality(DOMAIN pending') <= MaxPending
    <3>1. IsFiniteSet(DOMAIN pending) /\ Cardinality(DOMAIN pending) \in Nat
      BY PendingFinite, FS_CardinalityType
    <3>2. Cardinality(DOMAIN pending \cup {n}) = Cardinality(DOMAIN pending) + 1
      BY <1>5, <3>1, FS_AddElement
    <3> QED
      BY <1>7, <2>1, <3>1, <3>2, StdioAssumption
  <2>3. InFlight(c)' /\ id'[c] = n
    BY Zenon, <1>1, <1>2, <1>7 DEF InFlight
  <2>4. \A i \in DOMAIN pending' : InFlight(pending[i])' /\ id'[pending'[i]] = i
    BY <1>4, <1>5, <2>1, <2>3 DEF PendingInv, PendingIsInFlight
  <2>5. \A d \in Reqs : InFlight(d)' => id'[d] \in DOMAIN pending' /\ pending'[id'[d]] = d
    BY <1>4, <2>1, <2>3 DEF PendingInv, PendingIsInFlight
  <2> QED
    BY <1>3, <2>2, <2>4, <2>5 DEF PendingInv, PendingIsInFlight
<1> QED
  BY Zenon, <1>6, <1>7 DEF Register, n

\* Steps that leave handlers and map alone keep the invariant.
LEMMA PendingSame ==
  ASSUME PendingInv, UNCHANGED <<pc, id, pending, nextInternalID>>
  PROVE  PendingInv'
BY DEF PendingInv, IdInv, PendingIsInFlight, InFlight

\* Every step keeps the pending map and the requests in flight in agreement.
LEMMA PendingStep == TypeOK /\ PendingInv /\ [Next]_vars => PendingInv'
<1> SUFFICES ASSUME TypeOK, PendingInv, [Next]_vars PROVE PendingInv'
  BY Zenon
<1> USE DEF handlerVars, muxVars, sessionVars, lifeVars, childVars
<1>1. ASSUME NEW c \in Reqs, NEW s \in 0..nextSessionSeq, Receive(c, s) PROVE PendingInv'
  <2>1. id[c] = 0 /\ UNCHANGED <<id, nextInternalID>>
    BY Zenon, <1>1 DEF Receive, PendingInv, IdInv
  <2>2. (\E x : Return(c, x)) \/ (\E l : Goto(c, l))
    BY <1>1 DEF Receive
  <2> QED
    BY Zenon, <2>1, <2>2, PendingReturn, PendingGoto
<1>2. ASSUME NEW c \in Reqs, Register(c) PROVE PendingInv'
  BY Zenon, <1>2, PendingRegister
<1>3. ASSUME NEW c \in Reqs, Write(c) PROVE PendingInv'
  <2>1. pc[c] = "write" /\ UNCHANGED <<id, nextInternalID>>
    BY Zenon, <1>3 DEF Write
  <2>2. (\E x : Return(c, x)) \/ Goto(c, "peek")
    BY Zenon, <1>3 DEF Write
  <2> QED
    BY Zenon, <2>1, <2>2, PendingReturn, PendingGoto DEF FlightPcs
<1>4. ASSUME NEW c \in Reqs,
             \/ Peek(c) \/ SelectReply(c) \/ SelectDone(c) \/ SelectExited(c)
             \/ SelectCancel(c) \/ SelectTimeout(c)
      PROVE  PendingInv'
  <2>1. pc[c] \in {"peek", "select"} /\ UNCHANGED <<id, nextInternalID>>
    BY ZenonT(40), <1>4 DEF Peek, SelectReply, SelectDone, SelectExited, SelectCancel,
                SelectTimeout, Waiting
  <2>2. (\E x : Return(c, x)) \/ Goto(c, "select") \/ Goto(c, "reply")
    BY <1>4 DEF Peek, SelectReply, SelectDone, SelectExited, SelectCancel,
                SelectTimeout, Take
  <2> QED
    BY Zenon, <2>1, <2>2, PendingReturn, PendingGoto DEF FlightPcs
<1>5. ASSUME NEW c \in Reqs, Reply(c) PROVE PendingInv'
  <2>1. (\E x : Return(c, x)) /\ UNCHANGED <<id, nextInternalID>>
    BY ZenonT(40), <1>5 DEF Reply
  <2> QED
    BY Zenon, <2>1, PendingReturn
<1>6. ASSUME NEW c \in Reqs, Subscribe(c) \/ UndoSubscribe(c) \/ Unsubscribe(c)
      PROVE  PendingInv'
  <2>1. pc[c] \notin FlightPcs /\ UNCHANGED <<id, nextInternalID>>
    BY <1>6 DEF Subscribe, UndoSubscribe, Unsubscribe, SseSame, FlightPcs
  <2>2. (\E x : Return(c, x)) \/ Goto(c, "undo") \/ Goto(c, "stream")
    BY <1>6 DEF Subscribe, UndoSubscribe, Unsubscribe
  <2> QED
    BY Zenon, <2>1, <2>2, PendingReturn, PendingGoto DEF FlightPcs
<1>7. CASE \/ Scan \/ Send \/ ReadEnd
           \/ Reap \/ Drain \/ DrainTimeout \/ Stop \/ Kill \/ StopReturn
  BY <1>7, PendingSame DEF Scan, Send, ReadEnd, ReaderSame, Reap, Drain,
                           DrainTimeout, Stop, Kill, StopReturn, JobClose, LifeSame
<1>8. CASE \/ ChildReads \/ ChildExits \/ DescendantExits
           \/ \E m \in work, a \in Answers : ChildAnswers(m, a)
           \/ \E line \in Unsolicited : ChildSpeaks(line)
  BY <1>8, PendingSame, ZenonT(20) DEF ChildReads, ChildAnswers, ChildSpeaks, ChildExits,
                           DescendantExits, ChildSame
<1>9. CASE UNCHANGED vars
  BY Zenon, <1>9, PendingSame DEF vars
<1> QED
  BY Zenon, <1>1, <1>2, <1>3, <1>4, <1>5, <1>6, <1>7, <1>8, <1>9 DEF Next

\* Nothing is pending at first.
LEMMA PendingInit == Init => PendingInv
<1> SUFFICES ASSUME Init PROVE PendingInv
  OBVIOUS
<1>1. DOMAIN pending = {} /\ Cardinality(DOMAIN pending) = 0
  BY FS_EmptySet DEF Init
<1> QED
  BY <1>1, StdioAssumption DEF Init, PendingInv, IdInv, PendingIsInFlight, InFlight

\* The pending map holds exactly the requests in flight, never more than the cap.
THEOREM PendingIsInFlightHolds == Spec => []PendingIsInFlight
<1>1. TypeOK /\ PendingInv => PendingIsInFlight
  BY DEF PendingInv
<1> QED
  BY <1>1, TypeInit, TypeStep, PendingInit, PendingStep, PTL DEF Spec

-----------------------------------------------------------------------------
(* The event streams and the sessions at their caps. *)

\* A step of handler c: it goes to l, and writes its status when it is done.
Moved(c, l) ==
    /\ pc[c] # "done" /\ l # "idle" /\ kind' = kind
    /\ pc' = [pc EXCEPT ![c] = l]
    /\ \/ l # "done" /\ status' = status
       \/ l = "done" /\ \E x \in StatusSet : status' = [status EXCEPT ![c] = x]

\* What a handler does that neither opens nor closes an event stream.
Plain(c) ==
    \/ \E s \in 0..nextSessionSeq : Receive(c, s)
    \/ Register(c) \/ Write(c) \/ Peek(c) \/ SelectReply(c) \/ SelectDone(c)
    \/ SelectExited(c) \/ SelectCancel(c) \/ SelectTimeout(c) \/ Reply(c)

\* Return and Goto move the handler.
LEMMA MovedBy ==
  ASSUME NEW c \in Reqs, pc[c] # "done", kind' = kind
  PROVE  /\ \A x \in StatusSet : Return(c, x) => Moved(c, "done")
         /\ \A l \in PcSet \ {"done", "idle"} : Goto(c, l) => Moved(c, l)
BY DEF Return, Goto, Moved, PcSet

\* Such a step counts nothing and starts and ends outside the streams.
LEMMA PlainMoves ==
  ASSUME NEW c \in Reqs, Plain(c)
  PROVE  /\ pc[c] \notin {"undo", "stream"} /\ sseActive' = sseActive
         /\ \E l \in PcSet \ {"undo", "stream"} : Moved(c, l)
<1> USE DEF sessionVars
<1> DEFINE Off == PcSet \ {"undo", "stream"}
<1>1. ASSUME NEW s \in 0..nextSessionSeq, Receive(c, s)
      PROVE  /\ pc[c] \notin {"undo", "stream"} /\ sseActive' = sseActive
             /\ \E l \in Off : Moved(c, l)
  <2>1. pc[c] = "idle" /\ kind' = kind /\ sseActive' = sseActive
    BY Zenon, <1>1 DEF Receive
  <2>2. \/ \E x \in StatusSet : Return(c, x)
        \/ \E l \in {"reply", "register", "write", "subscribe"} : Goto(c, l)
    BY <1>1 DEF Receive, StatusSet
  <2> QED
    BY Zenon, <2>1, <2>2, MovedBy DEF PcSet
<1>2. ASSUME Register(c)
      PROVE  /\ pc[c] \notin {"undo", "stream"} /\ sseActive' = sseActive
             /\ \E l \in Off : Moved(c, l)
  <2>1. pc[c] = "register" /\ kind' = kind /\ sseActive' = sseActive
    BY Zenon, <1>2 DEF Register
  <2>2. Moved(c, "done") \/ Moved(c, "write")
    BY <1>2, <2>1 DEF Register, Moved, StatusSet
  <2> QED
    BY Zenon, <2>1, <2>2 DEF PcSet
<1>3. ASSUME Write(c)
      PROVE  /\ pc[c] \notin {"undo", "stream"} /\ sseActive' = sseActive
             /\ \E l \in Off : Moved(c, l)
  <2>1. pc[c] = "write" /\ kind' = kind /\ sseActive' = sseActive
    BY Zenon, <1>3 DEF Write
  <2>2. Return(c, "500") \/ Return(c, "accepted") \/ Goto(c, "peek")
    BY <1>3 DEF Write
  <2> QED
    BY Zenon, <2>1, <2>2, MovedBy DEF PcSet, StatusSet
<1>4. ASSUME \/ Peek(c) \/ SelectReply(c) \/ SelectDone(c) \/ SelectExited(c)
             \/ SelectCancel(c) \/ SelectTimeout(c)
      PROVE  /\ pc[c] \notin {"undo", "stream"} /\ sseActive' = sseActive
             /\ \E l \in Off : Moved(c, l)
  <2>1. pc[c] \in {"peek", "select"} /\ Waiting
    BY ZenonT(40), <1>4 DEF Peek, SelectReply, SelectDone, SelectExited, SelectCancel,
                SelectTimeout
  <2>2. \/ \E x \in {"408", "502", "503", "504"} : Return(c, x)
        \/ Goto(c, "select") \/ Goto(c, "reply")
    BY <1>4 DEF Peek, SelectReply, SelectDone, SelectExited, SelectCancel,
                SelectTimeout, Take
  <2>3. pc[c] # "done" /\ kind' = kind /\ sseActive' = sseActive
    BY <2>1 DEF Waiting
  <2> QED
    BY <2>1, <2>2, <2>3, MovedBy DEF PcSet, StatusSet
<1>5. ASSUME Reply(c)
      PROVE  /\ pc[c] \notin {"undo", "stream"} /\ sseActive' = sseActive
             /\ \E l \in Off : Moved(c, l)
  <2>1. pc[c] = "reply" /\ kind' = kind /\ sseActive' = sseActive
    BY Zenon, <1>5 DEF Reply
  <2>2. \E x \in {"200", "500", "502"} : Return(c, x)
    BY <1>5 DEF Reply
  <2> QED
    BY Zenon, <2>1, <2>2, MovedBy DEF PcSet, StatusSet
<1> QED
  BY Zenon, <1>1, <1>2, <1>3, <1>4, <1>5 DEF Plain

\* So do the steps of the event stream, which keep everything else.
LEMMA StreamMoves ==
  ASSUME NEW c \in Reqs, Subscribe(c) \/ UndoSubscribe(c) \/ Unsubscribe(c)
  PROVE  SseSame /\ \E l \in PcSet : Moved(c, l)
<1>1. pc[c] \in {"subscribe", "undo", "stream"} /\ SseSame
  BY DEF Subscribe, UndoSubscribe, Unsubscribe
<1>2. \/ Return(c, "refused") \/ Return(c, "closed")
      \/ Goto(c, "undo") \/ Goto(c, "stream")
  BY DEF Subscribe, UndoSubscribe, Unsubscribe
<1>3. pc[c] # "done" /\ kind' = kind
  BY Zenon, <1>1 DEF SseSame
<1> QED
  BY <1>1, <1>2, <1>3, MovedBy DEF PcSet, StatusSet

\* What the other goroutines, the child and a stutter leave alone.
LEMMA OthersStep ==
  ASSUME [Next]_vars, \A c \in Reqs : ~Plain(c),
         \A c \in Reqs : ~(Subscribe(c) \/ UndoSubscribe(c) \/ Unsubscribe(c))
  PROVE  /\ UNCHANGED <<pc, kind, status, session, nextSessionSeq, sseActive>>
         /\ UNCHANGED <<sessions, stopped>> \/ (stopped' /\ sessions' = {})
<1> USE DEF handlerVars, muxVars, sessionVars, lifeVars, childVars
<1>1. CASE \/ Scan \/ Send \/ ReadEnd
  BY <1>1, ZenonT(20) DEF Scan, Send, ReadEnd, ReaderSame
<1>2. CASE \/ Reap \/ Drain \/ DrainTimeout \/ Stop \/ Kill \/ StopReturn
  <2>1. LifeSame
    BY <1>2 DEF Reap, Drain, DrainTimeout, Stop, Kill, StopReturn
  <2>2. UNCHANGED <<sessions, stopped>> \/ (stopped' /\ sessions' = {})
    BY <1>2, ZenonT(20) DEF Reap, Drain, DrainTimeout, Stop, Kill, StopReturn
  <2> QED
    BY Zenon, <2>1, <2>2 DEF LifeSame
<1>3. CASE \/ ChildReads \/ ChildExits \/ DescendantExits
           \/ \E m \in work, a \in Answers : ChildAnswers(m, a)
           \/ \E line \in Unsolicited : ChildSpeaks(line)
  BY <1>3, ZenonT(20) DEF ChildReads, ChildAnswers, ChildSpeaks, ChildExits,
                          DescendantExits, ChildSame
<1>4. CASE UNCHANGED vars
  BY Zenon, <1>4 DEF vars
<1> QED
  BY <1>1, <1>2, <1>3, <1>4 DEF Next, Plain

\* The clients that hold a unit of sseActive, and those with an open stream.
Counted == {c \in Reqs : pc[c] \in {"undo", "stream"}}
Streams == {c \in Reqs : pc[c] = "stream"}

SubscriberInv == IsFiniteSet(Counted) /\ SubscribersCounted

\* A new subscriber adds its unit before it is compared with the cap.
LEMMA CountedSubscribe ==
  ASSUME TypeOK, SubscriberInv, NEW c \in Reqs, Subscribe(c)
  PROVE  SubscriberInv'
<1>1. /\ pc \in [Reqs -> PcSet] /\ pc[c] = "subscribe" /\ sseActive' = sseActive + 1
      /\ pc' = [pc EXCEPT ![c] = IF sseActive' > MaxSubscribers THEN "undo" ELSE "stream"]
  BY DEF Subscribe, Goto, TypeOK, PcSet
<1>2. Counted' = Counted \cup {c} /\ c \notin Counted
  BY Zenon, <1>1 DEF Counted
<1>3. /\ IsFiniteSet(Counted') /\ Cardinality(Counted') = sseActive'
      /\ sseActive' \in Nat
  <2>1. IsFiniteSet(Counted) /\ Cardinality(Counted) = sseActive
    BY DEF SubscriberInv, SubscribersCounted, Counted
  <2> QED
    BY <1>1, <1>2, <2>1, FS_AddElement, FS_CardinalityType
<1>4. Cardinality(Streams') <= MaxSubscribers
  <2>1. CASE sseActive' > MaxSubscribers
    <3>1. Streams' = Streams
      BY Zenon, <1>1, <2>1 DEF Streams
    <3> QED
      BY <3>1 DEF SubscriberInv, SubscribersCounted, Streams
  <2>2. CASE ~(sseActive' > MaxSubscribers)
    <3>1. Streams' \subseteq Counted'
      BY DEF Streams, Counted
    <3>2. Cardinality(Streams') <= Cardinality(Counted') /\ Cardinality(Streams') \in Nat
      BY Zenon, <1>3, <3>1, FS_Subset, FS_CardinalityType
    <3> QED
      BY <1>3, <2>2, <3>2, StdioAssumption
  <2> QED
    BY Zenon, <2>1, <2>2
<1> QED
  BY Zenon, <1>3, <1>4 DEF SubscriberInv, SubscribersCounted, Counted, Streams

\* A client that is refused or leaves gives its unit back.
LEMMA CountedLeave ==
  ASSUME TypeOK, SubscriberInv, NEW c \in Reqs, UndoSubscribe(c) \/ Unsubscribe(c)
  PROVE  SubscriberInv'
<1>1. /\ pc \in [Reqs -> PcSet] /\ pc[c] \in {"undo", "stream"}
      /\ sseActive' = sseActive - 1 /\ pc' = [pc EXCEPT ![c] = "done"]
  BY DEF UndoSubscribe, Unsubscribe, Return, TypeOK, PcSet
<1>2. Counted' = Counted \ {c} /\ c \in Counted /\ Streams' \subseteq Streams
  BY <1>1 DEF Counted, Streams
<1>3. IsFiniteSet(Counted) /\ Cardinality(Counted) = sseActive
  BY DEF SubscriberInv, SubscribersCounted, Counted
<1>4. IsFiniteSet(Counted') /\ Cardinality(Counted') = sseActive'
  BY Zenon, <1>1, <1>2, <1>3, FS_RemoveElement
<1>5. IsFiniteSet(Streams) /\ Cardinality(Streams) <= MaxSubscribers
  <2>1. Streams \subseteq Counted
    BY DEF Streams, Counted
  <2> QED
    BY <1>3, <2>1, FS_Subset DEF SubscriberInv, SubscribersCounted, Streams
<1>6. Cardinality(Streams') <= MaxSubscribers
  <2>1. /\ Cardinality(Streams') <= Cardinality(Streams)
        /\ Cardinality(Streams') \in Nat /\ Cardinality(Streams) \in Nat
    BY Zenon, <1>2, <1>5, FS_Subset, FS_CardinalityType
  <2> QED
    BY <1>5, <2>1, StdioAssumption
<1> QED
  BY Zenon, <1>4, <1>6 DEF SubscriberInv, SubscribersCounted, Counted, Streams

\* Every step keeps the count exact.
LEMMA SubscriberStep == TypeOK /\ SubscriberInv /\ [Next]_vars => SubscriberInv'
<1> SUFFICES ASSUME TypeOK, SubscriberInv, [Next]_vars PROVE SubscriberInv'
  BY Zenon
<1>1. ASSUME NEW c \in Reqs, Plain(c) PROVE SubscriberInv'
  <2>1. /\ pc \in [Reqs -> PcSet] /\ pc[c] \notin {"undo", "stream"}
        /\ sseActive' = sseActive
        /\ \E l \in PcSet \ {"undo", "stream"} : pc' = [pc EXCEPT ![c] = l]
    BY Zenon, <1>1, PlainMoves DEF Moved, TypeOK, PcSet
  <2>2. Counted' = Counted /\ Streams' = Streams
    BY <2>1 DEF Counted, Streams
  <2> QED
    BY Zenon, <2>1, <2>2 DEF SubscriberInv, SubscribersCounted, Counted, Streams
<1>2. ASSUME NEW c \in Reqs, Subscribe(c) \/ UndoSubscribe(c) \/ Unsubscribe(c)
      PROVE  SubscriberInv'
  BY Zenon, <1>2, CountedSubscribe, CountedLeave
<1>3. ASSUME \A c \in Reqs : ~Plain(c),
             \A c \in Reqs : ~(Subscribe(c) \/ UndoSubscribe(c) \/ Unsubscribe(c))
      PROVE  SubscriberInv'
  <2>1. UNCHANGED <<pc, sseActive>>
    BY <1>3, OthersStep
  <2> QED
    BY <2>1 DEF SubscriberInv, SubscribersCounted, Counted
<1> QED
  BY Zenon, <1>1, <1>2, <1>3

\* The subscriber count is exact and at most maxSSESubscribers streams are open,
\* for any number of clients that come and go at once.
THEOREM SubscribersCountedHolds == Spec => []SubscribersCounted
<1>1. Init => SubscriberInv
  <2>1. ASSUME Init PROVE Counted = {} /\ Streams = {} /\ sseActive = 0
    BY <2>1 DEF Init, Counted, Streams
  <2> QED
    BY <2>1, FS_EmptySet, StdioAssumption DEF SubscriberInv, SubscribersCounted, Counted, Streams
<1>2. SubscriberInv => SubscribersCounted
  BY DEF SubscriberInv
<1> QED
  BY <1>1, <1>2, TypeInit, TypeStep, SubscriberStep, PTL DEF Spec

\* The oldest session is there when any session is, by well-foundedness.
LEMMA OldestIs ==
  ASSUME NEW S, S \subseteq Nat, S # {}
  PROVE  Oldest(S) \in S /\ \A t \in S : Oldest(S) <= t
<1> DEFINE Less == {ss \in Nat \X Nat : ss[1] < ss[2]}
<1>1. IsWellFoundedOn(Less, Nat)
  BY NatLessThanWellFounded, Zenon DEF OpToRel
<1>2. \A x, y \in Nat : <<y, x>> \in Less <=> y < x
  OBVIOUS
<1> HIDE DEF Less
<1>3. PICK x \in S : \A y \in S : ~(<<y, x>> \in Less)
  BY Zenon, <1>1, WFMin
<1>4. \A y \in S : x <= y
  <2> SUFFICES ASSUME NEW y \in S PROVE x <= y
    OBVIOUS
  <2>1. ~(y < x)
    BY Zenon, <1>2, <1>3
  <2> QED
    BY <2>1
<1> QED
  BY Zenon, <1>4 DEF Oldest

\* Sessions, when they are finite in number and numbered up to n, and the oldest
\* of them is o: there are at most n - o + 1.
LEMMA SessionsAbove ==
  ASSUME NEW S, NEW n \in Nat, S \subseteq 1..n, NEW o \in S, \A t \in S : o <= t
  PROVE  IsFiniteSet(S) /\ Cardinality(S) \in Nat /\ Cardinality(S) <= n - o + 1
<1>1. o \in 1..n /\ S \subseteq o..n
  OBVIOUS
<1>2. IsFiniteSet(o..n) /\ Cardinality(o..n) = n - o + 1
  BY <1>1, FS_Interval
<1> QED
  BY Zenon, <1>1, <1>2, FS_Subset, FS_CardinalityType

\* The client deleted session s.
DeletedBy(c, s) == kind[c] = "delete" /\ status[c] = "deleted" /\ session[c] = s

\* A handler has no status before it is done, so that a deletion stays recorded.
KeptInv ==
    /\ \A c \in Reqs : pc[c] # "done" => status[c] = "none"
    /\ SessionsKept

\* What a step of handler c does to the records of deletions.
LEMMA DeletionsStay ==
  ASSUME TypeOK, KeptInv, NEW c \in Reqs, NEW l \in PcSet, Moved(c, l),
         \A d \in Reqs \ {c} : session'[d] = session[d]
  PROVE  /\ \A d \in Reqs : pc'[d] # "done" => status'[d] = "none"
         /\ \A d \in Reqs, s \in Nat : DeletedBy(d, s) => DeletedBy(d, s)'
<1>1. /\ pc \in [Reqs -> PcSet] /\ status \in [Reqs -> StatusSet]
      /\ status[c] = "none"
  BY Zenon DEF TypeOK, KeptInv, PcSet, StatusSet, Moved
<1>2. \A d \in Reqs \ {c} : pc'[d] = pc[d] /\ status'[d] = status[d] /\ kind'[d] = kind[d]
  BY Zenon, <1>1 DEF Moved
<1>3. pc'[c] # "done" => status'[c] = "none"
  BY Zenon, <1>1 DEF Moved
<1> QED
  BY Zenon, <1>1, <1>2, <1>3 DEF DeletedBy, KeptInv

\* Sessions that are kept or lost as before.
LEMMA KeptSame ==
  ASSUME KeptInv, UNCHANGED <<sessions, nextSessionSeq, stopped>>,
         \A d \in Reqs : pc'[d] # "done" => status'[d] = "none",
         \A d \in Reqs, s \in 1..nextSessionSeq : DeletedBy(d, s) => DeletedBy(d, s)'
  PROVE  KeptInv'
BY DEF KeptInv, SessionsKept, DeletedBy

\* The sessions are finite: their ids lie below the counter.
LEMMA SessionsFinite ==
  ASSUME TypeOK
  PROVE  IsFiniteSet(sessions) /\ Cardinality(sessions) \in Nat
<1>1. nextSessionSeq \in Nat /\ sessions \subseteq 1..nextSessionSeq
  BY DEF TypeOK
<1>2. IsFiniteSet(1..nextSessionSeq)
  BY SMTT(40), <1>1, FS_Interval
<1>3. IsFiniteSet(sessions)
  BY Zenon, <1>1, <1>2, FS_Subset
<1> QED
  BY Zenon, <1>3, FS_CardinalityType

\* A new session takes the place of the oldest one, which is then MaxSessions
\* sessions behind.
LEMMA KeptCreate ==
  ASSUME TypeOK, KeptInv, NEW c \in Reqs, CreateSession(c), ~stopped, stopped' = stopped,
         \A d \in Reqs : pc'[d] # "done" => status'[d] = "none",
         \A d \in Reqs, s \in 1..nextSessionSeq : DeletedBy(d, s) => DeletedBy(d, s)'
  PROVE  KeptInv'
<1> DEFINE n == nextSessionSeq + 1
           full == Cardinality(sessions) >= MaxSessions
           rest == IF full THEN sessions \ {Oldest(sessions)} ELSE sessions
<1>1. /\ nextSessionSeq \in Nat /\ sessions \subseteq 1..nextSessionSeq /\ n \in Nat
      /\ nextSessionSeq' = n /\ sessions' = rest \cup {n} /\ n \notin sessions
  BY DEF TypeOK, CreateSession
<1>2. /\ IsFiniteSet(sessions) /\ Cardinality(sessions) \in Nat
      /\ Cardinality(sessions) <= MaxSessions /\ MaxSessions \in Nat \ {0}
  <2>1. IsFiniteSet(sessions) /\ Cardinality(sessions) \in Nat
    BY ZenonT(40), SessionsFinite
  <2>2. Cardinality(sessions) <= MaxSessions /\ MaxSessions \in Nat \ {0}
    BY ZenonT(40), StdioAssumption DEF KeptInv, SessionsKept
  <2> QED
    BY ZenonT(40), <2>1, <2>2
<1>3. full => /\ Oldest(sessions) \in sessions
              /\ \A t \in sessions : Oldest(sessions) <= t
  <2>1. full => sessions # {}
    BY <1>2, FS_EmptySet
  <2>2. sessions \subseteq Nat
    BY <1>1
  <2> QED
    BY ZenonT(40), <2>1, <2>2, OldestIs
<1>4. IsFiniteSet(rest) /\ Cardinality(rest) \in Nat /\ Cardinality(rest) < MaxSessions
  <2>1. CASE full
    <3>1. rest = sessions \ {Oldest(sessions)}
      BY Zenon, <2>1
    <3>2. /\ IsFiniteSet(sessions \ {Oldest(sessions)})
          /\ Cardinality(sessions \ {Oldest(sessions)}) = Cardinality(sessions) - 1
      BY Zenon, <1>2, <1>3, <2>1, FS_RemoveElement
    <3>3. Cardinality(sessions \ {Oldest(sessions)}) \in Nat
      BY Zenon, <3>2, FS_CardinalityType
    <3> HIDE DEF rest
    <3> QED
      BY <1>2, <3>1, <3>2, <3>3
  <2>2. CASE ~full
    BY <1>2, <2>2
  <2> QED
    BY <2>1, <2>2
<1>5. Cardinality(sessions') <= MaxSessions
  <2>1. n \notin rest
    BY Zenon, <1>1
  <2>2. Cardinality(rest \cup {n}) = Cardinality(rest) + 1
    BY Zenon, <1>4, <2>1, FS_AddElement
  <2> QED
    BY <1>1, <1>2, <1>4, <2>2
<1>6. ASSUME NEW s \in 1..n \ sessions'
      PROVE  (\E d \in Reqs : DeletedBy(d, s)') \/ n - s >= MaxSessions
  <2>1. s \in 1..nextSessionSeq /\ s \notin rest
    BY <1>1
  <2>2. CASE s \notin sessions
    <3>1. (\E d \in Reqs : DeletedBy(d, s)) \/ nextSessionSeq - s >= MaxSessions
      BY Zenon, <2>1, <2>2 DEF KeptInv, SessionsKept, DeletedBy
    <3> QED
      BY <1>1, <1>2, <2>1, <3>1
  <2>3. CASE s \in sessions
    <3>1. full /\ s = Oldest(sessions)
      BY Zenon, <2>1, <2>3
    <3>2. Cardinality(sessions) <= nextSessionSeq - s + 1
      BY ZenonT(40), <1>1, <1>3, <2>3, <3>1, SessionsAbove
    <3> QED
      BY <1>1, <1>2, <2>1, <3>1, <3>2
  <2> QED
    BY <2>2, <2>3
<1> QED
  BY ZenonT(40), <1>1, <1>5, <1>6 DEF KeptInv, SessionsKept, DeletedBy

\* DELETE removes the session its client names, and is recorded.
LEMMA KeptDelete ==
  ASSUME TypeOK, KeptInv, NEW c \in Reqs, NEW s \in 0..nextSessionSeq,
         sessions' = sessions \ {s}, UNCHANGED <<nextSessionSeq, stopped>>,
         DeletedBy(c, s)',
         \A d \in Reqs : pc'[d] # "done" => status'[d] = "none",
         \A d \in Reqs, x \in 1..nextSessionSeq : DeletedBy(d, x) => DeletedBy(d, x)'
  PROVE  KeptInv'
<1>1. Cardinality(sessions') <= MaxSessions
  <2>1. IsFiniteSet(sessions) /\ Cardinality(sessions) \in Nat
    BY SessionsFinite
  <2>2. Cardinality(sessions') <= Cardinality(sessions) /\ Cardinality(sessions') \in Nat
    BY Zenon, <2>1, FS_Subset, FS_CardinalityType
  <2>3. Cardinality(sessions) <= MaxSessions /\ MaxSessions \in Nat
    BY ZenonT(40), StdioAssumption DEF KeptInv, SessionsKept
  <2> QED
    BY SMTT(40), <2>1, <2>2, <2>3
<1>2. ASSUME ~stopped, NEW x \in 1..nextSessionSeq \ sessions'
      PROVE  (\E d \in Reqs : DeletedBy(d, x)') \/ nextSessionSeq - x >= MaxSessions
  <2>1. x = s \/ x \in 1..nextSessionSeq \ sessions
    BY Zenon
  <2>2. CASE x = s
    BY Zenon, <2>2
  <2>3. CASE x \in 1..nextSessionSeq \ sessions
    BY Zenon, <1>2, <2>3 DEF KeptInv, SessionsKept, DeletedBy
  <2> QED
    BY Zenon, <2>1, <2>2, <2>3
<1> QED
  BY <1>1, <1>2 DEF KeptInv, SessionsKept, DeletedBy

\* Every step keeps at most MaxSessions sessions and loses none too early.
LEMMA KeptStep == TypeOK /\ KeptInv /\ [Next]_vars => KeptInv'
<1> SUFFICES ASSUME TypeOK, KeptInv, [Next]_vars PROVE KeptInv'
  BY Zenon
<1> USE DEF sessionVars, lifeVars
<1>1. ASSUME NEW c \in Reqs, Plain(c) PROVE KeptInv'
  <2>1. PICK l \in PcSet : Moved(c, l)
    BY Zenon, <1>1, PlainMoves
  <2>2. \/ UNCHANGED <<sessions, nextSessionSeq, stopped, session>>
        \/ \E s \in 0..nextSessionSeq :
              /\ kind[c] = "delete" /\ sessions' = sessions \ {s}
              /\ session' = [session EXCEPT ![c] = s] /\ Return(c, "deleted")
              /\ UNCHANGED <<nextSessionSeq, stopped>>
        \/ CreateSession(c) /\ ~stopped /\ stopped' = stopped
    <3>1. ASSUME NEW s \in 0..nextSessionSeq, Receive(c, s)
          PROVE  \/ UNCHANGED <<sessions, nextSessionSeq, stopped, session>>
                 \/ /\ kind[c] = "delete" /\ sessions' = sessions \ {s}
                    /\ session' = [session EXCEPT ![c] = s] /\ Return(c, "deleted")
                    /\ UNCHANGED <<nextSessionSeq, stopped>>
      BY Zenon, <3>1 DEF Receive
    <3>2. CASE Register(c) \/ Write(c)
      BY Zenon, <3>2 DEF Register, Write
    <3>3. CASE \/ Peek(c) \/ SelectReply(c) \/ SelectDone(c) \/ SelectExited(c)
               \/ SelectCancel(c) \/ SelectTimeout(c)
      <4>1. Waiting
        BY Zenon, <3>3 DEF Peek, SelectReply, SelectDone, SelectExited, SelectCancel, SelectTimeout
      <4> QED
        BY Zenon, <4>1 DEF Waiting
    <3>4. CASE Reply(c)
      BY Zenon, <3>4 DEF Reply
    <3> QED
      BY Zenon, <1>1, <3>1, <3>2, <3>3, <3>4 DEF Plain
  <2>3. \A d \in Reqs \ {c} : session'[d] = session[d]
    BY Zenon, <2>2 DEF CreateSession, TypeOK
  <2>4. /\ \A d \in Reqs : pc'[d] # "done" => status'[d] = "none"
        /\ \A d \in Reqs, s \in Nat : DeletedBy(d, s) => DeletedBy(d, s)'
    BY ZenonT(40), <2>1, <2>3, DeletionsStay
  <2>5. \A d \in Reqs, s \in 1..nextSessionSeq : DeletedBy(d, s) => DeletedBy(d, s)'
    BY <2>4 DEF TypeOK
  <2>6. CASE UNCHANGED <<sessions, nextSessionSeq, stopped, session>>
    BY Zenon, <2>4, <2>5, <2>6, KeptSame
  <2>7. ASSUME NEW s \in 0..nextSessionSeq,
               kind[c] = "delete", sessions' = sessions \ {s},
               session' = [session EXCEPT ![c] = s], Return(c, "deleted"),
               UNCHANGED <<nextSessionSeq, stopped>>
        PROVE  KeptInv'
    <3>1. DeletedBy(c, s)'
      BY Zenon, <2>1, <2>7 DEF DeletedBy, Return, Moved, TypeOK
    <3> QED
      BY Zenon, <2>4, <2>5, <2>7, <3>1, KeptDelete
  <2>8. CASE CreateSession(c) /\ ~stopped /\ stopped' = stopped
    BY Zenon, <2>4, <2>5, <2>8, KeptCreate
  <2> QED
    BY Zenon, <2>2, <2>6, <2>7, <2>8
<1>2. ASSUME NEW c \in Reqs, Subscribe(c) \/ UndoSubscribe(c) \/ Unsubscribe(c)
      PROVE  KeptInv'
  <2>1. PICK l \in PcSet : Moved(c, l)
    BY Zenon, <1>2, StreamMoves
  <2>2. UNCHANGED <<sessions, nextSessionSeq, stopped, session>>
    BY Zenon, <1>2, StreamMoves DEF SseSame
  <2>3. /\ \A d \in Reqs : pc'[d] # "done" => status'[d] = "none"
        /\ \A d \in Reqs, s \in Nat : DeletedBy(d, s) => DeletedBy(d, s)'
    BY Zenon, <2>1, <2>2, DeletionsStay
  <2>4. \A d \in Reqs, s \in 1..nextSessionSeq : DeletedBy(d, s) => DeletedBy(d, s)'
    BY <2>3 DEF TypeOK
  <2> QED
    BY Zenon, <2>2, <2>3, <2>4, KeptSame
<1>3. ASSUME \A c \in Reqs : ~Plain(c),
             \A c \in Reqs : ~(Subscribe(c) \/ UndoSubscribe(c) \/ Unsubscribe(c))
      PROVE  KeptInv'
  <2>1. /\ UNCHANGED <<pc, kind, status, session, nextSessionSeq>>
        /\ UNCHANGED <<sessions, stopped>> \/ (stopped' /\ sessions' = {})
    BY Zenon, <1>3, OthersStep
  <2>2. CASE UNCHANGED <<sessions, stopped>>
    BY Zenon, <2>1, <2>2, KeptSame DEF KeptInv, DeletedBy
  <2>3. CASE stopped' /\ sessions' = {}
    BY <2>1, <2>3, FS_EmptySet, StdioAssumption DEF KeptInv, SessionsKept
  <2> QED
    BY Zenon, <2>1, <2>2, <2>3
<1> QED
  BY <1>1, <1>2, <1>3

\* For any cap and any number of clients, at most maxStdioHTTPSessions sessions
\* exist, and before Stop a session is lost only when its client deletes it or
\* that many newer ones were created.
THEOREM SessionsKeptHolds == Spec => []SessionsKept
<1>1. Init => KeptInv
  <2>1. ASSUME Init
        PROVE  sessions = {} /\ nextSessionSeq = 0 /\ \A c \in Reqs : status[c] = "none"
    BY Zenon, <2>1 DEF Init
  <2> QED
    BY <2>1, FS_EmptySet, StdioAssumption DEF KeptInv, SessionsKept
<1>2. KeptInv => SessionsKept
  BY Zenon DEF KeptInv
<1> QED
  BY <1>1, <1>2, TypeInit, TypeStep, KeptStep, PTL DEF Spec

-----------------------------------------------------------------------------
(* Where the answers go. *)

\* A message in the child's hands carries the id of the request it came from,
\* so does an answer on its way back, and the reader and the channels hold only
\* answers to the request they are bound for.
StdinRouted == \A i \in 1..Len(stdin) : stdin[i].id # 0 => id[stdin[i].from] = stdin[i].id
WorkRouted == \A m \in work : m.id # 0 /\ id[m.from] = m.id
AnswerRouted(line) == IsAnswer(line) => line.to \in Reqs /\ line.id # 0 /\ id[line.to] = line.id
StdoutRouted == \A i \in 1..Len(stdout) : AnswerRouted(stdout[i])
ReaderRouted == reader.pc = "send" /\ IsAnswer(reader.line) => reader.line.to = reader.to
ChanRouted == \A c \in Reqs : chan[c] # None /\ IsAnswer(chan[c]) => chan[c].to = c

RouteInv == /\ StdinRouted /\ WorkRouted /\ StdoutRouted /\ ReaderRouted
            /\ ChanRouted /\ OwnAnswer /\ CacheIsInitialize

\* Nothing is on the wires at first.
LEMMA RouteInit == Init => RouteInv
BY DEF Init, RouteInv, StdinRouted, WorkRouted, StdoutRouted, ReaderRouted, ChanRouted,
       OwnAnswer, CacheIsInitialize

\* An id once given stays, so what is under way stays routed.
LEMMA WireSame ==
  ASSUME TypeOK, RouteInv, UNCHANGED <<stdin, work, stdout>>,
         id' \in [Reqs -> Nat],
         \A c \in Reqs : id[c] # 0 => id'[c] = id[c]
  PROVE  StdinRouted' /\ WorkRouted' /\ StdoutRouted'
<1>1. StdinRouted'
  <2>1. \A i \in 1..Len(stdin) : stdin[i].from \in Reqs
    <3>1. stdin \in Seq(Message)
      BY DEF TypeOK
    <3>2. \A i \in 1..Len(stdin) : stdin[i] \in Message
      BY <3>1
    <3> QED
      BY Zenon, <3>2 DEF Message
  <2> QED
    BY Zenon, <2>1 DEF RouteInv, StdinRouted
<1>2. WorkRouted'
  BY Zenon DEF TypeOK, Message, RouteInv, WorkRouted
<1>3. StdoutRouted'
  BY Zenon DEF RouteInv, StdoutRouted, AnswerRouted
<1> QED
  BY Zenon, <1>1, <1>2, <1>3

\* A handler's channel only ever loses what it holds when the handler acts.
LEMMA ChanShrinks ==
  ASSUME TypeOK, RouteInv, NEW c \in Reqs,
         chan' = chan \/ chan' = [chan EXCEPT ![c] = None]
  PROVE  ChanRouted'
BY ZenonT(20) DEF TypeOK, RouteInv, ChanRouted

\* A handler that takes its channel's line takes its own answer.
LEMMA TakeRoutes ==
  ASSUME TypeOK, RouteInv, NEW c \in Reqs, Take(c), UNCHANGED kind,
         initCached' = initCached \/ CacheInitialize(c, chan[c])
  PROVE  OwnAnswer' /\ CacheIsInitialize'
<1>1. /\ body' = [body EXCEPT ![c] = chan[c]] /\ chan[c] # None
      /\ body \in [Reqs -> Line \cup {None}]
  BY Zenon DEF Take, TypeOK
<1>2. IsAnswer(chan[c]) => chan[c].to = c
  BY Zenon, <1>1 DEF RouteInv, ChanRouted
<1>3. initCached' = initCached
      \/ (/\ initCached = None /\ initCached' = chan[c]
          /\ chan[c].kind = "ok" /\ kind[c] = "initialize")
  BY Zenon DEF CacheInitialize
<1>4. CacheIsInitialize'
  <2>1. CASE initCached' = initCached
    BY Zenon, <2>1 DEF RouteInv, CacheIsInitialize
  <2>2. CASE initCached' = chan[c] /\ chan[c].kind = "ok" /\ kind[c] = "initialize"
    BY Zenon, <1>2, <2>2 DEF CacheIsInitialize, IsAnswer, AllAnswers
  <2> QED
    BY Zenon, <1>3, <2>1, <2>2
<1>5. ASSUME NEW d \in Reqs, body'[d] # None, IsAnswer(body'[d])
      PROVE  body'[d].to = d \/ (kind'[d] = "initialize" /\ body'[d] = initCached')
  <2>1. CASE d = c
    BY Zenon, <1>1, <1>2, <1>5, <2>1
  <2>2. CASE d # c
    <3>1. body'[d] = body[d]
      BY Zenon, <1>1, <2>2
    <3>2. body[d].to = d \/ (kind[d] = "initialize" /\ body[d] = initCached)
      BY Zenon, <1>5, <3>1 DEF RouteInv, OwnAnswer
    <3>3. body[d] = initCached => initCached' = initCached
      BY ZenonT(40), <1>3, <1>5, <3>1
    <3> QED
      BY Zenon, <3>1, <3>2, <3>3
  <2> QED
    BY Zenon, <2>1, <2>2
<1> QED
  BY Zenon, <1>4, <1>5 DEF OwnAnswer

\* Bodies and cache unchanged: the properties about them are kept.
LEMMA AnswersSame ==
  ASSUME RouteInv, UNCHANGED <<body, kind, initCached>>
  PROVE  OwnAnswer' /\ CacheIsInitialize'
BY DEF RouteInv, OwnAnswer, CacheIsInitialize

\* The reader hands a pending line to the handler whose id it carries.
LEMMA ScanRoutes ==
  ASSUME TypeOK, PendingInv, RouteInv, Scan
  PROVE  StdoutRouted' /\ ReaderRouted'
<1>1. stdout \in Seq(Line) /\ stdout # <<>> /\ stdout' = Tail(stdout) /\ id' = id
  BY DEF Scan, ReaderSame, handlerVars, TypeOK
<1>2. /\ Len(stdout) > 0 /\ 1 \in 1..Len(stdout) /\ Head(stdout) = stdout[1]
      /\ Len(stdout') = Len(stdout) - 1
      /\ \A i \in 1..Len(stdout') : stdout'[i] = stdout[i + 1] /\ i + 1 \in 1..Len(stdout)
  BY <1>1
<1>3. StdoutRouted'
  BY Zenon, <1>1, <1>2 DEF RouteInv, StdoutRouted, AnswerRouted
<1>4. AnswerRouted(Head(stdout))
  BY Zenon, <1>2 DEF RouteInv, StdoutRouted
<1>5. CASE /\ Head(stdout).id \in DOMAIN pending
           /\ reader' = [pc |-> "send", line |-> Head(stdout),
                         to |-> pending[Head(stdout).id]]
  <2>1. /\ pending[Head(stdout).id] \in Reqs
        /\ id[pending[Head(stdout).id]] = Head(stdout).id
    BY Zenon, <1>5 DEF PendingInv, PendingIsInFlight, TypeOK
  <2>2. IsAnswer(Head(stdout)) => Head(stdout).to = pending[Head(stdout).id]
    BY Zenon, <1>4, <2>1 DEF AnswerRouted, PendingInv, IdInv
  <2> QED
    BY Zenon, <1>3, <1>5, <2>2 DEF ReaderRouted
<1>6. CASE reader'.pc # "send"
  BY Zenon, <1>3, <1>6 DEF ReaderRouted
<1> QED
  BY Zenon, <1>5, <1>6 DEF Scan, TypeOK

\* Every step keeps each message and each answer bound to the request it belongs to.
LEMMA RouteStep ==
  TypeOK /\ TypeOK' /\ PendingInv /\ RouteInv /\ [Next]_vars => RouteInv'
<1> SUFFICES ASSUME TypeOK, TypeOK', PendingInv, RouteInv, [Next]_vars PROVE RouteInv'
  BY Zenon
<1> USE DEF handlerVars, muxVars, sessionVars, lifeVars, childVars
<1>a. id' \in [Reqs -> Nat]
  BY Zenon DEF TypeOK
<1>b. ASSUME UNCHANGED <<stdin, work, stdout, id>>
      PROVE  StdinRouted' /\ WorkRouted' /\ StdoutRouted'
  BY Zenon, <1>b, <1>a, WireSame
<1>c. ASSUME UNCHANGED reader PROVE ReaderRouted'
  BY Zenon, <1>c DEF RouteInv, ReaderRouted
<1>d. ASSUME UNCHANGED chan PROVE ChanRouted'
  BY Zenon, <1>d DEF RouteInv, ChanRouted
<1>1. ASSUME NEW c \in Reqs, NEW s \in 0..nextSessionSeq, Receive(c, s) PROVE RouteInv'
  <2>1. UNCHANGED <<stdin, work, stdout, id, reader, kind, initCached>>
    BY <1>1 DEF Receive
  <2>2. ChanRouted'
    <3>1. chan' = chan \/ chan' = [chan EXCEPT ![c] = None]
      BY Zenon, <1>1 DEF Receive, Return
    <3> QED
      BY Zenon, <3>1, ChanShrinks
  <2>3. CacheIsInitialize'
    BY Zenon, <2>1 DEF RouteInv, CacheIsInitialize
  <2>4. OwnAnswer'
    <3>1. \/ body' = body
          \/ kind[c] = "initialize" /\ body' = [body EXCEPT ![c] = initCached]
      BY ZenonT(40), <1>1 DEF Receive
    <3>2. body \in [Reqs -> Line \cup {None}]
      BY Zenon DEF TypeOK
    <3>3. ASSUME NEW d \in Reqs
          PROVE  body'[d] = body[d] \/ (kind[d] = "initialize" /\ body'[d] = initCached)
      BY Zenon, <3>1, <3>2
    <3> QED
      BY Zenon, <2>1, <3>3 DEF RouteInv, OwnAnswer
  <2> QED
    BY ZenonT(40), <1>b, <1>c, <2>1, <2>2, <2>3, <2>4 DEF RouteInv
<1>2. ASSUME NEW c \in Reqs, Register(c) PROVE RouteInv'
  <2>1. UNCHANGED <<stdin, work, stdout, reader, chan, body, kind, initCached>>
    BY Zenon, <1>2 DEF Register
  <2>2. \A d \in Reqs : id[d] # 0 => id'[d] = id[d]
    <3>1. id[c] = 0 /\ id' = [id EXCEPT ![c] = nextInternalID']
      BY Zenon, <1>2 DEF Register, PendingInv, IdInv
    <3> QED
      BY Zenon, <3>1 DEF TypeOK
  <2> QED
    BY Zenon, <1>a, <1>c, <1>d, <2>1, <2>2, WireSame, AnswersSame DEF RouteInv
<1>3. ASSUME NEW c \in Reqs, Write(c) PROVE RouteInv'
  <2>1. UNCHANGED <<work, stdout, id, reader, body, kind, initCached>>
    BY <1>3 DEF Write
  <2>2. ChanRouted'
    <3>1. chan' = chan \/ chan' = [chan EXCEPT ![c] = None]
      BY Zenon, <1>3 DEF Write, Return
    <3> QED
      BY Zenon, <3>1, ChanShrinks
  <2>3. StdinRouted'
    <3>1. CASE stdin' = stdin
      BY ZenonT(40), <2>1, <3>1 DEF RouteInv, StdinRouted
    <3>2. CASE stdin' = Append(stdin, [id |-> id[c], from |-> c])
      <4>1. stdin \in Seq(Message) /\ [id |-> id[c], from |-> c] \in Message
        BY Zenon DEF TypeOK, Message
      <4>2. /\ Len(stdin') = Len(stdin) + 1 /\ Len(stdin) \in Nat
            /\ stdin'[Len(stdin) + 1] = [id |-> id[c], from |-> c]
            /\ \A i \in 1..Len(stdin) : stdin'[i] = stdin[i]
        BY SMTT(40), <3>2, <4>1
      <4> QED
        BY SMTT(40), <2>1, <4>2 DEF RouteInv, StdinRouted
    <3> QED
      BY ZenonT(40), <1>3, <3>1, <3>2 DEF Write
  <2>4. WorkRouted' /\ StdoutRouted'
    BY Zenon, <2>1 DEF RouteInv, WorkRouted, StdoutRouted, AnswerRouted
  <2> QED
    BY ZenonT(40), <1>c, <2>1, <2>2, <2>3, <2>4, AnswersSame DEF RouteInv
<1>4. ASSUME NEW c \in Reqs,
             \/ Peek(c) \/ SelectReply(c) \/ SelectDone(c) \/ SelectExited(c)
             \/ SelectCancel(c) \/ SelectTimeout(c)
      PROVE  RouteInv'
  <2>1. UNCHANGED <<stdin, work, stdout, id, reader, kind>>
    BY ZenonT(40), <1>4 DEF Peek, SelectReply, SelectDone, SelectExited, SelectCancel,
                SelectTimeout, Waiting
  <2>2. ChanRouted'
    <3>1. chan' = chan \/ chan' = [chan EXCEPT ![c] = None]
      BY ZenonT(40), <1>4 DEF Peek, SelectReply, SelectDone, SelectExited, SelectCancel,
                  SelectTimeout, Take, Return
    <3> QED
      BY <3>1, ChanShrinks
  <2>3. \/ Take(c) /\ (initCached' = initCached \/ CacheInitialize(c, chan[c]))
        \/ UNCHANGED <<body, initCached>>
    BY Zenon, <1>4 DEF Peek, SelectReply, SelectDone, SelectExited, SelectCancel, SelectTimeout
  <2>4. OwnAnswer' /\ CacheIsInitialize'
    BY Zenon, <2>1, <2>3, TakeRoutes, AnswersSame
  <2> QED
    BY Zenon, <1>b, <1>c, <2>1, <2>2, <2>4 DEF RouteInv
<1>5. ASSUME NEW c \in Reqs,
             Reply(c) \/ Subscribe(c) \/ UndoSubscribe(c) \/ Unsubscribe(c)
      PROVE  RouteInv'
  <2>1. UNCHANGED <<stdin, work, stdout, id, reader, body, kind, initCached>>
    BY Zenon, <1>5 DEF Reply, Subscribe, UndoSubscribe, Unsubscribe, SseSame
  <2>2. chan' = chan \/ chan' = [chan EXCEPT ![c] = None]
    BY Zenon, <1>5 DEF Reply, Subscribe, UndoSubscribe, Unsubscribe, Return
  <2> QED
    BY Zenon, <1>b, <1>c, <2>1, <2>2, ChanShrinks, AnswersSame DEF RouteInv
<1>6. CASE Scan
  <2>1. UNCHANGED <<stdin, work, id, chan, body, kind, initCached>>
    BY Zenon, <1>6 DEF Scan, ReaderSame
  <2>2. StdinRouted' /\ WorkRouted'
    BY Zenon, <2>1 DEF RouteInv, StdinRouted, WorkRouted
  <2> QED
    BY Zenon, <1>6, <1>d, <2>1, <2>2, ScanRoutes, AnswersSame DEF RouteInv
<1>7. CASE Send
  <2>1. /\ UNCHANGED <<stdin, work, stdout, id, body, kind, initCached>>
        /\ reader'.pc # "send"
    BY <1>7 DEF Send, ReaderSame
  <2>2. ChanRouted'
    <3>1. chan' = chan \/ chan' = [chan EXCEPT ![reader.to] = reader.line]
      BY Zenon, <1>7 DEF Send
    <3>2. reader.to \in Reqs /\ (IsAnswer(reader.line) => reader.line.to = reader.to)
      BY Zenon, <1>7 DEF Send, TypeOK, RouteInv, ReaderRouted
    <3> QED
      BY <3>1, <3>2, ZenonT(30) DEF TypeOK, RouteInv, ChanRouted
  <2>3. ReaderRouted'
    BY Zenon, <2>1 DEF ReaderRouted
  <2> QED
    BY Zenon, <1>b, <2>1, <2>2, <2>3, AnswersSame DEF RouteInv
<1>8. CASE ReadEnd
  <2>1. /\ UNCHANGED <<stdin, work, stdout, id, chan, body, kind, initCached>>
        /\ reader'.pc # "send"
    BY Zenon, <1>8 DEF ReadEnd, ReaderSame, TypeOK
  <2>2. ReaderRouted'
    BY Zenon, <2>1 DEF ReaderRouted
  <2> QED
    BY Zenon, <1>b, <1>d, <2>1, <2>2, AnswersSame DEF RouteInv
<1>9. CASE \/ Reap \/ Drain \/ DrainTimeout \/ Stop \/ Kill \/ StopReturn
           \/ ChildExits \/ DescendantExits \/ UNCHANGED vars
  <2>1. UNCHANGED <<stdin, work, stdout, id, reader, chan, body, kind, initCached>>
    BY <1>9, ZenonT(20) DEF Reap, Drain, DrainTimeout, Stop, Kill, StopReturn, JobClose, LifeSame,
                ChildExits, DescendantExits, ChildSame, vars
  <2> QED
    BY Zenon, <1>b, <1>c, <1>d, <2>1, AnswersSame DEF RouteInv
<1>10. CASE ChildReads
  <2>1. UNCHANGED <<stdout, id, reader, chan, body, kind, initCached>>
    BY Zenon, <1>10 DEF ChildReads, ChildSame
  <2>2. stdin \in Seq(Message) /\ stdin # <<>> /\ stdin' = Tail(stdin)
    BY Zenon, <1>10 DEF ChildReads, TypeOK
  <2>3. /\ 1 \in 1..Len(stdin) /\ Head(stdin) = stdin[1]
        /\ \A i \in 1..Len(stdin') : stdin'[i] = stdin[i + 1] /\ i + 1 \in 1..Len(stdin)
    BY <2>2
  <2>4. StdinRouted'
    BY Zenon, <2>1, <2>3 DEF RouteInv, StdinRouted
  <2>5. WorkRouted'
    <3>1. Head(stdin).id # 0 => id[Head(stdin).from] = Head(stdin).id
      BY Zenon, <2>3 DEF RouteInv, StdinRouted
    <3>2. \A m \in work' : m \in work \/ (m = Head(stdin) /\ m.id # 0)
      BY Zenon, <1>10 DEF ChildReads
    <3> QED
      BY Zenon, <2>1, <3>1, <3>2 DEF RouteInv, WorkRouted
  <2>6. StdoutRouted'
    BY ZenonT(40), <2>1 DEF RouteInv, StdoutRouted, AnswerRouted
  <2> QED
    BY Zenon, <1>c, <1>d, <2>1, <2>4, <2>5, <2>6, AnswersSame DEF RouteInv
<1>11. ASSUME NEW line \in Line, stdout' = Append(stdout, line), AnswerRouted(line), id' = id
       PROVE  StdoutRouted'
  <2>1. stdout \in Seq(Line)
    BY ZenonT(40) DEF TypeOK
  <2>2. /\ Len(stdout') = Len(stdout) + 1 /\ Len(stdout) \in Nat
        /\ stdout'[Len(stdout) + 1] = line
        /\ \A i \in 1..Len(stdout) : stdout'[i] = stdout[i]
    BY <1>11, <2>1
  <2> QED
    BY SMTT(40), <1>11, <2>2 DEF RouteInv, StdoutRouted, AnswerRouted
<1>12. ASSUME NEW m \in work, NEW a \in Answers, ChildAnswers(m, a) PROVE RouteInv'
  <2> DEFINE line == [id |-> m.id, kind |-> a, to |-> m.from]
  <2>1. UNCHANGED <<stdin, id, reader, chan, body, kind, initCached>> /\ work' \subseteq work
        /\ stdout' = Append(stdout, line)
    BY Zenon, <1>12 DEF ChildAnswers, ChildSame
  <2>2. line \in Line /\ AnswerRouted(line)
    BY ZenonT(40), StdioAssumption DEF TypeOK, Message, Line, AnswerRouted, RouteInv, WorkRouted
  <2> HIDE DEF line
  <2>3. StdinRouted' /\ WorkRouted'
    BY Zenon, <2>1 DEF RouteInv, StdinRouted, WorkRouted
  <2> QED
    BY Zenon, <1>11, <1>c, <1>d, <2>1, <2>2, <2>3, AnswersSame DEF RouteInv
<1>13. ASSUME NEW line \in Unsolicited, ChildSpeaks(line) PROVE RouteInv'
  <2>1. UNCHANGED <<stdin, work, id, reader, chan, body, kind, initCached>>
        /\ stdout' = Append(stdout, line)
    BY Zenon, <1>13 DEF ChildSpeaks, ChildSame
  <2>2. line \in Line /\ AnswerRouted(line)
    BY ZenonT(40), UnsolicitedType DEF Unsolicited, AnswerRouted, IsAnswer, AllAnswers
  <2>3. StdinRouted' /\ WorkRouted'
    BY <2>1 DEF RouteInv, StdinRouted, WorkRouted
  <2> QED
    BY Zenon, <1>11, <1>c, <1>d, <2>1, <2>2, <2>3, AnswersSame DEF RouteInv
<1> QED
  BY ZenonT(40), <1>1, <1>2, <1>3, <1>4, <1>5, <1>6, <1>7, <1>8, <1>9, <1>10, <1>12, <1>13 DEF Next

\* Every client gets the answer to its own request, for any number of clients
\* and whatever the child does.
THEOREM OwnAnswerHolds == Spec => []OwnAnswer
<1>1. RouteInv => OwnAnswer
  BY Zenon DEF RouteInv
<1> QED
  BY <1>1, TypeInit, TypeStep, PendingInit, PendingStep, RouteInit, RouteStep, PTL DEF Spec

\* Only a success the child gave to an initialize request is ever cached.
THEOREM CacheIsInitializeHolds == Spec => []CacheIsInitialize
<1>1. RouteInv => CacheIsInitialize
  BY DEF RouteInv
<1> QED
  BY <1>1, TypeInit, TypeStep, PendingInit, PendingStep, RouteInit, RouteStep, PTL DEF Spec

-----------------------------------------------------------------------------
(* Sessions and Stop. *)

\* No step creates a session after Stop.
LEMMA SessionStep == NoSessionAfterStop /\ [Next]_vars => NoSessionAfterStop'
<1> SUFFICES ASSUME NoSessionAfterStop, [Next]_vars PROVE NoSessionAfterStop'
  OBVIOUS
<1> USE DEF handlerVars, muxVars, sessionVars, lifeVars, childVars
<1>1. ASSUME NEW c \in Reqs, NEW s, Receive(c, s) PROVE stopped' = stopped /\ sessions' \subseteq sessions
  BY ZenonT(40), <1>1 DEF Receive
<1>2. ASSUME NEW c \in Reqs, Reply(c)
      PROVE  stopped' = stopped /\ (stopped => sessions' = sessions)
  BY <1>2 DEF Reply
<1>3. CASE Stop
  BY <1>3 DEF Stop, NoSessionAfterStop
<1>4. ASSUME NEW c \in Reqs,
             \/ Register(c) \/ Write(c) \/ Peek(c) \/ SelectReply(c) \/ SelectDone(c)
             \/ SelectExited(c) \/ SelectCancel(c) \/ SelectTimeout(c)
             \/ Subscribe(c) \/ UndoSubscribe(c) \/ Unsubscribe(c)
      PROVE  UNCHANGED <<stopped, sessions>>
  BY <1>4, ZenonT(20) DEF Register, Write, Peek, SelectReply, SelectDone, SelectExited, SelectCancel,
              SelectTimeout, Waiting, Subscribe, UndoSubscribe, Unsubscribe, SseSame
<1>5. ASSUME \/ Scan \/ Send \/ ReadEnd \/ Reap \/ Drain \/ DrainTimeout \/ Kill \/ StopReturn
      PROVE  UNCHANGED <<stopped, sessions>>
  BY <1>5, ZenonT(20) DEF Scan, Send, ReadEnd, ReaderSame, Reap, Drain, DrainTimeout, Kill, StopReturn, JobClose
<1>6. ASSUME \/ ChildReads \/ ChildExits \/ DescendantExits \/ UNCHANGED vars
             \/ \E m \in work, a \in Answers : ChildAnswers(m, a)
             \/ \E line \in Unsolicited : ChildSpeaks(line)
      PROVE  UNCHANGED <<stopped, sessions>>
  BY <1>6, ZenonT(20) DEF ChildReads, ChildAnswers, ChildSpeaks, ChildExits, DescendantExits, ChildSame, vars
<1> QED
  BY <1>1, <1>2, <1>3, <1>4, <1>5, <1>6, ZenonT(20) DEF Next, NoSessionAfterStop

\* No session is created after Stop has forgotten them.
THEOREM NoSessionAfterStopHolds == Spec => []NoSessionAfterStop
<1>1. Init => NoSessionAfterStop
  BY Zenon DEF Init, NoSessionAfterStop
<1> QED
  BY <1>1, SessionStep, PTL DEF Spec

-----------------------------------------------------------------------------
(* The child's exit. *)


\* While the watcher has not given up on the pipes, an answer the child gave to
\* a waiting handler is in stdout, in the reader's hands or in the channel, and
\* the reader ends only when there is nothing left to read.
NotGivenUp == watcher \notin {"aborted", "timedOut"}

UnderWay(c) ==
    \/ \E i \in 1..Len(stdout) : stdout[i].id = id[c]
    \/ reader.pc = "send" /\ reader.to = c
    \/ chan[c] # None

Waits(c) == id[c] # 0 /\ pc[c] \in {"write", "peek", "select"}

FinalInv ==
    /\ \A i \in 1..Len(stdout) : stdout[i].kind # "huge"
    /\ replied \subseteq 1..nextInternalID
    /\ NotGivenUp => \A c \in Reqs : Waits(c) /\ id[c] \in replied => UnderWay(c)
    /\ NotGivenUp /\ reader.pc = "done" => ~PipesHeld /\ stdout = <<>>
    /\ watcher = "drained" => reader.pc = "done" /\ ~PipesHeld
    /\ \A c \in Reqs : pc[c] = "reply" => body[c] # None
    /\ \A c \in Reqs : status[c] = "502" /\ body[c] = None => childExited
    /\ FinalAnswerWins

\* Nothing has been answered at first.
LEMMA FinalInit == Init => FinalInv
BY DEF Init, FinalInv, Waits, FinalAnswerWins

\* A handler's step, as far as FinalInv sees it: whoever still waits waited
\* before with the same id and channel, and nobody is told 502 by it.
LEMMA FinalHandler ==
  ASSUME FinalInv, UNCHANGED <<stdout, replied, nextInternalID, watcher, reader, alive, holder>>,
         \A d \in Reqs : Waits(d)' => Waits(d) /\ id'[d] = id[d] /\ chan'[d] = chan[d],
         \A d \in Reqs : status'[d] = "502" /\ body'[d] = None =>
                            status[d] = "502" /\ body[d] = None /\ id'[d] = id[d],
         \A d \in Reqs : pc'[d] = "reply" => body'[d] # None
  PROVE  FinalInv'
<1>1. NotGivenUp' <=> NotGivenUp
  BY Zenon DEF NotGivenUp
<1>2. PipesHeld' <=> PipesHeld
  BY Zenon DEF PipesHeld
<1>3. ASSUME NotGivenUp, NEW d \in Reqs, Waits(d)', id'[d] \in replied
      PROVE  UnderWay(d)'
  <2>1. Waits(d) /\ id'[d] = id[d] /\ chan'[d] = chan[d]
    BY Zenon, <1>3
  <2>2. UnderWay(d)
    BY Zenon, <1>3, <2>1 DEF FinalInv
  <2> QED
    BY Zenon, <2>1, <2>2 DEF UnderWay
<1>4. FinalAnswerWins'
  BY Zenon DEF FinalInv, FinalAnswerWins
<1>5. \A d \in Reqs : status'[d] = "502" /\ body'[d] = None => childExited'
  BY Zenon DEF FinalInv, childExited
<1> QED
  BY Zenon, <1>1, <1>2, <1>3, <1>4, <1>5 DEF FinalInv

\* A handler that returns without a fresh, bodiless 502 keeps the invariant.
LEMMA FinalReturn ==
  ASSUME TypeOK, FinalInv, NEW c \in Reqs, NEW s, Return(c, s), s # "502" \/ body[c] # None,
         UNCHANGED <<id, body, stdout, replied, nextInternalID, watcher, reader, alive, holder>>
  PROVE  FinalInv'
<1>1. /\ pc' = [pc EXCEPT ![c] = "done"] /\ status' = [status EXCEPT ![c] = s]
      /\ chan' = [chan EXCEPT ![c] = None]
  BY Zenon DEF Return
<1>2. \A d \in Reqs : Waits(d)' => Waits(d) /\ id'[d] = id[d] /\ chan'[d] = chan[d]
  BY Zenon, <1>1 DEF Waits, TypeOK
<1>3. \A d \in Reqs : status'[d] = "502" /\ body'[d] = None =>
                         status[d] = "502" /\ body[d] = None /\ id'[d] = id[d]
  BY Zenon, <1>1 DEF TypeOK
<1>4. \A d \in Reqs : pc'[d] = "reply" => body'[d] # None
  BY Zenon, <1>1 DEF FinalInv, TypeOK
<1> QED
  BY Zenon, <1>2, <1>3, <1>4, FinalHandler

\* A handler that moves on before the reply keeps the invariant.
LEMMA FinalGoto ==
  ASSUME TypeOK, FinalInv, NEW c \in Reqs, NEW l, Goto(c, l), l # "reply",
         id[c] # 0 /\ l \in {"write", "peek", "select"} => pc[c] \in {"write", "peek", "select"},
         UNCHANGED <<id, body, chan, stdout, replied, nextInternalID, watcher, reader, alive, holder>>
  PROVE  FinalInv'
<1>1. pc' = [pc EXCEPT ![c] = l] /\ status' = status
  BY Zenon DEF Goto
<1>2. \A d \in Reqs : Waits(d)' => Waits(d) /\ id'[d] = id[d] /\ chan'[d] = chan[d]
  BY Zenon, <1>1 DEF Waits, TypeOK
<1>3. \A d \in Reqs : pc'[d] = "reply" => body'[d] # None
  BY Zenon, <1>1 DEF FinalInv, TypeOK
<1> QED
  BY Zenon, <1>1, <1>2, <1>3, FinalHandler

\* A handler that goes on to reply with a line keeps the invariant.
LEMMA FinalToReply ==
  ASSUME TypeOK, FinalInv, NEW c \in Reqs, Goto(c, "reply"), NEW line, line # None,
         body' = [body EXCEPT ![c] = line],
         chan' = chan \/ chan' = [chan EXCEPT ![c] = None],
         UNCHANGED <<id, stdout, replied, nextInternalID, watcher, reader, alive, holder>>
  PROVE  FinalInv'
<1>1. pc' = [pc EXCEPT ![c] = "reply"] /\ status' = status
  BY Zenon DEF Goto
<1>2. \A d \in Reqs : Waits(d)' => Waits(d) /\ id'[d] = id[d] /\ chan'[d] = chan[d]
  BY Zenon, <1>1 DEF Waits, TypeOK
<1>3. \A d \in Reqs : body'[d] = None => body[d] = None \/ d = c
  BY Zenon DEF TypeOK
<1>4. body'[c] = line
  BY Zenon DEF TypeOK
<1>5. \A d \in Reqs : status'[d] = "502" /\ body'[d] = None =>
                         status[d] = "502" /\ body[d] = None /\ id'[d] = id[d]
  BY Zenon, <1>1, <1>3, <1>4
<1>6. \A d \in Reqs : pc'[d] = "reply" => body'[d] # None
  BY Zenon, <1>1, <1>3, <1>4 DEF FinalInv, TypeOK
<1> QED
  BY Zenon, <1>2, <1>5, <1>6, FinalHandler

\* A fresh id has not been answered.
LEMMA FinalRegister ==
  ASSUME TypeOK, PendingInv, FinalInv, NEW c \in Reqs, Register(c)
  PROVE  FinalInv'
<1>1. /\ UNCHANGED <<stdout, replied, watcher, reader, alive, holder, body, chan>>
      /\ nextInternalID' = nextInternalID + 1 /\ id' = [id EXCEPT ![c] = nextInternalID']
      /\ nextInternalID \in Nat
  BY Zenon DEF Register, childVars, lifeVars, TypeOK
<1>2. /\ \E l \in {"done", "write"} : pc' = [pc EXCEPT ![c] = l]
      /\ status' = status \/ status' = [status EXCEPT ![c] = "refused"]
  BY ZenonT(40) DEF Register
<1>3. /\ replied \subseteq 1..nextInternalID
      /\ nextInternalID' \notin replied /\ replied \subseteq 1..nextInternalID'
  BY <1>1 DEF FinalInv
<1>4. \A d \in Reqs : d # c => (Waits(d)' <=> Waits(d)) /\ id'[d] = id[d] /\ (UnderWay(d)' <=> UnderWay(d))
  BY ZenonT(40), <1>1, <1>2 DEF Waits, UnderWay, TypeOK
<1>5. id'[c] = nextInternalID'
  BY <1>1 DEF TypeOK
<1>6. NotGivenUp' => \A d \in Reqs : Waits(d)' /\ id'[d] \in replied' => UnderWay(d)'
  <2> SUFFICES ASSUME NotGivenUp', NEW d \in Reqs, Waits(d)', id'[d] \in replied'
               PROVE  UnderWay(d)'
    BY Zenon
  <2>1. NotGivenUp /\ d # c
    BY <1>1, <1>3, <1>5 DEF NotGivenUp
  <2> QED
    <3>1. Waits(d) /\ id[d] \in replied
      BY SMTT(40), <1>1, <1>4, <2>1
    <3>2. UnderWay(d)
      BY ZenonT(40), <2>1, <3>1 DEF FinalInv
    <3> QED
      BY ZenonT(40), <1>4, <2>1, <3>2
<1>a. \A d \in Reqs : status'[d] = "502" => status[d] = "502"
  BY Zenon, <1>2 DEF TypeOK
<1>b. \A d \in Reqs : status'[d] = "502" /\ body'[d] = None => childExited'
  BY ZenonT(40), <1>1, <1>a DEF FinalInv, childExited
<1>7. FinalAnswerWins'
  BY <1>1, <1>3, <1>4, <1>5, <1>a DEF FinalInv, FinalAnswerWins
<1>8. \A d \in Reqs : pc'[d] = "reply" => body'[d] # None
  BY Zenon, <1>1, <1>2 DEF FinalInv, TypeOK
<1> QED
  BY Zenon, <1>1, <1>3, <1>6, <1>7, <1>8, <1>b DEF FinalInv, NotGivenUp, PipesHeld

\* The 502 case of the second select: with the pipes drained, nothing of the
\* child's is under way, so an empty channel means it never answered.
LEMMA FinalExited ==
  ASSUME TypeOK, FinalInv, NEW c \in Reqs, pc[c] = "select", chan[c] = None, Return(c, "502"),
         childExited,
         UNCHANGED <<id, body, stdout, replied, nextInternalID, watcher, reader, alive, holder>>
  PROVE  FinalInv'
<1>1. /\ pc' = [pc EXCEPT ![c] = "done"] /\ status' = [status EXCEPT ![c] = "502"]
      /\ chan' = [chan EXCEPT ![c] = None]
  BY Zenon DEF Return
<1>2. \A d \in Reqs : Waits(d)' => Waits(d) /\ id'[d] = id[d] /\ chan'[d] = chan[d]
  BY Zenon, <1>1 DEF Waits, TypeOK
<1>3. \A d \in Reqs : pc'[d] = "reply" => body'[d] # None
  BY Zenon, <1>1 DEF FinalInv, TypeOK
<1>4. ASSUME watcher = "drained" PROVE id[c] \notin replied
  <2>1. NotGivenUp /\ reader.pc = "done" /\ stdout = <<>>
    BY ZenonT(40), <1>4 DEF FinalInv, NotGivenUp
  <2>2. ~UnderWay(c)
    <3>1. 1..Len(<<>>) = {}
      OBVIOUS
    <3> QED
      BY Zenon, <2>1, <3>1 DEF UnderWay
  <2>3. 0 \notin replied
    BY DEF FinalInv
  <2> QED
    BY Zenon, <2>1, <2>2, <2>3 DEF FinalInv, Waits
<1>5. FinalAnswerWins'
  <2>1. \A d \in Reqs : d # c => status'[d] = status[d]
    BY Zenon, <1>1 DEF TypeOK
  <2> QED
    BY Zenon, <1>4, <2>1 DEF FinalInv, FinalAnswerWins
<1>6. ASSUME NotGivenUp, NEW d \in Reqs, Waits(d)', id'[d] \in replied
      PROVE  UnderWay(d)'
  <2>1. Waits(d) /\ id'[d] = id[d] /\ chan'[d] = chan[d]
    BY Zenon, <1>2, <1>6
  <2>2. UnderWay(d)
    BY Zenon, <1>6, <2>1 DEF FinalInv
  <2> QED
    BY Zenon, <2>1, <2>2 DEF UnderWay
<1> QED
  BY Zenon, <1>3, <1>5, <1>6 DEF FinalInv, NotGivenUp, PipesHeld, childExited

\* The reader takes a line off stdout: it is still under way, in the reader's hands.
LEMMA FinalScan ==
  ASSUME TypeOK, PendingInv, FinalInv, Scan
  PROVE  FinalInv'
<1>1. /\ UNCHANGED <<pc, id, body, status, chan, replied, nextInternalID, watcher, alive, holder>>
      /\ reader.pc = "scan" /\ stdout \in Seq(Line) /\ stdout # <<>> /\ stdout' = Tail(stdout)
  BY DEF Scan, ReaderSame, handlerVars, muxVars, lifeVars, TypeOK
<1>2. /\ Len(stdout) > 0 /\ 1 \in 1..Len(stdout) /\ Head(stdout) = stdout[1]
      /\ Len(stdout') = Len(stdout) - 1
      /\ \A i \in 1..Len(stdout') : stdout'[i] = stdout[i + 1] /\ i + 1 \in 1..Len(stdout)
      /\ \A i \in 1..Len(stdout) : i = 1 \/ (i - 1 \in 1..Len(stdout') /\ stdout'[i - 1] = stdout[i])
  BY <1>1
<1>3. Head(stdout).kind # "huge"
  BY <1>2 DEF FinalInv
<1>4. reader' = IF Head(stdout).id \in DOMAIN pending
                THEN [pc |-> "send", line |-> Head(stdout), to |-> pending[Head(stdout).id]]
                ELSE reader
  BY Zenon, <1>3 DEF Scan
<1>5. \A i \in 1..Len(stdout') : stdout'[i].kind # "huge"
  BY <1>2 DEF FinalInv
<1>6. ASSUME NotGivenUp, NEW d \in Reqs, Waits(d), id[d] \in replied
      PROVE  UnderWay(d)'
  <2>1. UnderWay(d)
    BY Zenon, <1>6 DEF FinalInv
  <2>2. CASE chan[d] # None
    BY Zenon, <1>1, <2>2 DEF UnderWay
  <2>3. CASE \E i \in 1..Len(stdout) : stdout[i].id = id[d]
    <3> PICK i \in 1..Len(stdout) : stdout[i].id = id[d]
      BY Zenon, <2>3
    <3>1. CASE i = 1
      <4>1. id[d] \in DOMAIN pending /\ pending[id[d]] = d
        BY Zenon, <1>6 DEF PendingInv, PendingIsInFlight, InFlight, Waits
      <4> QED
        BY Zenon, <1>2, <1>4, <3>1, <4>1 DEF UnderWay
    <3>2. CASE i # 1
      <4>1. i - 1 \in 1..Len(stdout') /\ stdout'[i - 1].id = id'[d]
        BY Zenon, <1>1, <1>2, <3>2
      <4> QED
        BY Zenon, <4>1 DEF UnderWay
    <3> QED
      BY Zenon, <3>1, <3>2
  <2> QED
    BY Zenon, <1>1, <2>1, <2>2, <2>3 DEF UnderWay
<1>7. reader'.pc # "done" /\ watcher # "drained"
  BY Zenon, <1>1, <1>4 DEF FinalInv
<1>8. FinalAnswerWins'
  BY Zenon, <1>1 DEF FinalInv, FinalAnswerWins
<1> QED
  BY Zenon, <1>1, <1>5, <1>6, <1>7, <1>8 DEF FinalInv, NotGivenUp, Waits, childExited

\* The reader hands its line over, or finds another one in the channel already.
LEMMA FinalSend ==
  ASSUME TypeOK, PendingInv, FinalInv, Send
  PROVE  FinalInv'
<1>1. /\ UNCHANGED <<pc, id, body, status, stdout, replied, nextInternalID, watcher, alive, holder>>
      /\ reader.pc = "send" /\ reader'.pc = "scan"
      /\ reader.line \in Line /\ reader.to \in Reqs /\ chan \in [Reqs -> Line \cup {None}]
  BY Zenon DEF Send, ReaderSame, handlerVars, muxVars, lifeVars, TypeOK
<1>2. \A d \in Reqs : chan[d] # None => chan'[d] # None
  BY Zenon, <1>1 DEF Send
<1>3. pc[reader.to] # "done" => chan'[reader.to] # None
  BY Zenon, <1>1, NoneAssumption DEF Send
<1>4. ASSUME NotGivenUp, NEW d \in Reqs, Waits(d), id[d] \in replied
      PROVE  UnderWay(d)'
  <2>1. UnderWay(d) /\ pc[d] # "done"
    BY Zenon, <1>4 DEF FinalInv, Waits
  <2> QED
    BY Zenon, <1>1, <1>2, <1>3, <2>1 DEF UnderWay
<1>5. watcher # "drained"
  BY Zenon, <1>1 DEF FinalInv
<1>6. FinalAnswerWins'
  BY Zenon, <1>1 DEF FinalInv, FinalAnswerWins
<1> QED
  BY Zenon, <1>1, <1>4, <1>5, <1>6 DEF FinalInv, NotGivenUp, Waits, childExited

\* The watcher, Stop, the exits and the end of the reader lose no line.
LEMMA FinalLife ==
  ASSUME TypeOK, FinalInv,
         \/ ReadEnd \/ Reap \/ Drain \/ DrainTimeout \/ Stop \/ Kill \/ StopReturn
         \/ ChildExits \/ DescendantExits \/ ChildReads \/ UNCHANGED vars
  PROVE  FinalInv'
<1> USE DEF handlerVars, muxVars, sessionVars, lifeVars, childVars
<1>1. UNCHANGED <<pc, id, body, status, chan, stdout, replied, nextInternalID>>
  BY ZenonT(30) DEF ReadEnd, ReaderSame, Reap, Drain, DrainTimeout, Stop, Kill, StopReturn, JobClose, LifeSame,
              ChildExits, DescendantExits, ChildReads, ChildSame, vars
<1>2. PipesHeld' => PipesHeld
  BY ZenonT(30) DEF ReadEnd, ReaderSame, Reap, Drain, DrainTimeout, Stop, Kill, StopReturn, JobClose, LifeSame,
              ChildExits, DescendantExits, ChildReads, ChildSame, vars, PipesHeld
<1>3. \/ reader' = reader
      \/ /\ reader.pc = "scan" /\ reader'.pc = "done" /\ watcher' = watcher
         /\ childExited \/ (~PipesHeld /\ stdout = <<>>)
  BY Zenon DEF ReadEnd, ReaderSame, Reap, Drain, DrainTimeout, Stop, Kill, StopReturn, JobClose, LifeSame,
              ChildExits, DescendantExits, ChildReads, ChildSame, vars, TypeOK
<1>4. \/ watcher' = watcher \/ (watcher = "wait" /\ watcher' = "drain")
      \/ watcher = "drain" /\ watcher' \in {"aborted", "timedOut"}
      \/ watcher = "drain" /\ watcher' = "drained" /\ Drained
  BY DEF ReadEnd, ReaderSame, Reap, Drain, DrainTimeout, Stop, Kill, StopReturn, JobClose, LifeSame,
              ChildExits, DescendantExits, ChildReads, ChildSame, vars
<1>5. NotGivenUp' => NotGivenUp
  BY Zenon, <1>4 DEF NotGivenUp
<1>6. ASSUME NotGivenUp', NEW d \in Reqs, Waits(d)', id'[d] \in replied' PROVE UnderWay(d)'
  <2>1. UnderWay(d)
    BY Zenon, <1>1, <1>5, <1>6 DEF FinalInv, Waits
  <2>2. reader.pc = "send" => reader' = reader
    BY <1>3
  <2> QED
    BY Zenon, <1>1, <2>1, <2>2 DEF UnderWay
<1>7. ASSUME NotGivenUp', reader'.pc = "done" PROVE ~PipesHeld' /\ stdout' = <<>>
  <2>1. CASE reader' = reader
    BY Zenon, <1>1, <1>2, <1>5, <1>7, <2>1 DEF FinalInv
  <2>2. CASE childExited /\ watcher' = watcher /\ reader.pc = "scan"
    BY Zenon, <1>5, <1>7, <2>2 DEF FinalInv, childExited, NotGivenUp
  <2>3. CASE ~PipesHeld /\ stdout = <<>>
    BY Zenon, <1>1, <1>2, <2>3
  <2> QED
    BY Zenon, <1>3, <2>1, <2>2, <2>3
<1>8. ASSUME watcher' = "drained" PROVE reader'.pc = "done" /\ ~PipesHeld'
  BY Zenon, <1>2, <1>3, <1>4, <1>8 DEF FinalInv, Drained
<1>9. FinalAnswerWins'
  <2>1. CASE watcher' = watcher
    BY Zenon, <1>1, <2>1 DEF FinalInv, FinalAnswerWins
  <2>2. CASE watcher' # watcher
    <3>1. ~childExited
      BY Zenon, <1>4, <2>2 DEF childExited
    <3> QED
      BY Zenon, <1>1, <3>1 DEF FinalInv, FinalAnswerWins
  <2> QED
    BY Zenon, <2>1, <2>2
<1>10. childExited => childExited'
  BY Zenon, <1>4 DEF childExited
<1> QED
  BY Zenon, <1>1, <1>6, <1>7, <1>8, <1>9, <1>10 DEF FinalInv

\* The child writes a line that is not over the scanner's buffer: it must still
\* hold the pipes, so the watcher has not seen them drained.
LEMMA FinalLine ==
  ASSUME TypeOK, FinalInv, PipesHeld, NEW line \in Line, line.kind # "huge",
         stdout' = Append(stdout, line),
         replied' \subseteq 1..nextInternalID, replied' \subseteq replied \cup {line.id},
         UNCHANGED <<pc, id, body, status, chan, nextInternalID, watcher, reader, alive, holder>>
  PROVE  FinalInv'
<1>1. stdout \in Seq(Line)
  BY Zenon DEF TypeOK
<1>2. /\ Len(stdout') = Len(stdout) + 1 /\ Len(stdout) \in Nat
      /\ Len(stdout') \in 1..Len(stdout') /\ stdout'[Len(stdout')] = line
      /\ \A i \in 1..Len(stdout) : stdout'[i] = stdout[i] /\ i \in 1..Len(stdout')
      /\ \A i \in 1..Len(stdout') : i = Len(stdout') \/ i \in 1..Len(stdout)
  <2>1. stdout' = Append(stdout, line) /\ Len(stdout) \in Nat
    BY <1>1
  <2>2. Len(stdout') = Len(stdout) + 1 /\ stdout'[Len(stdout) + 1] = line
    BY <1>1, <2>1
  <2>3. \A i \in 1..Len(stdout) : stdout'[i] = stdout[i]
    BY <1>1, <2>1
  <2>4. \A n \in Nat : n + 1 \in 1..(n + 1) /\ \A i \in 1..(n + 1) : i = n + 1 \/ i \in 1..n
    OBVIOUS
  <2>5. \A i \in 1..Len(stdout) : i \in 1..(Len(stdout) + 1)
    BY <2>1
  <2> QED
    BY ZenonT(40), <2>1, <2>2, <2>3, <2>4, <2>5
<1>3. \A i \in 1..Len(stdout') : stdout'[i].kind # "huge"
  BY <1>2 DEF FinalInv
<1>4. ASSUME NotGivenUp, NEW d \in Reqs, Waits(d), id[d] \in replied' PROVE UnderWay(d)'
  <2>1. CASE id[d] \in replied
    <3>1. UnderWay(d)
      BY Zenon, <1>4, <2>1 DEF FinalInv
    <3> QED
      BY Zenon, <1>2, <3>1 DEF UnderWay
  <2>2. CASE id[d] = line.id
    BY Zenon, <1>2, <2>2 DEF UnderWay
  <2> QED
    BY ZenonT(40), <1>4, <2>1, <2>2
<1>5. watcher # "drained" /\ ~(NotGivenUp /\ reader.pc = "done")
  BY Zenon DEF FinalInv
<1>6. FinalAnswerWins'
  BY Zenon, <1>5 DEF FinalAnswerWins
<1> QED
  BY Zenon, <1>3, <1>4, <1>5, <1>6 DEF FinalInv, NotGivenUp, Waits, childExited

\* Every step keeps an answer that was given under way, if no line is too long.
LEMMA FinalStep ==
  ASSUME "huge" \notin Answers
  PROVE  TypeOK /\ PendingInv /\ RouteInv /\ FinalInv /\ [Next]_vars => FinalInv'
<1> SUFFICES ASSUME TypeOK, PendingInv, RouteInv, FinalInv, [Next]_vars PROVE FinalInv'
  BY Zenon
<1> USE DEF handlerVars, muxVars, sessionVars, lifeVars, childVars
<1>1. ASSUME NEW c \in Reqs, NEW s \in 0..nextSessionSeq, Receive(c, s) PROVE FinalInv'
  <2>1. /\ UNCHANGED <<id, stdout, replied, nextInternalID, watcher, reader, alive, holder>>
        /\ id[c] = 0
    BY Zenon, <1>1 DEF Receive, PendingInv, IdInv
  <2>2. \/ \E x : Return(c, x) /\ x # "502" /\ UNCHANGED body
        \/ Goto(c, "reply") /\ UNCHANGED chan /\ initCached # None
           /\ body' = [body EXCEPT ![c] = initCached]
        \/ \E l : Goto(c, l) /\ l # "reply" /\ UNCHANGED <<body, chan>>
    BY Zenon, <1>1 DEF Receive
  <2> QED
    BY Zenon, <2>1, <2>2, FinalReturn, FinalToReply, FinalGoto
<1>2. ASSUME NEW c \in Reqs, Register(c) PROVE FinalInv'
  BY Zenon, <1>2, FinalRegister
<1>3. ASSUME NEW c \in Reqs, Write(c) PROVE FinalInv'
  <2>1. UNCHANGED <<id, body, stdout, replied, nextInternalID, watcher, reader, alive, holder>>
        /\ pc[c] = "write"
    BY ZenonT(40), <1>3 DEF Write
  <2>2. \/ \E x : Return(c, x) /\ x # "502"
        \/ Goto(c, "peek") /\ UNCHANGED chan
    BY <1>3 DEF Write
  <2> QED
    BY Zenon, <2>1, <2>2, FinalReturn, FinalGoto
<1>4. ASSUME NEW c \in Reqs,
             \/ Peek(c) \/ SelectReply(c) \/ SelectDone(c) \/ SelectExited(c)
             \/ SelectCancel(c) \/ SelectTimeout(c)
      PROVE  FinalInv'
  <2>1. UNCHANGED <<id, stdout, replied, nextInternalID, watcher, reader, alive, holder>>
    BY ZenonT(40), <1>4 DEF Peek, SelectReply, SelectDone, SelectExited, SelectCancel,
                SelectTimeout, Waiting
  <2>2. \/ Take(c)
        \/ \E x : Return(c, x) /\ x # "502" /\ UNCHANGED body
        \/ /\ Return(c, "502") /\ UNCHANGED body
           /\ pc[c] = "select" /\ chan[c] = None /\ childExited
        \/ pc[c] = "peek" /\ Goto(c, "select") /\ UNCHANGED <<body, chan>>
    BY Zenon, <1>4 DEF Peek, SelectReply, SelectDone, SelectExited, SelectCancel, SelectTimeout
  <2>3. CASE Take(c)
    BY ZenonT(40), <2>1, <2>3, FinalToReply DEF Take
  <2> QED
    BY Zenon, <2>1, <2>2, <2>3, FinalReturn, FinalExited, FinalGoto
<1>5. ASSUME NEW c \in Reqs, Reply(c) PROVE FinalInv'
  <2>1. /\ UNCHANGED <<id, body, stdout, replied, nextInternalID, watcher, reader, alive, holder>>
        /\ pc[c] = "reply" /\ \E x : Return(c, x)
    BY Zenon, <1>5 DEF Reply
  <2>2. body[c] # None
    BY Zenon, <2>1 DEF FinalInv
  <2> QED
    BY Zenon, <2>1, <2>2, FinalReturn
<1>6. ASSUME NEW c \in Reqs, Subscribe(c) \/ UndoSubscribe(c) \/ Unsubscribe(c)
      PROVE  FinalInv'
  <2>1. UNCHANGED <<id, body, stdout, replied, nextInternalID, watcher, reader, alive, holder>>
    BY Zenon, <1>6 DEF Subscribe, UndoSubscribe, Unsubscribe, SseSame
  <2>2. \/ \E x : Return(c, x) /\ x # "502"
        \/ \E l \in {"undo", "stream"} : Goto(c, l) /\ UNCHANGED chan
    BY <1>6 DEF Subscribe, UndoSubscribe, Unsubscribe
  <2> QED
    BY Zenon, <2>1, <2>2, FinalReturn, FinalGoto
<1>7. CASE Scan \/ Send
  BY Zenon, <1>7, FinalScan, FinalSend
<1>8. CASE \/ ReadEnd \/ Reap \/ Drain \/ DrainTimeout \/ Stop \/ Kill \/ StopReturn
           \/ ChildExits \/ DescendantExits \/ ChildReads \/ UNCHANGED vars
  BY Zenon, <1>8, FinalLife
<1>9. ASSUME NEW m \in work, NEW a \in Answers, ChildAnswers(m, a) PROVE FinalInv'
  <2> DEFINE line == [id |-> m.id, kind |-> a, to |-> m.from]
  <2>1. /\ UNCHANGED <<pc, id, body, status, chan, nextInternalID, watcher, reader, alive, holder>>
        /\ PipesHeld /\ stdout' = Append(stdout, line) /\ replied' = replied \cup {m.id}
    BY Zenon, <1>9 DEF ChildAnswers, ChildSame
  <2>2. line \in Line /\ line.kind # "huge" /\ line.id = m.id
    BY ZenonT(40), StdioAssumption DEF TypeOK, Message, Line
  <2>3. m.id \in 1..nextInternalID
    BY SMTT(40) DEF TypeOK, Message, RouteInv, WorkRouted, PendingInv, IdInv
  <2>4. replied' \subseteq 1..nextInternalID
    BY ZenonT(40), <2>1, <2>3 DEF FinalInv
  <2> HIDE DEF line
  <2> QED
    BY Zenon, <2>1, <2>2, <2>4, FinalLine
<1>10. ASSUME NEW line \in Unsolicited, ChildSpeaks(line) PROVE FinalInv'
  <2>1. /\ UNCHANGED <<pc, id, body, status, chan, nextInternalID, watcher, reader, alive, holder, replied>>
        /\ PipesHeld /\ stdout' = Append(stdout, line)
    BY Zenon, <1>10 DEF ChildSpeaks, ChildSame
  <2>2. line \in Line /\ line.kind # "huge"
    BY ZenonT(40), UnsolicitedType DEF Unsolicited
  <2>3. replied \subseteq 1..nextInternalID
    BY DEF FinalInv
  <2> QED
    BY Zenon, <2>1, <2>2, <2>3, FinalLine
<1> QED
  BY ZenonT(40), <1>1, <1>2, <1>3, <1>4, <1>5, <1>6, <1>7, <1>8, <1>9, <1>10 DEF Next

\* If no line is over the scanner's buffer, an answer given before the child
\* exited is never turned into a 502 once the pipes have drained.
THEOREM FinalAnswerWinsHolds ==
  ASSUME "huge" \notin Answers
  PROVE  Spec => []FinalAnswerWins
<1>1. FinalInv => FinalAnswerWins
  BY DEF FinalInv
<1>2. TypeOK /\ PendingInv /\ RouteInv /\ FinalInv /\ [Next]_vars => FinalInv'
  BY FinalStep
<1> QED
  BY <1>1, <1>2, TypeInit, TypeStep, PendingInit, PendingStep, RouteInit, RouteStep,
     FinalInit, PTL DEF Spec
=============================================================================
