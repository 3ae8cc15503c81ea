----------------------------- MODULE StdioHost -----------------------------
(***************************************************************************)
(* The stdio host of internal/daemon/host.go: many HTTP clients share one  *)
(* child MCP server that speaks JSON-RPC over its stdin and stdout.        *)
(*                                                                         *)
(* The goroutines are one handler for each HTTP request, the stdout reader *)
(* (readStdoutLoop), the watcher started by start (Process.Wait, the       *)
(* bounded drain, close of childExited) and the caller of Stop.  They meet *)
(* in the pending map, the reply channels of capacity one, the session     *)
(* table and the channels done, procExited and childExited.  The child and *)
(* the descendant that may inherit its pipes are the environment: they     *)
(* read when they like, answer in any order, twice, late or never, send    *)
(* requests and notifications of their own, and exit at any moment.        *)
(*                                                                         *)
(* A payload is the request it answers; ids, sessions and channels are     *)
(* kept as the code keeps them.  A session id is its sequence number.      *)
(***************************************************************************)
EXTENDS Integers, Sequences, FiniteSets, Functions

CONSTANTS
    Reqs,           \* the HTTP requests, one handler each
    None,           \* no request, no line
    Kinds,          \* what the clients send in this instance
    Answers,        \* the shapes a child's answer takes in this instance
    ServerIds,      \* the ids the child puts on requests of its own
    MaxPending,     \* maxPendingRequests
    MaxSessions,    \* maxStdioHTTPSessions
    MaxSubscribers, \* maxSSESubscribers
    StdinCapacity,  \* messages the stdin pipe holds
    MaxUnsolicited, \* bound: requests and notifications the child sends
    Faults          \* what may go wrong in this instance

AllKinds == {"initialize", "call", "notification", "delete", "sse"}

\* "ok": a result (with a supported version, if it answers initialize);
\* "unsupported": an initialize result with another version; "error": a
\* JSON-RPC error; "huge": a line longer than the scanner's 1 MB buffer.
AllAnswers == {"ok", "unsupported", "error", "huge"}

\* Stop is called; the child exits; a descendant inherits the pipes; the child
\* answers a message twice.
AllFaults == {"stop", "exit", "descendant", "repeat"}

ASSUME StdioAssumption ==
    /\ None \notin Reqs
    /\ Kinds \subseteq AllKinds
    /\ Answers \subseteq AllAnswers
    /\ ServerIds \subseteq Nat \ {0}
    /\ MaxPending \in Nat \ {0}
    /\ MaxSessions \in Nat \ {0}
    /\ MaxSubscribers \in Nat
    /\ StdinCapacity \in Nat \ {0}
    /\ MaxUnsolicited \in Nat
    /\ Faults \subseteq AllFaults

VARIABLES
    pc,             \* where each handler is
    kind,           \* what its request is
    id,             \* its internal id, 0 before it has one
    body,           \* the line it answers its client with
    status,         \* the HTTP outcome it wrote
    session,        \* the session it created or deleted
    chan,           \* its respCh (capacity 1), or an SSE subscriber's channel
    nextInternalID,
    pending,        \* internal id -> handler
    initCached,     \* the bridge's initialize answer
    sessions,       \* live sessions, by sequence number
    nextSessionSeq,
    sseActive,
    stopped,        \* set by Stop together with close(done) and stdin.Close
    stopper,        \* where Stop is; h.mu is held from its start to its return
    watcher,        \* where the watcher is
    reader,         \* the stdout reader: [pc, line, to]
    alive,          \* the child process runs
    holder,         \* a descendant runs that inherited the pipes
    stdin,          \* messages written and not yet read by the child
    work,           \* messages the child has read and may (still) answer
    stdout,         \* lines written and not yet read by the reader
    replied,        \* ids the child has answered with a readable line
    unsolicited     \* lines the child sent on its own account

handlerVars == <<pc, kind, id, body, status, session>>
muxVars == <<nextInternalID, pending>>
sessionVars == <<sessions, nextSessionSeq, sseActive>>
lifeVars == <<stopped, stopper, watcher>>
childVars == <<alive, holder, work, stdout, replied, unsolicited>>
vars == <<handlerVars, chan, muxVars, initCached, sessionVars, lifeVars,
          reader, childVars, stdin>>

Message == [id : Nat, from : Reqs]
Line == [id : Nat, kind : AllAnswers \cup {"request", "notification"},
         to : Reqs \cup {None}]

\* nil is no line.
ASSUME NoneAssumption == None \notin Line

\* A line of the child that answers a message, whatever its outcome.
IsAnswer(line) == line.kind \in AllAnswers

\* close(procExited) and close(childExited); done is closed when stopped.
procExited == watcher # "wait"
childExited == watcher \in {"drained", "aborted", "timedOut"}

\* Whether some process still has the child's ends of the pipes open.
PipesHeld == alive \/ holder

Init ==
    /\ pc = [c \in Reqs |-> "idle"]
    /\ kind \in [Reqs -> Kinds]
    /\ id = [c \in Reqs |-> 0]
    /\ body = [c \in Reqs |-> None]
    /\ status = [c \in Reqs |-> "none"]
    /\ session = [c \in Reqs |-> 0]
    /\ chan = [c \in Reqs |-> None]
    /\ nextInternalID = 0
    /\ pending = [i \in {} |-> None]
    /\ initCached = None
    /\ sessions = {}
    /\ nextSessionSeq = 0
    /\ sseActive = 0
    /\ stopped = FALSE
    /\ stopper = "idle"
    /\ watcher = "wait"
    /\ reader = [pc |-> "scan", line |-> None, to |-> None]
    /\ alive = TRUE
    /\ holder \in {h \in BOOLEAN : h => "descendant" \in Faults}
    /\ stdin = <<>>
    /\ work = {}
    /\ stdout = <<>>
    /\ replied = {}
    /\ unsolicited = 0

-----------------------------------------------------------------------------
(* The request handlers. *)

\* Mutant of Return: the deferred delete is missing.
ReturnKeepsEntry(c, s) ==
    /\ pc' = [pc EXCEPT ![c] = "done"]
    /\ status' = [status EXCEPT ![c] = s]
    /\ chan' = [chan EXCEPT ![c] = None]
    /\ UNCHANGED pending

\* The handler writes its HTTP status and returns: the deferred delete
\* removes its entry from pending, and nobody reads its channel any more.
Return(c, s) ==
    /\ pc' = [pc EXCEPT ![c] = "done"]
    /\ status' = [status EXCEPT ![c] = s]
    /\ pending' = Restrict(pending, DOMAIN pending \ {id[c]})
    /\ chan' = [chan EXCEPT ![c] = None]

Goto(c, l) ==
    /\ pc' = [pc EXCEPT ![c] = l]
    /\ UNCHANGED <<status, pending>>

\* HTTPHandler up to the point where the request needs the child: the checks
\* on method, type, size, JSON, version and session (refused with a 4xx), the
\* bridge's own refusal of a synthetic tool (here too), DELETE, and the cached
\* initialize answer.  s is the session the request names; 0 is none.
Receive(c, s) ==
    /\ pc[c] = "idle"
    /\ \/ Return(c, "refused") /\ UNCHANGED <<sessions, session, body>>
       \/ /\ kind[c] = "delete" /\ s \in sessions
          /\ sessions' = sessions \ {s}
          /\ session' = [session EXCEPT ![c] = s]
          /\ Return(c, "deleted") /\ UNCHANGED body
       \/ /\ kind[c] = "initialize" /\ initCached # None
          /\ body' = [body EXCEPT ![c] = initCached]
          /\ Goto(c, "reply") /\ UNCHANGED <<sessions, session, chan>>
       \/ /\ \/ kind[c] = "initialize" /\ initCached = None
             \/ kind[c] = "call" /\ s \in sessions
          /\ Goto(c, "register") /\ UNCHANGED <<sessions, session, body, chan>>
       \/ /\ kind[c] = "notification" /\ s \in sessions
          /\ Goto(c, "write") /\ UNCHANGED <<sessions, session, body, chan>>
       \/ /\ kind[c] = "sse" /\ s \in sessions
          /\ Goto(c, "subscribe") /\ UNCHANGED <<sessions, session, body, chan>>
    /\ UNCHANGED <<kind, id, nextInternalID, initCached, nextSessionSeq,
                   sseActive, lifeVars, reader, childVars, stdin>>

\* nextInternalID.Add, then the cap check and the insert under pendingMu.  A
\* refused request has used up its id.
Register(c) ==
    /\ pc[c] = "register"
    /\ nextInternalID' = nextInternalID + 1
    /\ id' = [id EXCEPT ![c] = nextInternalID']
    /\ \/ /\ Cardinality(DOMAIN pending) >= MaxPending
          /\ pc' = [pc EXCEPT ![c] = "done"]
          /\ status' = [status EXCEPT ![c] = "refused"]
          /\ UNCHANGED pending
       \/ /\ Cardinality(DOMAIN pending) < MaxPending
          /\ pc' = [pc EXCEPT ![c] = "write"]
          /\ pending' = [i \in DOMAIN pending \cup {nextInternalID'} |->
                            IF i = nextInternalID' THEN c ELSE pending[i]]
          /\ UNCHANGED status
    /\ UNCHANGED <<kind, body, session, chan, initCached, sessionVars,
                   lifeVars, reader, childVars, stdin>>

\* writeStdin: an error once the pipe is closed at either end; otherwise it
\* blocks, holding stdinMu, until the message fits.
Write(c) ==
    /\ pc[c] = "write"
    /\ \/ /\ stopped \/ ~PipesHeld
          /\ Return(c, "500") /\ UNCHANGED stdin
       \/ /\ ~stopped /\ PipesHeld /\ Len(stdin) < StdinCapacity
          /\ stdin' = Append(stdin, [id |-> id[c], from |-> c])
          /\ \/ kind[c] = "notification" /\ Return(c, "accepted")
             \/ kind[c] # "notification" /\ Goto(c, "peek") /\ UNCHANGED chan
    /\ UNCHANGED <<kind, id, body, session, nextInternalID, initCached,
                   sessionVars, lifeVars, reader, childVars>>

\* Mutant of CacheInitialize: the outcome is not looked at.
CacheAnyAnswer(c, line) ==
    initCached' = IF kind[c] = "initialize" /\ initCached = None THEN line ELSE initCached

\* cacheValidInitializeResponse and CacheInitialize: the first success wins.
CacheInitialize(c, line) ==
    initCached' = IF /\ kind[c] = "initialize" /\ line.kind = "ok"
                     /\ initCached = None
                  THEN line ELSE initCached

\* The handler takes the line out of respCh.
Take(c) ==
    /\ chan[c] # None
    /\ body' = [body EXCEPT ![c] = chan[c]]
    /\ chan' = [chan EXCEPT ![c] = None]
    /\ Goto(c, "reply")

\* What every step of a waiting handler leaves alone.
Waiting == UNCHANGED <<kind, id, session, nextInternalID, sessionVars,
                       lifeVars, reader, childVars, stdin>>

\* The first, non-blocking select.
Peek(c) ==
    /\ pc[c] = "peek"
    /\ \/ Take(c) /\ CacheInitialize(c, chan[c])
       \/ /\ chan[c] = None
          /\ Goto(c, "select") /\ UNCHANGED <<body, chan, initCached>>
    /\ Waiting

\* The second select, one action for each of its cases.
SelectReply(c) ==
    /\ pc[c] = "select"
    /\ Take(c) /\ CacheInitialize(c, chan[c])
    /\ Waiting

\* done and childExited look at respCh once more before they give up.
SelectDone(c) ==
    /\ pc[c] = "select" /\ stopped
    /\ \/ Take(c)
       \/ chan[c] = None /\ Return(c, "503") /\ UNCHANGED body
    /\ Waiting /\ UNCHANGED initCached

\* Mutant of SelectExited: respCh is not looked at again.
SelectExitedAtOnce(c) ==
    /\ pc[c] = "select" /\ childExited
    /\ Return(c, "502") /\ UNCHANGED body
    /\ Waiting /\ UNCHANGED initCached

SelectExited(c) ==
    /\ pc[c] = "select" /\ childExited
    /\ \/ Take(c)
       \/ chan[c] = None /\ Return(c, "502") /\ UNCHANGED body
    /\ Waiting /\ UNCHANGED initCached

\* The client's context ends.
SelectCancel(c) ==
    /\ pc[c] = "select"
    /\ Return(c, "408")
    /\ Waiting /\ UNCHANGED <<body, initCached>>

\* stdioToolResponseTimeout.
SelectTimeout(c) ==
    /\ pc[c] = "select"
    /\ Return(c, "504")
    /\ Waiting /\ UNCHANGED <<body, initCached>>

\* Mutant of Oldest: the comparison is the wrong way round.
Newest(S) == CHOOSE s \in S : \A t \in S : s >= t

Oldest(S) == CHOOSE s \in S : \A t \in S : s <= t

\* createSession, under h.mu: at the cap the oldest session makes room.
CreateSession(c) ==
    /\ nextSessionSeq' = nextSessionSeq + 1
    /\ sessions' = (IF Cardinality(sessions) >= MaxSessions
                    THEN sessions \ {Oldest(sessions)}
                    ELSE sessions) \cup {nextSessionSeq'}
    /\ session' = [session EXCEPT ![c] = nextSessionSeq']

MuHeld == stopper \in {"kill", "wait"}

\* Mutant of Reply: createSession does not look at stopped.
ReplyIgnoresStop(c) ==
    /\ pc[c] = "reply"
    /\ \/ /\ kind[c] = "initialize" /\ body[c].kind = "ok"
          /\ CreateSession(c) /\ Return(c, "200")
       \/ /\ kind[c] # "initialize" \/ body[c].kind # "ok"
          /\ Return(c, "200") /\ UNCHANGED <<session, sessions, nextSessionSeq>>
    /\ UNCHANGED <<kind, id, body, nextInternalID, initCached, sseActive,
                   lifeVars, reader, childVars, stdin>>

\* writeStdioJSONResponse.  createSession fails when the host has stopped, and
\* when no fresh random session id can be had.
Reply(c) ==
    /\ pc[c] = "reply"
    /\ \/ /\ kind[c] = "initialize" /\ body[c].kind = "ok"
          /\ ~MuHeld
          /\ \/ Return(c, "500") /\ UNCHANGED <<session, sessions, nextSessionSeq>>
             \/ ~stopped /\ CreateSession(c) /\ Return(c, "200")
       \/ /\ kind[c] = "initialize" /\ body[c].kind \in {"unsupported", "request"}
          /\ Return(c, "502") /\ UNCHANGED <<session, sessions, nextSessionSeq>>
       \/ /\ kind[c] # "initialize" \/ body[c].kind = "error"
          /\ Return(c, "200") /\ UNCHANGED <<session, sessions, nextSessionSeq>>
    /\ UNCHANGED <<kind, id, body, nextInternalID, initCached, sseActive,
                   lifeVars, reader, childVars, stdin>>

-----------------------------------------------------------------------------
(* GET /mcp: the event stream. *)

SseSame == UNCHANGED <<kind, id, body, session, nextInternalID, initCached,
                       sessions, nextSessionSeq, lifeVars, reader, childVars, stdin>>

\* sseActive.Add(1) > maxSSESubscribers, decided on the value Add returned.
Subscribe(c) ==
    /\ pc[c] = "subscribe"
    /\ sseActive' = sseActive + 1
    /\ Goto(c, IF sseActive' > MaxSubscribers THEN "undo" ELSE "stream")
    /\ SseSame /\ UNCHANGED chan

\* Mutant of UndoSubscribe: a refused client keeps its unit.
UndoKeepsUnit(c) ==
    /\ pc[c] = "undo"
    /\ Return(c, "refused")
    /\ SseSame /\ UNCHANGED sseActive

UndoSubscribe(c) ==
    /\ pc[c] = "undo"
    /\ sseActive' = sseActive - 1
    /\ Return(c, "refused")
    /\ SseSame

\* The loop of handleSSE leaves when the client goes, Stop is called or the
\* child has exited.  Nothing is ever sent on its channel.
Unsubscribe(c) ==
    /\ pc[c] = "stream"
    /\ sseActive' = sseActive - 1
    /\ Return(c, "closed")
    /\ SseSame

-----------------------------------------------------------------------------
(* readStdoutLoop. *)

ReaderSame == UNCHANGED <<handlerVars, muxVars, initCached, sessionVars,
                          lifeVars, alive, holder, work, replied, unsolicited, stdin>>

\* Mutant of Scan: answers are taken to come in the order of the requests.
ScanInOrder ==
    /\ reader.pc = "scan" /\ stdout # <<>>
    /\ stdout' = Tail(stdout)
    /\ reader' = IF DOMAIN pending = {} THEN reader
                 ELSE [pc |-> "send", line |-> Head(stdout),
                       to |-> pending[CHOOSE i \in DOMAIN pending :
                                         \A j \in DOMAIN pending : i <= j]]
    /\ ReaderSame /\ UNCHANGED chan

\* One Scan.  A line whose id is pending is for that handler; any other line
\* goes to the test channel only.  A line over the buffer ends the loop.
Scan ==
    /\ reader.pc = "scan" /\ stdout # <<>>
    /\ stdout' = Tail(stdout)
    /\ LET line == Head(stdout) IN
       reader' = IF line.kind = "huge" THEN [reader EXCEPT !.pc = "done"]
                 ELSE IF line.id \in DOMAIN pending
                 THEN [pc |-> "send", line |-> line, to |-> pending[line.id]]
                 ELSE reader
    /\ ReaderSame /\ UNCHANGED chan

\* The non-blocking send on the channel found, after pendingMu is released.
Send ==
    /\ reader.pc = "send"
    /\ chan' = IF chan[reader.to] = None /\ pc[reader.to] # "done"
               THEN [chan EXCEPT ![reader.to] = reader.line] ELSE chan
    /\ reader' = [pc |-> "scan", line |-> None, to |-> None]
    /\ ReaderSame /\ UNCHANGED stdout

\* Scan returns false: end of file, or the watcher has closed the read end
\* (lines already in the scanner's buffer may still come out before).
ReadEnd ==
    /\ reader.pc = "scan"
    /\ childExited \/ (~PipesHeld /\ stdout = <<>>)
    /\ reader' = [reader EXCEPT !.pc = "done"]
    /\ ReaderSame /\ UNCHANGED <<chan, stdout>>

-----------------------------------------------------------------------------
(* The watcher goroutine of start, and Stop. *)

LifeSame == UNCHANGED <<handlerVars, chan, muxVars, initCached, nextSessionSeq,
                        sseActive, reader, work, stdout, replied, unsolicited, stdin>>

\* Process.Wait returns and procExited is closed.
Reap ==
    /\ watcher = "wait" /\ ~alive
    /\ watcher' = "drain"
    /\ LifeSame /\ UNCHANGED <<sessions, stopped, stopper, alive, holder>>

\* Both scanners have returned: stderr ends when no process holds the pipes.
Drained == reader.pc = "done" /\ ~PipesHeld

\* The bounded wait for the scanners, then close of the pipes and of
\* childExited.
Drain ==
    /\ watcher = "drain"
    /\ \/ Drained /\ watcher' = "drained"
       \/ stopped /\ watcher' = "aborted"
    /\ LifeSame /\ UNCHANGED <<sessions, stopped, stopper, alive, holder>>

\* Mutant of DrainTimeout: the wait for the scanners has no bound.
DrainUnbounded ==
    /\ watcher = "drain" /\ Drained
    /\ watcher' = "timedOut"
    /\ LifeSame /\ UNCHANGED <<sessions, stopped, stopper, alive, holder>>

\* pipeDrainTimeout.
DrainTimeout ==
    /\ watcher = "drain"
    /\ watcher' = "timedOut"
    /\ LifeSame /\ UNCHANGED <<sessions, stopped, stopper, alive, holder>>

\* Stop takes h.mu, forgets the sessions, closes done and stdin.
Stop ==
    /\ "stop" \in Faults /\ ~stopped
    /\ stopped' = TRUE
    /\ sessions' = {}
    /\ stopper' = "kill"
    /\ LifeSame /\ UNCHANGED <<watcher, alive, holder>>

\* The tree kill, skipped when the child has been reaped; its error is
\* ignored, so it may leave the processes running.
Kill ==
    /\ stopper = "kill"
    /\ stopper' = "wait"
    /\ \/ ~procExited /\ alive' = FALSE /\ holder' = FALSE
       \/ UNCHANGED <<alive, holder>>
    /\ LifeSame /\ UNCHANGED <<sessions, stopped, watcher>>

\* job.Close ends the whole process tree on Windows and nothing elsewhere.
JobClose ==
    \/ alive' = FALSE /\ holder' = FALSE
    \/ UNCHANGED <<alive, holder>>

\* Mutant of StopReturn: Stop waits for childExited without a bound.
StopWaits ==
    /\ stopper = "wait" /\ childExited
    /\ stopper' = "returned"
    /\ JobClose
    /\ LifeSame /\ UNCHANGED <<sessions, stopped, watcher>>

\* Stop returns once childExited is closed, or with an error after a second,
\* and closes the job on its way out.
StopReturn ==
    /\ stopper = "wait"
    /\ stopper' = IF childExited THEN "returned" ELSE "leaked"
    /\ JobClose
    /\ LifeSame /\ UNCHANGED <<sessions, stopped, watcher>>

-----------------------------------------------------------------------------
(* The child and its descendant (external). *)

ChildSame == UNCHANGED <<handlerVars, chan, muxVars, initCached, sessionVars,
                         lifeVars, reader>>

\* A message is read; a notification asks for no answer.
ChildReads ==
    /\ PipesHeld /\ stdin # <<>>
    /\ stdin' = Tail(stdin)
    /\ work' = work \cup {m \in {Head(stdin)} : m.id # 0}
    /\ ChildSame /\ UNCHANGED <<alive, holder, stdout, replied, unsolicited>>

\* An answer, in any order; the child may answer once more later.
ChildAnswers(m, a) ==
    /\ PipesHeld
    /\ stdout' = Append(stdout, [id |-> m.id, kind |-> a, to |-> m.from])
    /\ replied' = IF a = "huge" THEN replied ELSE replied \cup {m.id}
    /\ \/ work' = work \ {m}
       \/ /\ "repeat" \in Faults /\ m.id \notin replied /\ a # "huge"
          /\ UNCHANGED work
    /\ ChildSame /\ UNCHANGED <<alive, holder, unsolicited, stdin>>

\* A request (with an id of the child's choosing) or a notification.
ChildSpeaks(line) ==
    /\ PipesHeld /\ unsolicited < MaxUnsolicited
    /\ stdout' = Append(stdout, line)
    /\ unsolicited' = unsolicited + 1
    /\ ChildSame /\ UNCHANGED <<alive, holder, work, replied, stdin>>

ChildExits ==
    /\ "exit" \in Faults
    /\ alive /\ alive' = FALSE
    /\ ChildSame /\ UNCHANGED <<holder, work, stdout, replied, unsolicited, stdin>>

DescendantExits ==
    /\ ~alive /\ holder /\ holder' = FALSE
    /\ ChildSame /\ UNCHANGED <<alive, work, stdout, replied, unsolicited, stdin>>

Unsolicited ==
    [id : ServerIds, kind : {"request"}, to : {None}] \cup
    [id : {0}, kind : {"notification"}, to : {None}]

-----------------------------------------------------------------------------
Handler(c) ==
    \/ Register(c) \/ Write(c) \/ Peek(c) \/ SelectReply(c) \/ SelectDone(c)
    \/ SelectExited(c) \/ SelectTimeout(c) \/ Reply(c)
    \/ Subscribe(c) \/ UndoSubscribe(c)

Next ==
    \/ \E c \in Reqs :
          \/ \E s \in 0..nextSessionSeq : Receive(c, s)
          \/ Register(c) \/ Write(c) \/ Peek(c)
          \/ SelectReply(c) \/ SelectDone(c) \/ SelectExited(c)
          \/ SelectCancel(c) \/ SelectTimeout(c) \/ Reply(c)
          \/ Subscribe(c) \/ UndoSubscribe(c) \/ Unsubscribe(c)
    \/ Scan \/ Send \/ ReadEnd
    \/ Reap \/ Drain \/ DrainTimeout
    \/ Stop \/ Kill \/ StopReturn
    \/ ChildReads
    \/ \E m \in work, a \in Answers : ChildAnswers(m, a)
    \/ \E line \in Unsolicited : ChildSpeaks(line)
    \/ ChildExits \/ DescendantExits

Spec == Init /\ [][Next]_vars

\* The Go scheduler runs every goroutine that can run, and timers fire.
\* Nothing is assumed of the clients, of the child or of its descendant.
Fairness ==
    /\ \A c \in Reqs : /\ WF_vars(Handler(c))
                       /\ WF_vars((stopped \/ childExited) /\ Unsubscribe(c))
    /\ WF_vars(Scan \/ Send \/ ReadEnd)
    /\ WF_vars(Reap \/ Drain \/ DrainTimeout)
    /\ WF_vars(Kill \/ StopReturn)

FairSpec == Spec /\ Fairness

-----------------------------------------------------------------------------
(* Properties *)

TypeOK ==
    /\ pc \in [Reqs -> {"idle", "register", "write", "peek", "select", "reply",
                        "subscribe", "undo", "stream", "done"}]
    /\ kind \in [Reqs -> AllKinds]
    /\ id \in [Reqs -> Nat]
    /\ body \in [Reqs -> Line \cup {None}]
    /\ status \in [Reqs -> {"none", "refused", "200", "accepted", "deleted", "408",
                            "500", "502", "503", "504", "closed"}]
    /\ session \in [Reqs -> Nat]
    /\ chan \in [Reqs -> Line \cup {None}]
    /\ nextInternalID \in Nat
    /\ DOMAIN pending \subseteq 1..nextInternalID
    /\ \A i \in DOMAIN pending : pending[i] \in Reqs
    /\ initCached \in Line \cup {None}
    /\ nextSessionSeq \in Nat
    /\ sessions \subseteq 1..nextSessionSeq
    /\ sseActive \in Int
    /\ stopped \in BOOLEAN
    /\ stopper \in {"idle", "kill", "wait", "returned", "leaked"}
    /\ watcher \in {"wait", "drain", "drained", "aborted", "timedOut"}
    /\ reader \in [pc : {"scan", "send", "done"}, line : Line \cup {None},
                   to : Reqs \cup {None}]
    /\ reader.pc = "send" => reader.line \in Line /\ reader.to \in Reqs
    /\ alive \in BOOLEAN
    /\ holder \in BOOLEAN
    /\ stdin \in Seq(Message)
    /\ work \subseteq Message
    /\ stdout \in Seq(Line)
    /\ replied \subseteq Nat
    /\ unsolicited \in Nat

\* Between its registration and its return.
InFlight(c) == id[c] # 0 /\ pc[c] \in {"write", "peek", "select", "reply"}

\* The pending map holds exactly the requests in flight, each under its own
\* internal id, and never more than maxPendingRequests of them: an entry that
\* outlived its handler would in the end refuse every request with 429.
PendingIsInFlight ==
    /\ Cardinality(DOMAIN pending) <= MaxPending
    /\ \A i \in DOMAIN pending : InFlight(pending[i]) /\ id[pending[i]] = i
    /\ \A c \in Reqs : InFlight(c) => id[c] \in DOMAIN pending /\ pending[id[c]] = c

\* A client gets the child's answer to its own request and no other's, however
\* late, repeated or out of order the answers come; only initialize may be
\* answered with the one cached initialize answer.
OwnAnswer ==
    \A c \in Reqs : body[c] # None /\ IsAnswer(body[c]) =>
        body[c].to = c \/ (kind[c] = "initialize" /\ body[c] = initCached)

\* The cached answer is a success the child gave to an initialize request.
CacheIsInitialize ==
    initCached # None => initCached.kind = "ok" /\ kind[initCached.to] = "initialize"

\* readStdoutLoop: "The id alone is not enough to classify a message ...:
\* JSON-RPC requests carry an id AND a method".  What a client is answered
\* with is an answer, not a request of the child's own.
AnsweredWithAnswer == \A c \in Reqs : body[c] # None => IsAnswer(body[c])

\* When the pipes drained before childExited was closed, a client is told that
\* the child died (502) only if the child never answered it.
FinalAnswerWins ==
    \A c \in Reqs : status[c] = "502" /\ body[c] = None /\ watcher = "drained" =>
        id[c] \notin replied

\* No session outlives Stop, also when an initialize answer arrives while Stop
\* is under way.
NoSessionAfterStop == stopped => sessions = {}

\* At most maxStdioHTTPSessions sessions, and a session is lost before Stop only
\* when its client deletes it or that many newer ones have been created.
SessionsKept ==
    /\ Cardinality(sessions) <= MaxSessions
    /\ ~stopped => \A s \in 1..nextSessionSeq \ sessions :
          \/ \E c \in Reqs : kind[c] = "delete" /\ status[c] = "deleted" /\ session[c] = s
          \/ nextSessionSeq - s >= MaxSessions

\* The subscriber count is exact at every moment (a refused client gives its
\* unit back), and no more than maxSSESubscribers streams are open.
SubscribersCounted ==
    /\ sseActive = Cardinality({c \in Reqs : pc[c] \in {"undo", "stream"}})
    /\ Cardinality({c \in Reqs : pc[c] = "stream"}) <= MaxSubscribers

\* A dead child is reported on childExited, whoever still holds its pipes.
ExitReported == ~alive ~> childExited

\* A request that has been written to the child is answered one way or the
\* other, and Stop returns.
WrittenReturns ==
    /\ \A c \in Reqs : pc[c] \in {"peek", "select", "reply"} ~> pc[c] = "done"
    /\ stopped ~> stopper \in {"returned", "leaked"}

\* stdioToolResponseTimeout "still caps a truly-wedged child": every request
\* that is received is answered.
EveryRequestReturns ==
    \A c \in Reqs : pc[c] \in {"register", "write"} ~> pc[c] = "done"
=============================================================================
