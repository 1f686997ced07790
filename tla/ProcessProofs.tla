----------------------------- MODULE ProcessProofs -----------------------------
(***************************************************************************)
(* What holds of the start-up, the console, the channel and the raft       *)
(* worker of Process for every configuration and every machine, every      *)
(* capacity of the channel and every number of lines.                      *)
(***************************************************************************)
EXTENDS Process, SequenceTheorems, WellFoundedInduction, TLAPS

SeqTypes ==
    /\ accepted \in Seq(Line) /\ handled \in Seq(Line) /\ ch \in Seq(Line)
    /\ out \in Seq(Line) /\ hand \in Seq(Line)

\* Who holds a line, and when.
HolderInv ==
    /\ con # "send" => out = <<>>
    /\ worker # "busy" => hand = <<>>

\* Nothing of the console or the worker runs before main has started it.
StartedInv ==
    /\ con # "off" => step \in {"run", "wait", "done"}
    /\ worker # "off" => step \in {"wait", "done"}
    /\ step = "done" => worker = "returned"

\* Why the raft worker returned, and who closes what.
EndInv ==
    /\ worker = "returned" => stop \/ (~chOpen /\ ch = <<>>)
    /\ ~chOpen => con = "returned"
    /\ host = "stopped" => con = "returned"
    /\ con = "stopping" /\ worker = "off" => early
    /\ con = "stop host" \/ host = "stopped" => worker = "returned" \/ early

\* LinesInOrder alone is not inductive: that a line is in nobody's hands
\* when it is taken or sent has to be known with it.
ProcInv == SeqTypes /\ LinesInOrder /\ HolderInv /\ StartedInv /\ EndInv

-------------------------------------------------------------------------------
(***************************************************************************)
(* A line moves from one sequence to the next and their concatenation      *)
(* stays what it was.                                                      *)
(***************************************************************************)

\* Send: the line in out goes to the end of ch; p is what precedes ch.
LEMMA SentAfter ==
    ASSUME NEW S, NEW p \in Seq(S), NEW c \in Seq(S), NEW o \in Seq(S)
    PROVE  p \o (c \o o) \o <<>> = p \o c \o o
<1>1. (p \o c) \o o = p \o (c \o o)
  BY ConcatAssociative, SMTT(60)
<1>2. p \o (c \o o) \in Seq(S)
  BY ConcatProperties
<1> QED
  BY <1>1, <1>2, ConcatEmptySeq

LEMMA SentKeepsOrder ==
    ASSUME NEW S, NEW h \in Seq(S), NEW a \in Seq(S), NEW c \in Seq(S), NEW o \in Seq(S)
    PROVE  h \o a \o (c \o o) \o <<>> = h \o a \o c \o o
<1>1. h \o a \in Seq(S)
  BY ConcatProperties
<1> QED
  BY <1>1, SentAfter

\* WorkerTakes: the head of ch goes into an empty hand.
LEMMA TakenKeepsOrder ==
    ASSUME NEW S, NEW h \in Seq(S), NEW c \in Seq(S), NEW o \in Seq(S), c # <<>>
    PROVE  /\ h \o <<Head(c)>> \o Tail(c) \o o = h \o <<>> \o c \o o
           /\ Append(h, Head(c)) \o <<>> \o Tail(c) \o o = h \o <<>> \o c \o o
<1>1. Head(c) \in S /\ Tail(c) \in Seq(S) /\ <<Head(c)>> \in Seq(S)
  BY HeadTailProperties
<1>2. <<Head(c)>> \o Tail(c) = c
  BY <1>1, HeadTailProperties
<1>3. (h \o <<Head(c)>>) \o Tail(c) = h \o (<<Head(c)>> \o Tail(c))
  BY <1>1, ConcatAssociative
<1>4. h \o <<>> = h
  BY ConcatEmptySeq
<1>5. Append(h, Head(c)) = h \o <<Head(c)>>
  BY <1>1, AppendIsConcat
<1>6. h \o <<Head(c)>> \in Seq(S)
  BY <1>1, ConcatProperties
<1>7. (h \o <<Head(c)>>) \o <<>> = h \o <<Head(c)>>
  BY <1>6, ConcatEmptySeq
<1> QED
  BY <1>2, <1>3, <1>4, <1>5, <1>7

\* ReadLine: the line is accepted and in an empty out.
LEMMA ReadKeepsOrder ==
    ASSUME NEW S, NEW h \in Seq(S), NEW a \in Seq(S), NEW c \in Seq(S), NEW s \in S
    PROVE  Append(h \o a \o c \o <<>>, s) = h \o a \o c \o <<s>>
<1>1. h \o a \o c \in Seq(S)
  BY ConcatProperties
<1>2. h \o a \o c \o <<>> = h \o a \o c
  BY <1>1, ConcatEmptySeq
<1> QED
  BY <1>1, <1>2, AppendIsConcat

-------------------------------------------------------------------------------
LEMMA InitProc == Init => ProcInv
<1> SUFFICES ASSUME Init PROVE ProcInv
  OBVIOUS
<1>1. SeqTypes
  BY DEF Init, SeqTypes
<1>2. LinesInOrder
  BY ConcatEmptySeq DEF Init, LinesInOrder
<1> QED
  BY <1>1, <1>2 DEF Init, ProcInv, HolderInv, StartedInv, EndInv

\* main, until it waits for the raft worker and returns.
LEMMA StartUpKeepsInv == ProcInv /\ StartUp => ProcInv'
<1> SUFFICES ASSUME ProcInv, StartUp PROVE ProcInv'
  OBVIOUS
<1> USE DEF ProcInv, givenVars, startVars, conVars, workerVars
<1>1. UNCHANGED <<accepted, handled, ch, out, hand, chOpen, stop, early>>
  BY DEF StartUp, LoadConfig, Identify, ConnectNats, NewNodeHost, StartOnDiskCluster,
         RunConsole, RunRaftWorker, MainReturns
<1>2. SeqTypes' /\ LinesInOrder'
  BY <1>1 DEF SeqTypes, LinesInOrder
<1>3. CASE LoadConfig
  BY <1>2, <1>3 DEF LoadConfig, HolderInv, StartedInv, EndInv
<1>4. CASE Identify
  <2>1. step = "network" /\ step' \in {"exit 1", "nats"} /\ UNCHANGED <<con, worker, host>>
    BY <1>4 DEF Identify
  <2> QED
    BY <1>1, <1>2, <2>1 DEF HolderInv, StartedInv, EndInv
<1>5. CASE ConnectNats
  BY <1>2, <1>5 DEF ConnectNats, HolderInv, StartedInv, EndInv
<1>6. CASE NewNodeHost
  BY <1>2, <1>6 DEF NewNodeHost, HolderInv, StartedInv, EndInv
<1>7. CASE StartOnDiskCluster
  BY <1>2, <1>7 DEF StartOnDiskCluster, HolderInv, StartedInv, EndInv
<1>8. CASE RunConsole
  BY <1>2, <1>8 DEF RunConsole, HolderInv, StartedInv, EndInv
<1>9. CASE RunRaftWorker
  BY <1>2, <1>9 DEF RunRaftWorker, HolderInv, StartedInv, EndInv
<1>10. CASE MainReturns
  BY <1>2, <1>10 DEF MainReturns, HolderInv, StartedInv, EndInv
<1> QED
  BY <1>3, <1>4, <1>5, <1>6, <1>7, <1>8, <1>9, <1>10 DEF StartUp

\* What the user types.
LEMMA UserKeepsInv == ProcInv /\ User => ProcInv'
<1> SUFFICES ASSUME ProcInv, User PROVE ProcInv'
  OBVIOUS
<1> USE DEF ProcInv, givenVars, startVars, conVars, workerVars
<1>1. CASE EndOfInput
  <2>1. SeqTypes' /\ LinesInOrder'
    BY <1>1 DEF EndOfInput, SeqTypes, LinesInOrder
  <2> QED
    BY <1>1, <2>1 DEF EndOfInput, Serving, HolderInv, StartedInv, EndInv
<1>2. CASE ReadExit
  <2>1. SeqTypes' /\ LinesInOrder'
    BY <1>2 DEF ReadExit, SeqTypes, LinesInOrder
  <2> QED
    BY <1>2, <2>1 DEF ReadExit, Serving, HolderInv, StartedInv, EndInv
<1>3. CASE ReadLine
  <2>1. PICK s \in Line : out' = <<s>> /\ accepted' = Append(accepted, s)
    BY <1>3 DEF ReadLine
  <2>2. con = "read" /\ con' = "send" /\ UNCHANGED <<startVars, early, workerVars, ch, chOpen, stop, host>>
    BY <1>3 DEF ReadLine
  <2>3. SeqTypes'
    BY <2>1, <2>2, AppendProperties DEF SeqTypes
  <2>4. out = <<>>
    BY <2>2 DEF HolderInv
  <2>5. LinesInOrder'
    BY <2>1, <2>2, <2>4, ReadKeepsOrder DEF LinesInOrder, SeqTypes
  <2> QED
    BY <2>2, <2>3, <2>5 DEF HolderInv, StartedInv, EndInv
<1> QED
  BY <1>1, <1>2, <1>3 DEF User

\* The console goroutine on its own.
LEMMA ConsoleKeepsInv == ProcInv /\ Console => ProcInv'
<1> SUFFICES ASSUME ProcInv, Console PROVE ProcInv'
  OBVIOUS
<1> USE DEF ProcInv, givenVars, startVars, conVars, workerVars
<1>1. CASE Send
  <2>1. /\ con = "send" /\ con' = "read" /\ ch' = ch \o out /\ out' = <<>>
        /\ UNCHANGED <<startVars, accepted, early, workerVars, chOpen, stop, host>>
    BY <1>1 DEF Send
  <2>2. SeqTypes'
    BY <2>1, ConcatProperties DEF SeqTypes
  <2>3. handled \o hand \o (ch \o out) \o <<>> = handled \o hand \o ch \o out
    <3>1. /\ handled \in Seq(Line) /\ hand \in Seq(Line)
          /\ ch \in Seq(Line) /\ out \in Seq(Line)
      BY DEF SeqTypes
    <3> QED
      BY ONLY <3>1, SentKeepsOrder, SMTT(60)
  <2>4. LinesInOrder'
    BY <2>1, <2>3 DEF LinesInOrder
  <2> QED
    BY <2>1, <2>2, <2>4 DEF HolderInv, StartedInv, EndInv
<1>2. CASE StopReturns
  <2>1. SeqTypes' /\ LinesInOrder'
    BY <1>2 DEF StopReturns, SeqTypes, LinesInOrder
  <2> QED
    BY <1>2, <2>1 DEF StopReturns, HolderInv, StartedInv, EndInv
<1>3. CASE StopHost
  <2>1. SeqTypes' /\ LinesInOrder'
    BY <1>3 DEF StopHost, SeqTypes, LinesInOrder
  <2> QED
    BY <1>3, <2>1 DEF StopHost, HolderInv, StartedInv, EndInv
<1> QED
  BY <1>1, <1>2, <1>3 DEF Console

\* The raft worker.
LEMMA WorkerKeepsInv == ProcInv /\ Worker => ProcInv'
<1> SUFFICES ASSUME ProcInv, Worker PROVE ProcInv'
  OBVIOUS
<1> USE DEF ProcInv, givenVars, startVars, conVars, workerVars
<1>1. CASE WorkerTakes
  <2>1. /\ worker = "select" /\ ch # <<>> /\ ch' = Tail(ch) /\ hand = <<>>
        /\ UNCHANGED <<startVars, conVars, chOpen, stop, host>>
    BY <1>1 DEF WorkerTakes, HolderInv
  <2>2. \/ hand' = <<Head(ch)>> /\ worker' = "busy" /\ handled' = handled
        \/ handled' = Append(handled, Head(ch)) /\ hand' = hand /\ worker' = worker
    BY <1>1 DEF WorkerTakes
  <2>3. Head(ch) \in Line /\ Tail(ch) \in Seq(Line) /\ <<Head(ch)>> \in Seq(Line)
    BY <2>1, HeadTailProperties DEF SeqTypes
  <2>4. Append(handled, Head(ch)) \in Seq(Line)
    BY <2>3, AppendProperties DEF SeqTypes
  <2>5. SeqTypes'
    BY <2>1, <2>2, <2>3, <2>4 DEF SeqTypes
  <2>6. /\ handled \o <<Head(ch)>> \o Tail(ch) \o out = handled \o <<>> \o ch \o out
        /\ Append(handled, Head(ch)) \o <<>> \o Tail(ch) \o out = handled \o <<>> \o ch \o out
    <3>1. handled \in Seq(Line) /\ ch \in Seq(Line) /\ out \in Seq(Line) /\ ch # <<>>
      BY <2>1 DEF SeqTypes
    <3> QED
      BY ONLY <3>1, TakenKeepsOrder, SMTT(60)
  <2>7. LinesInOrder'
    BY <2>1, <2>2, <2>6 DEF LinesInOrder
  <2> QED
    BY <2>1, <2>2, <2>5, <2>7 DEF HolderInv, StartedInv, EndInv
<1>2. CASE WorkerFinishes
  <2>1. /\ worker = "busy" /\ worker' = "select" /\ hand' = <<>> /\ handled' = handled \o hand
        /\ UNCHANGED <<startVars, conVars, ch, chOpen, stop, host>>
    BY <1>2 DEF WorkerFinishes
  <2>2. handled \o hand \in Seq(Line)
    BY ConcatProperties DEF SeqTypes
  <2>3. SeqTypes'
    BY <2>1, <2>2 DEF SeqTypes
  <2>4. LinesInOrder'
    BY <2>1, <2>2, ConcatEmptySeq DEF LinesInOrder
  <2> QED
    BY <2>1, <2>3, <2>4 DEF HolderInv, StartedInv, EndInv
<1>3. CASE WorkerSeesClose
  <2>1. SeqTypes' /\ LinesInOrder'
    BY <1>3 DEF WorkerSeesClose, SeqTypes, LinesInOrder
  <2> QED
    BY <1>3, <2>1 DEF WorkerSeesClose, HolderInv, StartedInv, EndInv
<1>4. CASE WorkerSeesStop
  <2>1. SeqTypes' /\ LinesInOrder'
    BY <1>4 DEF WorkerSeesStop, SeqTypes, LinesInOrder
  <2> QED
    BY <1>4, <2>1 DEF WorkerSeesStop, HolderInv, StartedInv, EndInv
<1> QED
  BY <1>1, <1>2, <1>3, <1>4 DEF Worker

\* The inductive invariant of the console and the raft worker.
THEOREM ProcessInvariance == Spec => []ProcInv
<1>1. ProcInv /\ [Next]_vars => ProcInv'
  <2> SUFFICES ASSUME ProcInv, [Next]_vars PROVE ProcInv'
    OBVIOUS
  <2>1. CASE UNCHANGED vars
    BY <2>1 DEF vars, givenVars, startVars, conVars, workerVars, ProcInv, SeqTypes,
                LinesInOrder, HolderInv, StartedInv, EndInv
  <2> QED
    BY <2>1, StartUpKeepsInv, UserKeepsInv, ConsoleKeepsInv, WorkerKeepsInv DEF Next
<1> QED
  BY <1>1, InitProc, PTL DEF Spec

\* No line is lost, doubled or overtaken between the console and the raft
\* worker, whatever the capacity of the channel (main.go 511-523, 647-690).
THEOREM NoLineIsLost == Spec => []LinesInOrder
<1>1. ProcInv => LinesInOrder
  BY DEF ProcInv
<1> QED
  BY <1>1, ProcessInvariance, PTL

\* A process that ends without exit has run every command it was given.
THEOREM InputIsDrained == Spec => []EndOfInputDrains
<1>1. ProcInv => EndOfInputDrains
  <2> SUFFICES ASSUME ProcInv, step = "done", ~stop PROVE handled = accepted
    BY DEF EndOfInputDrains
  <2>1. ch = <<>> /\ hand = <<>> /\ out = <<>>
    BY DEF ProcInv, StartedInv, EndInv, HolderInv
  <2> QED
    BY <2>1, ConcatEmptySeq DEF ProcInv, LinesInOrder, SeqTypes
<1> QED
  BY <1>1, ProcessInvariance, PTL

\* No command runs on a stopped node host, unless exit was typed before
\* the raft worker was started (main.go 518-519).
THEOREM HostIsStoppedLast == Spec => []HostOutlivesCommands
<1>1. ProcInv => HostOutlivesCommands
  BY DEF ProcInv, EndInv, HostOutlivesCommands
<1> QED
  BY <1>1, ProcessInvariance, PTL

-------------------------------------------------------------------------------
(***************************************************************************)
(* Types: the sequences are in SeqTypes.                                   *)
(***************************************************************************)
\* Every nonempty set of natural numbers has a least element.
LEMMA LeastNat ==
    ASSUME NEW T, T \subseteq Nat, T # {}
    PROVE  \E m \in T : \A k \in T : m <= k
<1> DEFINE R == OpToRel(<, Nat)
<1>1. IsWellFoundedOn(R, Nat)
  BY NatLessThanWellFounded
<1>2. \E x \in T : \A y \in T : ~ (<<y, x>> \in R)
  <2> HIDE DEF R
  <2> QED
    BY <1>1, WFMin
<1>3. \A x, y \in Nat : x < y => <<x, y>> \in R
  BY DEF OpToRel
<1> HIDE DEF R
<1>4. PICK x \in T : \A y \in T : ~ (<<y, x>> \in R)
  BY <1>2
<1>5. ASSUME NEW k \in T
      PROVE  x <= k
  <2>1. x \in Nat /\ k \in Nat
    OBVIOUS
  <2>2. ~ (k < x)
    BY <1>3, <1>4, <2>1
  <2> QED
    BY <2>1, <2>2
<1> QED
  BY <1>5

\* The number a node finds is that of an address that matches, or 0.
LEMMA NodeNumberMatches ==
    ASSUME NEW mine, NEW byName, NEW found
    PROVE  \/ NodeNumber(mine, byName, found) = 0
           \/ /\ NodeNumber(mine, byName, found) \in 1..N
              /\ Matches(Addresses[NodeNumber(mine, byName, found)], mine, byName, found)
<1> DEFINE hits == {i \in 1..N : Matches(Addresses[i], mine, byName, found)}
<1>1. NodeNumber(mine, byName, found) = IF hits = {} THEN 0 ELSE Min(hits)
  BY DEF NodeNumber
<1>2. ASSUME hits # {} PROVE Min(hits) \in hits
  <2>1. hits \subseteq Nat
    OBVIOUS
  <2> HIDE DEF hits
  <2>2. \E x \in hits : \A y \in hits : x <= y
    BY <1>2, <2>1, LeastNat
  <2> QED
    BY <2>2 DEF Min
<1> QED
  BY <1>1, <1>2

PlaceTypes ==
    /\ machine \in Machines /\ useHostname \in BOOLEAN
    /\ flags \in [nodeid : 0..(N + 1), addr : {NoAddr, Addresses[1]}, join : BOOLEAN]
    /\ step \in {"config", "network", "nats", "host", "cluster", "services", "run",
                 "wait", "done"} \cup Failed
    /\ nodeID \in 0..(N + 1)
    /\ con \in {"off", "read", "send", "stopping", "stop host", "returned"}
    /\ worker \in {"off", "select", "busy", "returned"}
    /\ host \in {"none", "up", "stopped"}
    /\ {chOpen, stop, early} \subseteq BOOLEAN

\* A command is in out one at a time, so that Send leaves at most Cap of
\* them in the channel.
BoundInv == Len(out) <= 1 /\ Len(ch) <= Cap

LEMMA NIsNat == N \in Nat
  BY ProcessAssumption DEF N

LEMMA NodeNumberType ==
    ASSUME NEW mine, NEW byName, NEW found
    PROVE  NodeNumber(mine, byName, found) \in 0..(N + 1)
<1> DEFINE id == NodeNumber(mine, byName, found)
<1>1. id = 0 \/ id \in 1..N
  BY NodeNumberMatches
<1> HIDE DEF id
<1>2. id \in 0..(N + 1)
  BY <1>1, NIsNat
<1> QED
  BY <1>2 DEF id

LEMMA InitPlaces == Init => PlaceTypes
<1> SUFFICES ASSUME Init PROVE PlaceTypes
  OBVIOUS
<1>1. 0 \in 0..(N + 1)
  BY NIsNat
<1>2. nodeID \in 0..(N + 1) /\ {chOpen, stop, early} \subseteq BOOLEAN
  BY <1>1 DEF Init
<1> QED
  BY <1>2 DEF Init, PlaceTypes

LEMMA PlacesKept == PlaceTypes /\ [Next]_vars => PlaceTypes'
<1> SUFFICES ASSUME PlaceTypes, [Next]_vars PROVE PlaceTypes'
  OBVIOUS
<1> USE DEF PlaceTypes, givenVars, startVars, conVars, workerVars
<1>1. CASE UNCHANGED vars
  BY <1>1, ZenonT(60) DEF vars
<1>2. CASE LoadConfig
  BY <1>2 DEF LoadConfig, Failed
<1>3. CASE Identify
  <2>1. PICK mine, found :
            LET id == IF flags.nodeid = 0 /\ ~flags.join
                      THEN NodeNumber(mine, useHostname, found) ELSE flags.nodeid
            IN  nodeID' = id
    BY <1>3 DEF Identify
  <2>2. NodeNumber(mine, useHostname, found) \in 0..(N + 1)
    BY ONLY NodeNumberType
  <2>3. nodeID' \in 0..(N + 1)
    BY <2>1, <2>2
  <2>4. /\ step' \in {"exit 1", "nats"}
        /\ UNCHANGED <<givenVars, conVars, workerVars, ch, chOpen, stop, host>>
    BY <1>3 DEF Identify
  <2> QED
    BY <2>3, <2>4 DEF Failed
<1>4. CASE ConnectNats
  BY <1>4, ZenonT(60) DEF ConnectNats, Failed
<1>5. CASE NewNodeHost
  BY <1>5 DEF NewNodeHost, Failed
<1>6. CASE StartOnDiskCluster
  BY <1>6 DEF StartOnDiskCluster, Failed
<1>7. CASE RunConsole
  BY <1>7 DEF RunConsole
<1>8. CASE RunRaftWorker
  BY <1>8 DEF RunRaftWorker
<1>9. CASE MainReturns
  BY <1>9 DEF MainReturns
<1>10. CASE EndOfInput
  BY <1>10 DEF EndOfInput
<1>11. CASE ReadExit
  BY <1>11 DEF ReadExit
<1>12. CASE ReadLine
  BY <1>12 DEF ReadLine
<1>13. CASE Console
  BY <1>13 DEF Console, Send, StopReturns, StopHost
<1>14. CASE WorkerTakes
  BY <1>14 DEF WorkerTakes
<1>15. CASE WorkerFinishes \/ WorkerSeesClose \/ WorkerSeesStop
  BY <1>15 DEF WorkerFinishes, WorkerSeesClose, WorkerSeesStop
<1> QED
  BY <1>1, <1>2, <1>3, <1>4, <1>5, <1>6, <1>7, <1>8, <1>9, <1>10, <1>11, <1>12, <1>13,
     <1>14, <1>15 DEF Next, StartUp, User, Worker

LEMMA BoundKept == SeqTypes /\ BoundInv /\ [Next]_vars => BoundInv'
<1> SUFFICES ASSUME SeqTypes, BoundInv, [Next]_vars PROVE BoundInv'
  OBVIOUS
<1> USE DEF BoundInv, SeqTypes, givenVars, startVars, conVars, workerVars
<1>1. CASE UNCHANGED <<out, ch>>
  BY <1>1
<1>2. CASE ReadLine
  <2>1. PICK s \in Line : out' = <<s>>
    BY <1>2 DEF ReadLine
  <2> QED
    BY <1>2, <2>1 DEF ReadLine
<1>3. CASE Send
  <2>1. Len(ch) < Cap /\ ch' = ch \o out /\ out' = <<>>
    BY <1>3 DEF Send
  <2>2. Len(ch \o out) = Len(ch) + Len(out) /\ Len(ch) \in Nat /\ Len(out) \in Nat
    BY ConcatProperties
  <2>3. Len(ch \o out) <= Cap
    BY <2>1, <2>2, ProcessAssumption
  <2> QED
    BY <2>1, <2>3
<1>4. CASE WorkerTakes
  <2>1. ch # <<>> /\ ch' = Tail(ch) /\ out' = out
    BY <1>4 DEF WorkerTakes
  <2>2. Len(Tail(ch)) = Len(ch) - 1 /\ Len(ch) \in Nat
    BY <2>1, HeadTailProperties
  <2> QED
    BY <2>1, <2>2, ProcessAssumption
<1>5. CASE StartUp
  BY <1>1, <1>5 DEF StartUp, LoadConfig, Identify, ConnectNats, NewNodeHost,
                    StartOnDiskCluster, RunConsole, RunRaftWorker, MainReturns
<1>6. CASE EndOfInput \/ ReadExit \/ StopReturns \/ StopHost
  BY <1>1, <1>6 DEF EndOfInput, ReadExit, StopReturns, StopHost
<1>7. CASE WorkerFinishes \/ WorkerSeesClose \/ WorkerSeesStop
  BY <1>1, <1>7 DEF WorkerFinishes, WorkerSeesClose, WorkerSeesStop
<1> QED
  BY <1>1, <1>2, <1>3, <1>4, <1>5, <1>6, <1>7 DEF Next, User, Console, Worker, vars

\* Every variable keeps its type, and the channel never holds more than
\* its capacity, at every step of every process.
THEOREM ProcessTypes == Spec => []TypeOK
<1>1. Init => PlaceTypes
  BY InitPlaces
<1>2. Init => BoundInv
  BY ProcessAssumption DEF Init, BoundInv
<1>3. PlaceTypes /\ SeqTypes /\ BoundInv => TypeOK
  <2> SUFFICES ASSUME PlaceTypes, SeqTypes, BoundInv PROVE TypeOK
    OBVIOUS
  <2>1. flags.nodeid \in 0..(N + 1)
    BY DEF PlaceTypes
  <2> QED
    BY <2>1 DEF PlaceTypes, SeqTypes, BoundInv, TypeOK
<1>4. ProcInv => SeqTypes
  BY DEF ProcInv
<1> QED
  BY <1>1, <1>2, <1>3, <1>4, PlacesKept, BoundKept, ProcessInvariance, PTL DEF Spec

-------------------------------------------------------------------------------
(***************************************************************************)
(* Who a process runs as.                                                  *)
(***************************************************************************)
Identified == step \in {"nats", "host", "cluster", "services", "run", "wait", "done"}

\* What each step of main has made sure of.  Where the node found its number
\* itself, its address matched one of the machine's own.
IdentityInv ==
    /\ Identified /\ flags.addr = NoAddr =>
          /\ nodeID \in 1..N /\ nodeAddr = PeerAddr(nodeID)
          /\ flags.nodeid = 0 /\ ~flags.join =>
                Matches(Addresses[nodeID], publicIPs(machine), useHostname, DOMAIN LookupIP)
    /\ step \in {"cluster", "services", "run", "wait", "done"} => nodeAddr # NoAddr
    /\ step \in {"services", "run", "wait", "done"} => nodeID # 0

\* What matches part of the machine's addresses matches all of them.
LEMMA MatchesMore ==
    ASSUME NEW v, NEW byName,
           NEW mine, NEW found, NEW mine2, NEW found2,
           mine \subseteq mine2, found \subseteq found2, Matches(v, mine, byName, found)
    PROVE  Matches(v, mine2, byName, found2)
  BY DEF Matches

LEMMA IdentityKept == PlaceTypes /\ IdentityInv /\ [Next]_vars => IdentityInv'
<1> SUFFICES ASSUME PlaceTypes, IdentityInv, [Next]_vars PROVE IdentityInv'
  OBVIOUS
<1> USE DEF givenVars, startVars, conVars, workerVars
<1>1. CASE UNCHANGED <<givenVars, nodeID, nodeAddr>> /\ step' = step
  BY <1>1 DEF IdentityInv, Identified, PeerAddr
<1>2. CASE LoadConfig
  BY <1>2 DEF LoadConfig, IdentityInv, Identified
<1>3. CASE Identify
  <2> DEFINE own == publicIPs(machine)
             names == DOMAIN LookupIP
  <2>0. UNCHANGED givenVars
    BY <1>3 DEF Identify
  <2>1. PICK mine \in {own, {}}, found \in {names, {}} :
            /\ nodeID' = IF flags.nodeid = 0 /\ ~flags.join
                         THEN NodeNumber(mine, useHostname, found) ELSE flags.nodeid
            /\ nodeAddr' = IF flags.addr # NoAddr THEN flags.addr ELSE PeerAddr(nodeID')
            /\ step' = IF flags.addr = NoAddr /\ (nodeID' = 0 \/ nodeID' > N)
                       THEN "exit 1" ELSE "nats"
    <3>1. PICK mine \in {own, {}}, found \in {names, {}} :
              LET id == IF flags.nodeid = 0 /\ ~flags.join
                        THEN NodeNumber(mine, useHostname, found) ELSE flags.nodeid
              IN  /\ nodeID' = id
                  /\ nodeAddr' = IF flags.addr # NoAddr THEN flags.addr ELSE PeerAddr(id)
                  /\ step' = IF flags.addr = NoAddr /\ (id = 0 \/ id > N)
                             THEN "exit 1" ELSE "nats"
      BY <1>3 DEF Identify
    <3> QED
      BY <3>1
  <2>2. step' \in {"exit 1", "nats"}
    BY <2>1
  <2>3. ASSUME Identified', flags.addr = NoAddr
        PROVE  /\ nodeID' \in 1..N /\ nodeAddr' = PeerAddr(nodeID')
               /\ flags.nodeid = 0 /\ ~flags.join =>
                     Matches(Addresses[nodeID'], own, useHostname, names)
    <3>1. step' # "exit 1"
      BY <2>3 DEF Identified
    <3>2. nodeID' # 0 /\ ~ (nodeID' > N) /\ nodeAddr' = PeerAddr(nodeID')
      BY <2>1, <2>3, <3>1
    <3>3. NodeNumber(mine, useHostname, found) \in 0..(N + 1) /\ flags.nodeid \in 0..(N + 1)
      BY NodeNumberType DEF PlaceTypes
    <3>4. nodeID' \in 0..(N + 1)
      BY <2>1, <3>3
    <3>5. nodeID' \in 1..N
      BY <3>2, <3>4, NIsNat
    <3>6. ASSUME flags.nodeid = 0, ~flags.join
          PROVE  Matches(Addresses[nodeID'], own, useHostname, names)
      <4>1. nodeID' = NodeNumber(mine, useHostname, found)
        BY <2>1, <3>6
      <4>2. Matches(Addresses[nodeID'], mine, useHostname, found)
        BY <3>2, <4>1, NodeNumberMatches
      <4>3. mine \subseteq own /\ found \subseteq names
        OBVIOUS
      <4> HIDE DEF own, names
      <4> QED
        BY <4>2, <4>3, MatchesMore
    <3> QED
      BY <3>2, <3>5, <3>6
  <2>4. PeerAddr(nodeID)' = PeerAddr(nodeID')
    BY <2>0 DEF PeerAddr
  <2> QED
    BY <2>0, <2>2, <2>3, <2>4 DEF IdentityInv
<1>4. CASE ConnectNats
  BY <1>4 DEF ConnectNats, IdentityInv, Identified, PeerAddr
<1>5. CASE NewNodeHost
  BY <1>5 DEF NewNodeHost, IdentityInv, Identified, PeerAddr
<1>6. CASE StartOnDiskCluster
  BY <1>6 DEF StartOnDiskCluster, IdentityInv, Identified, PeerAddr
<1>7. CASE RunConsole
  BY <1>7 DEF RunConsole, IdentityInv, Identified, PeerAddr
<1>8. CASE RunRaftWorker
  BY <1>8 DEF RunRaftWorker, IdentityInv, Identified, PeerAddr
<1>9. CASE MainReturns
  BY <1>9 DEF MainReturns, IdentityInv, Identified, PeerAddr
<1>10. CASE User \/ Console \/ Worker
  BY <1>1, <1>10 DEF User, EndOfInput, ReadExit, ReadLine, Console, Send, StopReturns, StopHost,
                     Worker, WorkerTakes, WorkerFinishes, WorkerSeesClose, WorkerSeesStop
<1> QED
  BY <1>1, <1>2, <1>3, <1>4, <1>5, <1>6, <1>7, <1>8, <1>9, <1>10 DEF Next, StartUp, vars

LEMMA IdentityInvariance == Spec => []IdentityInv
<1>1. Init => PlaceTypes
  BY InitPlaces
<1>2. Init => IdentityInv
  BY DEF Init, IdentityInv, Identified
<1> QED
  BY <1>1, <1>2, PlacesKept, IdentityKept, PTL DEF Spec

\* Nothing is started under a number or an address nobody has, whatever
\* the flags and whatever the list of addresses (main.go 414-441).
THEOREM NobodyServesWithoutIdentity == Spec => []ServesWithIdentity
<1>1. IdentityInv => ServesWithIdentity
  <2> SUFFICES ASSUME IdentityInv, Serving PROVE
                   /\ nodeID # 0 /\ nodeAddr # NoAddr
                   /\ flags.addr = NoAddr => ~flags.join /\ nodeID <= N
    BY DEF ServesWithIdentity
  <2>1. nodeID # 0 /\ nodeAddr # NoAddr
    BY DEF Serving, IdentityInv
  <2>2. ASSUME flags.addr = NoAddr PROVE ~flags.join /\ nodeID <= N
    <3>1. nodeID \in 1..N /\ nodeAddr = PeerAddr(nodeID)
      BY <2>2 DEF Serving, IdentityInv, Identified
    <3>2. ~flags.join
      BY <2>1, <3>1 DEF PeerAddr
    <3> QED
      BY <3>1, <3>2, NIsNat
  <2> QED
    BY <2>1, <2>2
<1> QED
  BY <1>1, IdentityInvariance, PTL

\* A process that finds its number itself runs under the number its peers
\* have for an address of this machine, on every machine and for every list
\* of addresses none of which begins with one of its IPs by accident
\* (main.go 414-436).
THEOREM EveryoneRunsAsItself == Spec => []RunsAsItself
<1>1. IdentityInv /\ ServesWithIdentity => RunsAsItself
  <2> SUFFICES ASSUME IdentityInv, ServesWithIdentity,
                      Serving, flags.nodeid = 0, flags.addr = NoAddr, PrefixFree
               PROVE  /\ nodeAddr = Addresses[nodeID]
                      /\ \/ nodeAddr \in publicIPs(machine)
                         \/ useHostname /\ LookupIP[nodeAddr] \cap publicIPs(machine) # {}
    BY DEF RunsAsItself
  <2>1. ~flags.join
    BY DEF ServesWithIdentity
  <2>2. /\ nodeID \in 1..N /\ nodeAddr = PeerAddr(nodeID)
        /\ Matches(Addresses[nodeID], publicIPs(machine), useHostname, DOMAIN LookupIP)
    BY <2>1 DEF Serving, IdentityInv, Identified
  <2>3. nodeAddr = Addresses[nodeID]
    BY <2>1, <2>2 DEF PeerAddr
  <2>4. PICK ip \in publicIPs(machine) :
            \/ HasPrefix(Addresses[nodeID], ip)
            \/ /\ useHostname /\ Addresses[nodeID] \in DOMAIN LookupIP
               /\ ip \in LookupIP[Addresses[nodeID]]
    BY <2>2 DEF Matches
  <2>5. CASE HasPrefix(Addresses[nodeID], ip)
    BY <2>2, <2>3, <2>5 DEF PrefixFree
  <2>6. CASE useHostname /\ ip \in LookupIP[Addresses[nodeID]]
    BY <2>3, <2>6
  <2> QED
    BY <2>3, <2>4, <2>5, <2>6
<1> QED
  BY <1>1, IdentityInvariance, NobodyServesWithoutIdentity, PTL

===============================================================================
