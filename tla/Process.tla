-------------------------------- MODULE Process --------------------------------
(***************************************************************************)
(* One dcrontab process: main from the flags to the return, the goroutine  *)
(* that reads the console, the goroutine that runs its commands, and the   *)
(* channel between them.                                                   *)
(*                                                                         *)
(* An address of the configuration is its host part: an IP has no colon,   *)
(* so it is a prefix of "host:port" when it is a prefix of host.  Hosts    *)
(* and IPs are sequences of symbols, since a node finds its number by      *)
(* comparing prefixes.  A line is the sequence of its words, as split at   *)
(* single blanks.                                                          *)
(*                                                                         *)
(* The leader worker is in LeaderWorker and Crontab; here it only shares   *)
(* the life of the process.  NATS and dragonboat are external: any call    *)
(* to them may fail.                                                       *)
(***************************************************************************)
EXTENDS Naturals, Sequences, SequencesExt

CONSTANTS
    Addresses,   \* configuration.Addresses
    Machines,    \* the machines: sets of network interfaces
    LookupIP,    \* LookupIP[h]: the IPs the host name h stands for
    Line,        \* the lines, other than exit, a user may type
    Cap,         \* the capacity of ch, 16 in the code
    MaxLines     \* bound: how many lines are typed

ASSUME ProcessAssumption ==
    /\ Cap \in Nat \ {0} /\ MaxLines \in Nat
    /\ Line \subseteq Seq(STRING)
    /\ Addresses \in Seq(Seq(Nat))

VARIABLES
    machine, flags, useHostname,   \* where and how the process was started
    step,       \* where main stands
    ips,        \* what publicIPs returned
    nodeID, nodeAddr,
    con,        \* where the console goroutine stands
    out,        \* the line it is sending: a sequence of at most one line
    ch, chOpen, \* the channel, and whether it is open
    stop,       \* raftStopper's channel is closed
    worker,     \* where the raft worker stands
    hand,       \* the command it works on: a sequence of at most one line
    host,       \* nh
    accepted,   \* history: every line handed to ch <- s
    handled,    \* history: every line the raft worker is done with
    early       \* history: raftStopper.Stop was called before RunWorker

givenVars == <<machine, flags, useHostname>>
startVars == <<step, ips, nodeID, nodeAddr>>
conVars == <<con, out, accepted, early>>
workerVars == <<worker, hand, handled>>
vars == <<givenVars, startVars, conVars, workerVars, ch, chOpen, stop, host>>

N == Len(Addresses)
NoAddr == <<>>
Failed == {"exit 1", "fatal", "panic"}
Serving == step \in {"services", "run", "wait"}

-------------------------------------------------------------------------------
(***************************************************************************)
(* Start-up.                                                               *)
(***************************************************************************)

\* The IPv4 addresses of the interfaces that are up, loopback left out.
publicIPs(m) ==
    {a.ip : a \in {b \in UNION {i.addrs : i \in {j \in m : j.up /\ ~j.loopback}} :
                       b.v4 /\ ~b.loopback}}

HasPrefix(v, ip) == IsPrefix(ip, v)

\* Address v is one of ours: by its text or, if configured, by its name.
\* found: the names net.LookupIP had an answer for.
Matches(v, mine, byName, found) ==
    \E ip \in mine : \/ HasPrefix(v, ip)
                     \/ byName /\ v \in found /\ ip \in LookupIP[v]

NodeNumberFromZero(mine, byName, found) ==
    LET hits == {i \in 1..N : Matches(Addresses[i], mine, byName, found)}
    IN  IF hits = {} THEN 0 ELSE Min(hits) - 1

\* The loop over the addresses sets the number once, at the first match.
NodeNumber(mine, byName, found) ==
    LET hits == {i \in 1..N : Matches(Addresses[i], mine, byName, found)}
    IN  IF hits = {} THEN 0 ELSE Min(hits)

PeerAddrOfAnyone(id) == IF id \in 1..N THEN Addresses[id] ELSE NoAddr

\* peers: every address under its number, and nothing for a node that joins.
PeerAddr(id) == IF ~flags.join /\ id \in 1..N THEN Addresses[id] ELSE NoAddr

\* The configuration is decoded or the process ends.
LoadConfig ==
    /\ step = "config"
    /\ step' \in {"network", "exit 1"}
    /\ UNCHANGED <<givenVars, ips, nodeID, nodeAddr, conVars, workerVars, ch, chOpen, stop, host>>

\* publicIPs, whose error is only printed, and the search for the number;
\* then the refusal of a process with neither an address nor a number.
Identify ==
    /\ step = "network"
    /\ \E mine \in {publicIPs(machine), {}}, found \in {DOMAIN LookupIP, {}} :
          LET id == IF flags.nodeid = 0 /\ ~flags.join
                    THEN NodeNumber(mine, useHostname, found) ELSE flags.nodeid
          IN  /\ ips' = mine
              /\ nodeID' = id
              /\ nodeAddr' = IF flags.addr # NoAddr THEN flags.addr ELSE PeerAddr(id)
              /\ step' = IF flags.addr = NoAddr /\ (id = 0 \/ id > N)
                         THEN "exit 1" ELSE "nats"
    /\ UNCHANGED <<givenVars, conVars, workerVars, ch, chOpen, stop, host>>

\* connect: bad certificates are fatal in it, and an error it returns makes
\* main panic, the address of a field never being nil.
ConnectNats ==
    /\ step = "nats"
    /\ step' \in {"host", "fatal", "panic"}
    /\ UNCHANGED <<givenVars, ips, nodeID, nodeAddr, conVars, workerVars, ch, chOpen, stop, host>>

\* NewNodeHost takes no empty address, and may fail otherwise.
NewNodeHost ==
    /\ step = "host"
    /\ \/ nodeAddr # NoAddr /\ step' = "cluster" /\ host' = "up"
       \/ step' = "panic" /\ UNCHANGED host
    /\ UNCHANGED <<givenVars, ips, nodeID, nodeAddr, conVars, workerVars, ch, chOpen, stop>>

\* StartOnDiskCluster takes no node number 0, and may fail otherwise.
StartOnDiskCluster ==
    /\ step = "cluster"
    /\ \/ nodeID # 0 /\ step' = "services"
       \/ step' = "exit 1"
    /\ UNCHANGED <<givenVars, ips, nodeID, nodeAddr, conVars, workerVars, ch, chOpen, stop, host>>

\* The console goroutine is started, two workers before the one it feeds.
RunConsole ==
    /\ step = "services"
    /\ step' = "run" /\ con' = "read"
    /\ UNCHANGED <<givenVars, ips, nodeID, nodeAddr, out, accepted, early, workerVars,
                   ch, chOpen, stop, host>>

RunRaftWorker ==
    /\ step = "run"
    /\ step' = "wait" /\ worker' = "select"
    /\ UNCHANGED <<givenVars, ips, nodeID, nodeAddr, conVars, hand, handled,
                   ch, chOpen, stop, host>>

\* raftStopper.Wait returns, and main with it: the process is over.
MainReturns ==
    /\ step = "wait" /\ worker = "returned"
    /\ step' = "done"
    /\ UNCHANGED <<givenVars, ips, nodeID, nodeAddr, conVars, workerVars, ch, chOpen, stop, host>>

-------------------------------------------------------------------------------
(***************************************************************************)
(* The console goroutine.                                                  *)
(***************************************************************************)

EndOfInputKeepsChannel ==
    /\ Serving /\ con = "read"
    /\ con' = "returned"
    /\ UNCHANGED <<givenVars, startVars, out, accepted, early, workerVars, ch, chOpen, stop, host>>

\* ReadString fails: a last line without a newline is lost with it.
EndOfInput ==
    /\ Serving /\ con = "read"
    /\ con' = "returned" /\ chOpen' = FALSE
    /\ UNCHANGED <<givenVars, startVars, out, accepted, early, workerVars, ch, stop, host>>

\* The line is exit: raftStopper.Stop closes the stopper's channel and waits.
ReadExit ==
    /\ Serving /\ con = "read"
    /\ con' = "stopping" /\ stop' = TRUE
    /\ early' = (worker = "off")
    /\ UNCHANGED <<givenVars, startVars, out, accepted, workerVars, ch, chOpen, host>>

ReadLine ==
    /\ Serving /\ con = "read" /\ Len(accepted) < MaxLines
    /\ \E s \in Line : out' = <<s>> /\ accepted' = Append(accepted, s)
    /\ con' = "send"
    /\ UNCHANGED <<givenVars, startVars, early, workerVars, ch, chOpen, stop, host>>

SendOrDrop ==
    /\ Serving /\ con = "send"
    /\ ch' = IF Len(ch) < Cap THEN ch \o out ELSE ch
    /\ con' = "read" /\ out' = <<>>
    /\ UNCHANGED <<givenVars, startVars, accepted, early, workerVars, chOpen, stop, host>>

\* ch <- s, which waits while the channel is full.
Send ==
    /\ Serving /\ con = "send" /\ Len(ch) < Cap
    /\ ch' = ch \o out
    /\ con' = "read" /\ out' = <<>>
    /\ UNCHANGED <<givenVars, startVars, accepted, early, workerVars, chOpen, stop, host>>

StopAtOnce ==
    /\ Serving /\ con = "stopping"
    /\ con' = "stop host"
    /\ UNCHANGED <<givenVars, startVars, out, accepted, early, workerVars, ch, chOpen, stop, host>>

\* raftStopper.Stop returns: no worker of it runs.
StopReturns ==
    /\ Serving /\ con = "stopping" /\ worker \in {"off", "returned"}
    /\ con' = "stop host"
    /\ UNCHANGED <<givenVars, startVars, out, accepted, early, workerVars, ch, chOpen, stop, host>>

\* nh.Stop, which main does not wait for.
StopHost ==
    /\ Serving /\ con = "stop host"
    /\ host' = "stopped" /\ con' = "returned"
    /\ UNCHANGED <<givenVars, startVars, out, accepted, early, workerVars, ch, chOpen, stop>>

-------------------------------------------------------------------------------
(***************************************************************************)
(* The raft worker.                                                        *)
(***************************************************************************)

\* put has two arguments and get has one; anything else is not a command.
parseCommand(parts) ==
    \/ parts[1] = "put" /\ Len(parts) = 3
    \/ parts[1] = "get" /\ Len(parts) = 2

WorkerTakesOrReturns ==
    /\ Serving /\ worker = "select" /\ ch # <<>>
    /\ ch' = Tail(ch)
    /\ IF parseCommand(Head(ch))
       THEN hand' = <<Head(ch)>> /\ worker' = "busy" /\ UNCHANGED handled
       ELSE handled' = Append(handled, Head(ch)) /\ worker' = "returned" /\ UNCHANGED hand
    /\ UNCHANGED <<givenVars, startVars, conVars, chOpen, stop, host>>

\* The worker takes a line: an invalid one is over with a usage text, a
\* command is proposed or read with a context of three seconds.
WorkerTakes ==
    /\ Serving /\ worker = "select" /\ ch # <<>>
    /\ ch' = Tail(ch)
    /\ IF parseCommand(Head(ch))
       THEN hand' = <<Head(ch)>> /\ worker' = "busy" /\ UNCHANGED handled
       ELSE handled' = Append(handled, Head(ch)) /\ UNCHANGED <<hand, worker>>
    /\ UNCHANGED <<givenVars, startVars, conVars, chOpen, stop, host>>

\* SyncPropose or SyncRead returns; an error is logged, and that is all.
WorkerFinishes ==
    /\ Serving /\ worker = "busy"
    /\ handled' = handled \o hand
    /\ hand' = <<>> /\ worker' = "select"
    /\ UNCHANGED <<givenVars, startVars, conVars, ch, chOpen, stop, host>>

WorkerSeesCloseFirst ==
    /\ Serving /\ worker = "select" /\ ~chOpen
    /\ worker' = "returned"
    /\ UNCHANGED <<givenVars, startVars, conVars, hand, handled, ch, chOpen, stop, host>>

\* A closed channel reports that it is closed once it is empty.
WorkerSeesClose ==
    /\ Serving /\ worker = "select" /\ ch = <<>> /\ ~chOpen
    /\ worker' = "returned"
    /\ UNCHANGED <<givenVars, startVars, conVars, hand, handled, ch, chOpen, stop, host>>

\* ShouldStop: select chooses freely between it and a line that is waiting.
WorkerSeesStop ==
    /\ Serving /\ worker = "select" /\ stop
    /\ worker' = "returned"
    /\ UNCHANGED <<givenVars, startVars, conVars, hand, handled, ch, chOpen, stop, host>>

-------------------------------------------------------------------------------
Init ==
    /\ machine \in Machines
    /\ flags \in [nodeid : 0..(N + 1), addr : {NoAddr, Addresses[1]}, join : BOOLEAN]
    /\ useHostname \in BOOLEAN
    /\ step = "config" /\ ips = {} /\ nodeID = 0 /\ nodeAddr = NoAddr
    /\ con = "off" /\ out = <<>> /\ accepted = <<>> /\ early = FALSE
    /\ worker = "off" /\ hand = <<>> /\ handled = <<>>
    /\ ch = <<>> /\ chOpen = TRUE /\ stop = FALSE /\ host = "none"

StartUp == \/ LoadConfig \/ Identify \/ ConnectNats \/ NewNodeHost
           \/ StartOnDiskCluster \/ RunConsole \/ RunRaftWorker \/ MainReturns
User == EndOfInput \/ ReadExit \/ ReadLine
Console == Send \/ StopReturns \/ StopHost
Worker == WorkerTakes \/ WorkerFinishes \/ WorkerSeesClose \/ WorkerSeesStop
Next == StartUp \/ User \/ Console \/ Worker

Spec == Init /\ [][Next]_vars

\* Every goroutine goes on; a user need not type anything.
FairSpec == Spec /\ WF_vars(StartUp) /\ WF_vars(Console) /\ WF_vars(Worker)

-------------------------------------------------------------------------------
(***************************************************************************)
(* Properties.                                                             *)
(***************************************************************************)

TypeOK ==
    /\ machine \in Machines /\ useHostname \in BOOLEAN
    /\ step \in {"config", "network", "nats", "host", "cluster", "services", "run",
                 "wait", "done"} \cup Failed
    /\ nodeID \in 0..(N + 1) /\ flags.nodeid \in 0..(N + 1)
    /\ con \in {"off", "read", "send", "stopping", "stop host", "returned"}
    /\ worker \in {"off", "select", "busy", "returned"}
    /\ host \in {"none", "up", "stopped"}
    /\ accepted \in Seq(Line) /\ handled \in Seq(Line) /\ ch \in Seq(Line)
    /\ out \in Seq(Line) /\ hand \in Seq(Line)
    /\ Len(ch) <= Cap
    /\ {chOpen, stop, early} \subseteq BOOLEAN

\* No address reads like a longer version of one of this machine's IPs.
PrefixFree ==
    \A ip \in publicIPs(machine), i \in 1..N :
        HasPrefix(Addresses[i], ip) => Addresses[i] = ip

\* A process that finds its number itself (main.go 414-436) runs under the
\* number its peers have for an address of this very machine, as long as no
\* address begins with one of its IPs by accident.
RunsAsItself ==
    Serving /\ flags.nodeid = 0 /\ flags.addr = NoAddr /\ PrefixFree =>
        /\ nodeAddr = Addresses[nodeID]
        /\ \/ nodeAddr \in publicIPs(machine)
           \/ useHostname /\ LookupIP[nodeAddr] \cap publicIPs(machine) # {}

\* Nothing is started under a number or an address nobody has: what main.go
\* 438 lets through, a join without an address included, ends in
\* NewNodeHost or StartOnDiskCluster.
ServesWithIdentity ==
    Serving => /\ nodeID # 0 /\ nodeAddr # NoAddr
               /\ flags.addr = NoAddr => ~flags.join /\ nodeID <= N

\* No line is lost, doubled or overtaken between the console and the raft
\* worker (main.go 511-523, 647-690), through a full channel and past
\* invalid lines.
LinesInOrder == accepted = handled \o hand \o ch \o out

\* At the end of input the commands still in the channel are run before
\* the process ends; exit drops them.
EndOfInputDrains == step = "done" /\ ~stop => handled = accepted

\* exit stops the raft worker before the node host (main.go 518-519): no
\* command runs on a stopped host, unless exit came so early that there was
\* no worker to wait for yet.
HostOutlivesCommands == host = "stopped" /\ worker = "busy" => early

\* The console is not blocked on a full channel for good (main.go 522).
LineIsSent == con = "send" ~> con # "send"

\* exit and the end of input both end the process.
InputEndsProcess == con \in {"stopping", "stop host", "returned"} ~> step = "done"

===============================================================================
