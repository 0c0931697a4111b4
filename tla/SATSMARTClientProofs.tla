-------------------------- MODULE SATSMARTClientProofs --------------------------
(***************************************************************************)
(* What SATSMARTClient guarantees for any number of processes that run the    *)
(* tools, in any mixture, among any other programs: an object and its          *)
(* connection are what its program takes them for, and ATASMARTSample leaves   *)
(* nothing behind.  The ways of the tools are ways of driving the nub, so that *)
(* what IOSATServicesProofs shows of the nub holds here too.                   *)
(***************************************************************************)
EXTENDS SATSMARTClient, IOSATServicesProofs

\* The object of c has n references, and a connection or none.
Object(c, n, opened) == fRefCount[c] = n /\ fConnection[c] = opened

\* As at the end of IOServiceClose: no connection, and no user client.
Unconnected(c, n) == Object(c, n, FALSE) /\ phase[c] = "none"

(* Where the program is tells the references it holds and the connection it     *)
(* has: this is the reading of the two ladders, step by step.                  *)
Before(c) ==
  /\ at[c] \in {"none", "create"} => Unconnected(c, 0)
  /\ at[c] \in {"probe", "open"} => Unconnected(c, 1)
  /\ at[c] = "opening" => Object(c, 1, FALSE)
  /\ at[c] = "query" => Object(c, 1, TRUE)
  /\ at[c] = "dead" => Object(c, 0, FALSE)

SampleWay(c) ==
  /\ at[c] \in {"calls", "releaseInterface"} => Object(c, 2, TRUE)
  /\ at[c] = "stop" => Object(c, 1, TRUE)
  /\ at[c] = "releasePlugIn" => Unconnected(c, 1)
  /\ at[c] = "returned" => Unconnected(c, 0)
  /\ at[c] \notin {"enable", "read", "returnStatus", "giveUp"}
  /\ ~usedFreed[c]

StatusWay(c) ==
  /\ at[c] = "releasePlugIn" => Object(c, 2, TRUE)
  /\ at[c] \in {"giveUp", "enable", "read", "releaseInterface"} => Object(c, 1, TRUE)
  /\ at[c] = "returnStatus" => Object(c, 0, FALSE)
  /\ at[c] = "returned" => Object(c, 0, FALSE) \/ Object(c, 1, TRUE)
  /\ at[c] \notin {"calls", "stop"}

Way(c) ==
  /\ Before(c)
  /\ tool[c] = "sample" => SampleWay(c)
  /\ tool[c] = "status" => StatusWay(c)
  /\ fConnection[c] => phase[c] = "connected"

ClientIInv == IInv /\ ClientTypeOK /\ \A c \in Processes : Way(c)

\* The steps of ClientNext that no tool takes.
KernelNext ==
  \/ \E c \in Clients \ Processes : Opens(c) \/ ClientClose(c)
  \/ \E c \in Clients : ClientStep(c)
  \/ Unplugging
-------------------------------------------------------------------------------
(* A step of a tool opens or closes a connection, or the nub does not see it.   *)
LEMMA ToolDrives ==
  ASSUME NEW c \in Processes, Launch(c) \/ ToolStep(c) \/ Exit(c) \/ Reap(c)
  PROVE  Opens(c) \/ ClientClose(c) \/ UNCHANGED vars
BY DEF Opens, ConnectionTypes, ToolStep, Launch, Exit, Reap, Create, Probe, StartOpens, StartOpened,
       StartFails, QueryInterface, SampleCalls, StatusEnables, StatusReads, StatusReturnsStatus,
       ReleaseInterface, Stop, ReleasePlugIn

(* A tool, and the kernel around it, do only what Next lets the clients do.    *)
LEMMA ToolsDrive == ClientNext => [Next]_vars
<1> SUFFICES ASSUME ClientNext PROVE [Next]_vars
  OBVIOUS
<1> QED
  BY ToolDrives, ProcessesAssumption DEF ClientNext, Kernel, Next

(* The kernel's own steps neither open nor close a connection of a process.    *)
LEMMA KernelKeeps ==
  ASSUME IInv, KernelNext, NEW d \in Processes
  PROVE  /\ phase[d] = "none" => phase'[d] = "none"
         /\ phase[d] = "connected" => phase'[d] = "connected"
<1> USE ProcessesAssumption
<1>1. ASSUME NEW c \in Clients, ClientStep(c), c # d PROVE phase'[d] = phase[d]
  BY <1>1, Others
<1>2. CASE ClientStep(d)
  <2> USE DEF IInv, TypeOK, Set, ClientExact, Held
  <2>1. CASE AttachClient(d)
    BY <2>1 DEF AttachClient, Drop
  <2>2. CASE Start(d)
    BY <2>2 DEF Start
  <2>3. CASE handleOpen(d)
    BY <2>3 DEF handleOpen
  <2>4. CASE OpenNull(d)
    BY <2>4 DEF OpenNull
  <2>5. CASE DetachClient(d)
    BY <2>5 DEF DetachClient, Drop
  <2>6. CASE Message(d)
    BY <2>6 DEF Message, HandleTerminate, Drop
  <2>7. CASE ReleaseFreed(d)
    BY <2>7 DEF ReleaseFreed
  <2> QED
    BY <1>2, <2>1, <2>2, <2>3, <2>4, <2>5, <2>6, <2>7 DEF ClientStep
<1>3. ASSUME NEW c \in Clients \ Processes, Opens(c) \/ ClientClose(c)
      PROVE  phase'[d] = phase[d]
  BY <1>3, Others
<1>4. CASE Unplugging
  BY <1>4 DEF Unplugging, Terminate, StorageOpen, StorageClose, Detach, clientVars
<1> QED
  BY <1>1, <1>2, <1>3, <1>4 DEF KernelNext

(* A close frees the client at once.                                         *)
LEMMA CloseFrees ==
  ASSUME IInv, NEW c \in Clients, ClientClose(c)
  PROVE  phase'[c] = "none"
BY DEF ClientClose, HandleTerminate, Drop, IInv, TypeOK, Set, ClientExact, Held

(* A step of one process is none of another's.                                *)
LEMMA OtherProcesses ==
  ASSUME ClientIInv, NEW c \in Processes, Launch(c) \/ ToolStep(c) \/ Exit(c) \/ Reap(c),
         NEW d \in Processes, d # c
  PROVE  /\ at'[d] = at[d] /\ tool'[d] = tool[d] /\ fRefCount'[d] = fRefCount[d]
         /\ fConnection'[d] = fConnection[d] /\ usedFreed'[d] = usedFreed[d]
         /\ phase'[d] = phase[d]
<1>1. /\ at'[d] = at[d] /\ tool'[d] = tool[d] /\ fRefCount'[d] = fRefCount[d]
      /\ fConnection'[d] = fConnection[d] /\ usedFreed'[d] = usedFreed[d]
  <2> USE DEF ClientIInv, ClientTypeOK, Set, Go, Touch
  <2>1. CASE Launch(c)
    BY <2>1 DEF Launch
  <2>2. CASE Create(c)
    BY <2>2 DEF Create
  <2>3. CASE Probe(c)
    BY <2>3 DEF Probe, Release
  <2>4. CASE StartOpens(c)
    BY <2>4 DEF StartOpens
  <2>5. CASE StartOpened(c)
    BY <2>5 DEF StartOpened
  <2>6. CASE StartFails(c)
    BY <2>6 DEF StartFails, Release
  <2>7. CASE QueryInterface(c)
    BY <2>7 DEF QueryInterface, WithInterface, WithoutInterface
  <2>8. CASE SampleCalls(c)
    BY <2>8 DEF SampleCalls
  <2>9. CASE StatusEnables(c)
    BY <2>9 DEF StatusEnables
  <2>10. CASE StatusReads(c)
    BY <2>10 DEF StatusReads
  <2>11. CASE StatusReturnsStatus(c)
    BY <2>11 DEF StatusReturnsStatus
  <2>12. CASE ReleaseInterface(c)
    BY <2>12 DEF ReleaseInterface, Release
  <2>13. CASE Stop(c)
    BY <2>13 DEF Stop
  <2>14. CASE ReleasePlugIn(c)
    BY <2>14 DEF ReleasePlugIn, Release
  <2>15. CASE Exit(c)
    BY <2>15 DEF Exit
  <2>16. CASE Reap(c)
    BY <2>16 DEF Reap
  <2> QED
    BY <2>1, <2>2, <2>3, <2>4, <2>5, <2>6, <2>7, <2>8, <2>9, <2>10, <2>11, <2>12, <2>13, <2>14,
       <2>15, <2>16
       DEF ToolStep
<1>2. phase'[d] = phase[d]
  BY ToolDrives, Others, ProcessesAssumption DEF ClientIInv, vars, clientVars
<1> QED
  BY <1>1, <1>2

(* The same of the process itself: what Touch and Release do to its object, and  *)
Touched(c) == usedFreed'[c] = (usedFreed[c] \/ fRefCount[c] = 0)

Released(c) ==
  /\ fRefCount[c] > 0 /\ fRefCount'[c] = fRefCount[c] - 1
  /\ fConnection'[c] = (fConnection[c] /\ fRefCount[c] > 1)
  /\ Touched(c)

(* that a tool takes its way: each step leaves the references and the         *)
(* connection that the next one takes for granted.                            *)
LEMMA OwnWay ==
  ASSUME ClientIInv, NEW c \in Processes, Launch(c) \/ ToolStep(c) \/ Exit(c) \/ Reap(c)
  PROVE  Way(c)' /\ fRefCount'[c] \in 0 .. 2
<1>1. /\ at[c] \in Steps /\ tool[c] \in Tools /\ fRefCount[c] \in 0 .. 2 /\ Way(c)
      /\ fConnection[c] \in BOOLEAN /\ usedFreed[c] \in BOOLEAN
  BY DEF ClientIInv, ClientTypeOK
<1>2. CASE Launch(c)
  <2>1. /\ at[c] = "none" /\ at'[c] = "create" /\ tool'[c] \in Tools /\ usedFreed'[c] = FALSE
        /\ fRefCount'[c] = fRefCount[c] /\ fConnection'[c] = fConnection[c]
        /\ phase'[c] = phase[c]
    BY <1>2 DEF ClientIInv, ClientTypeOK, Launch, vars, clientVars, Set, Go
  <2> QED
    BY <1>1, <2>1 DEF Way, Before, SampleWay, StatusWay, Object, Unconnected, Tools, Steps
<1>3. CASE Create(c)
  <2>1. /\ at[c] = "create"
        /\ \/ at'[c] = "probe" /\ fRefCount'[c] = 1
           \/ at'[c] = "returned" /\ fRefCount'[c] = fRefCount[c]
        /\ tool'[c] = tool[c] /\ fConnection'[c] = fConnection[c] /\ usedFreed'[c] = usedFreed[c]
        /\ phase'[c] = phase[c]
    BY <1>3 DEF ClientIInv, ClientTypeOK, Create, vars, clientVars, Set, Go
  <2> QED
    BY <1>1, <2>1 DEF Way, Before, SampleWay, StatusWay, Object, Unconnected, Tools, Steps
<1>4. CASE Probe(c)
  <2>1. /\ at[c] = "probe" /\ tool'[c] = tool[c] /\ phase'[c] = phase[c]
        /\ \/ /\ at'[c] = "open" /\ Touched(c)
              /\ fRefCount'[c] = fRefCount[c] /\ fConnection'[c] = fConnection[c]
           \/ /\ at'[c] = "returned" /\ Released(c)
    BY <1>4 DEF ClientIInv, ClientTypeOK, Probe, Release, vars, clientVars, Set, Go, Touch,
                Released, Touched
  <2> QED
    BY <1>1, <2>1 DEF Way, Before, SampleWay, StatusWay, Object, Unconnected, Tools, Steps,
                      Released, Touched
<1>5. CASE StartOpens(c)
  <2>1. /\ at[c] = "open" /\ at'[c] = "opening" /\ tool'[c] = tool[c]
        /\ fRefCount'[c] = fRefCount[c] /\ fConnection'[c] = fConnection[c]
        /\ usedFreed'[c] = usedFreed[c] /\ phase'[c] = "allocated"
    BY <1>5, CloseFrees, ProcessesAssumption DEF ClientIInv, ClientTypeOK, IInv, TypeOK,
                                                 StartOpens, newUserClient, Set, Go
  <2> QED
    BY <1>1, <2>1 DEF Way, Before, SampleWay, StatusWay, Object, Unconnected, Tools, Steps
<1>6. CASE StartOpened(c)
  <2>1. /\ at[c] = "opening" /\ at'[c] = "query"
        /\ fConnection'[c] = TRUE /\ phase[c] = "connected" /\ tool'[c] = tool[c]
        /\ fRefCount'[c] = fRefCount[c] /\ usedFreed'[c] = usedFreed[c] /\ phase'[c] = phase[c]
    BY <1>6 DEF ClientIInv, ClientTypeOK, StartOpened, vars, clientVars, Set, Go
  <2> QED
    BY <1>1, <2>1 DEF Way, Before, SampleWay, StatusWay, Object, Unconnected, Tools, Steps
<1>7. CASE StartFails(c)
  <2>1. /\ \/ at[c] = "open"
           \/ at[c] = "opening" /\ phase[c] = "none"
        /\ at'[c] = "returned" /\ tool'[c] = tool[c] /\ phase'[c] = phase[c] /\ Released(c)
    BY <1>7 DEF ClientIInv, ClientTypeOK, StartFails, Release, vars, clientVars, Set, Go, Touch,
                Released, Touched
  <2> QED
    BY <1>1, <2>1 DEF Way, Before, SampleWay, StatusWay, Object, Unconnected, Tools, Steps,
                      Released, Touched
<1>8. CASE QueryInterface(c)
  <2>1. /\ at[c] = "query"
        /\ \/ tool[c] = "sample" /\ at'[c] = "calls" /\ fRefCount'[c] = fRefCount[c] + 1
           \/ tool[c] = "status" /\ at'[c] = "releasePlugIn" /\ fRefCount'[c] = fRefCount[c] + 1
           \/ tool[c] = "sample" /\ at'[c] = "stop" /\ fRefCount'[c] = fRefCount[c]
           \/ tool[c] = "status" /\ at'[c] = "giveUp" /\ fRefCount'[c] = fRefCount[c]
        /\ tool'[c] = tool[c]
        /\ fConnection'[c] = fConnection[c] /\ phase'[c] = phase[c] /\ Touched(c)
    BY <1>1, <1>8 DEF Tools, ClientIInv, ClientTypeOK, QueryInterface, WithInterface,
                      WithoutInterface, vars, clientVars, Set, Go, Touch, Touched
  <2> QED
    BY <1>1, <2>1 DEF Way, Before, SampleWay, StatusWay, Object, Unconnected, Tools, Steps,
                      Touched
<1>9. CASE SampleCalls(c)
  <2>1. /\ at[c] = "calls" /\ at'[c] = "releaseInterface" /\ tool'[c] = tool[c]
        /\ fRefCount'[c] = fRefCount[c] /\ fConnection'[c] = fConnection[c]
        /\ phase'[c] = phase[c] /\ Touched(c)
    BY <1>9 DEF ClientIInv, ClientTypeOK, SampleCalls, vars, clientVars, Set, Go, Touch, Touched
  <2> QED
    BY <1>1, <2>1 DEF Way, Before, SampleWay, StatusWay, Object, Unconnected, Tools, Steps,
                      Touched
<1>10. CASE StatusEnables(c)
  <2>1. /\ at[c] = "enable" /\ at'[c] \in {"read", "returned"} /\ tool'[c] = tool[c]
        /\ fRefCount'[c] = fRefCount[c] /\ fConnection'[c] = fConnection[c]
        /\ phase'[c] = phase[c] /\ Touched(c)
    BY <1>10 DEF ClientIInv, ClientTypeOK, StatusEnables, vars, clientVars, Set, Go, Touch,
                 Touched
  <2> QED
    BY <1>1, <2>1 DEF Way, Before, SampleWay, StatusWay, Object, Unconnected, Tools, Steps,
                      Touched
<1>11. CASE StatusReads(c)
  <2>1. /\ at[c] = "read" /\ at'[c] = "releaseInterface" /\ tool'[c] = tool[c]
        /\ fRefCount'[c] = fRefCount[c] /\ fConnection'[c] = fConnection[c]
        /\ phase'[c] = phase[c] /\ Touched(c)
    BY <1>11 DEF ClientIInv, ClientTypeOK, StatusReads, vars, clientVars, Set, Go, Touch, Touched
  <2> QED
    BY <1>1, <2>1 DEF Way, Before, SampleWay, StatusWay, Object, Unconnected, Tools, Steps,
                      Touched
<1>12. CASE StatusReturnsStatus(c)
  <2>1. /\ at[c] = "returnStatus" /\ at'[c] = "returned" /\ tool'[c] = tool[c]
        /\ fRefCount'[c] = fRefCount[c] /\ fConnection'[c] = fConnection[c]
        /\ phase'[c] = phase[c] /\ Touched(c)
    BY <1>12 DEF ClientIInv, ClientTypeOK, StatusReturnsStatus, vars, clientVars, Set, Go, Touch,
                 Touched
  <2> QED
    BY <1>1, <2>1 DEF Way, Before, SampleWay, StatusWay, Object, Unconnected, Tools, Steps,
                      Touched
<1>13. CASE ReleaseInterface(c)
  <2>1. /\ at[c] = "releaseInterface"
        /\ \/ tool[c] = "sample" /\ at'[c] = "stop"
           \/ tool[c] = "status" /\ at'[c] \in {"returned", "returnStatus"}
        /\ tool'[c] = tool[c] /\ phase'[c] = phase[c] /\ Released(c)
    BY <1>1, <1>13 DEF Tools, ClientIInv, ClientTypeOK, ReleaseInterface, Release, vars,
                       clientVars, Set, Go, Touch, Released, Touched
  <2>2. fConnection'[c] = (fConnection[c] /\ fRefCount[c] > 1)
    BY <2>1 DEF Released
  <2>3. usedFreed'[c] = (usedFreed[c] \/ fRefCount[c] = 0) /\ fRefCount'[c] = fRefCount[c] - 1
    BY <2>1 DEF Released, Touched
  <2>4. CASE tool[c] = "sample"
    <3>1. fRefCount[c] = 2 /\ fConnection[c] = TRUE /\ ~usedFreed[c] /\ phase[c] = "connected"
      BY <1>1, <2>1, <2>4 DEF Way, SampleWay, Object
    <3>2. fRefCount[c] > 1 /\ fRefCount[c] # 0 /\ fRefCount'[c] = 1
      BY <2>3, <3>1
    <3>3. fConnection'[c] = TRUE /\ ~usedFreed'[c]
      BY <2>2, <2>3, <3>1, <3>2, Zenon
    <3>4. at'[c] = "stop" /\ tool'[c] = "sample" /\ phase'[c] = "connected"
      BY <2>1, <2>4, <3>1
    <3> QED
      BY <3>2, <3>3, <3>4 DEF Way, Before, SampleWay, StatusWay, Object, Unconnected, Tools, Steps
  <2>5. CASE tool[c] = "status"
    <3>1. fRefCount[c] = 1 /\ fConnection[c] = TRUE /\ phase[c] = "connected"
      BY <1>1, <2>1, <2>5 DEF Way, StatusWay, Object
    <3>2. ~(fRefCount[c] > 1) /\ fRefCount'[c] = 0
      BY <2>3, <3>1
    <3>3. fConnection'[c] = FALSE
      BY <2>2, <3>2, Zenon
    <3>4. /\ at'[c] \in {"returned", "returnStatus"} /\ tool'[c] = "status"
          /\ phase'[c] = "connected"
      BY <2>1, <2>5, <3>1
    <3> QED
      BY <3>2, <3>3, <3>4 DEF Way, Before, SampleWay, StatusWay, Object, Unconnected, Tools, Steps
  <2> QED
    BY <1>1, <2>4, <2>5 DEF Tools
<1>14. CASE Stop(c)
  <2>1. /\ at[c] = "stop" /\ at'[c] = "releasePlugIn" /\ tool'[c] = tool[c]
        /\ fRefCount'[c] = fRefCount[c] /\ fConnection'[c] = FALSE /\ Touched(c)
        /\ fConnection[c] => phase'[c] = "none"
        /\ ~fConnection[c] => phase'[c] = phase[c]
    BY <1>14, CloseFrees, ProcessesAssumption DEF ClientIInv, ClientTypeOK, Stop, vars,
                                                  clientVars, Set, Go, Touch, Touched
  <2> QED
    BY <1>1, <2>1 DEF Way, Before, SampleWay, StatusWay, Object, Unconnected, Tools, Steps,
                      Touched
<1>15. CASE ReleasePlugIn(c)
  <2>1. /\ \/ tool[c] = "sample" /\ at[c] = "releasePlugIn" /\ at'[c] = "returned"
           \/ tool[c] = "status" /\ at[c] = "giveUp" /\ at'[c] = "returned"
           \/ tool[c] = "status" /\ at[c] = "releasePlugIn" /\ at'[c] = "enable"
        /\ tool'[c] = tool[c] /\ phase'[c] = phase[c]
    BY <1>1, <1>15 DEF Tools, ClientIInv, ClientTypeOK, ReleasePlugIn, vars, clientVars, Set, Go, Way,
                       SampleWay
  <2>2. Released(c)
    BY <1>15 DEF ClientIInv, ClientTypeOK, ReleasePlugIn, Release, Set, Touch, Released, Touched
  <2>3. CASE fRefCount[c] = 1
    <3>0. ~(fRefCount[c] > 1) /\ fRefCount'[c] = 0
      BY <1>1, <2>2, <2>3 DEF Released
    <3>1. fRefCount'[c] = 0 /\ fConnection'[c] = FALSE
      BY <2>2, <3>0, Zenon DEF Released
    <3>2. usedFreed'[c] = usedFreed[c]
      BY <1>1, <2>2, <2>3 DEF Released, Touched
    <3> QED
      BY <1>1, <2>1, <2>3, <3>1, <3>2
         DEF Way, Before, SampleWay, StatusWay, Object, Unconnected, Tools, Steps
  <2>4. CASE fRefCount[c] = 2
    <3>1. fRefCount'[c] = 1 /\ fConnection'[c] = fConnection[c]
      BY <1>1, <2>2, <2>4 DEF Released
    <3> QED
      BY <1>1, <2>1, <2>4, <3>1
         DEF Way, Before, SampleWay, StatusWay, Object, Unconnected, Tools, Steps
  <2> QED
    BY <1>1, <2>2, <2>3, <2>4 DEF Released
<1>16. CASE Exit(c)
  <2>1. /\ at[c] \notin {"none", "dead"} /\ at'[c] = "dead"
        /\ fRefCount'[c] = 0 /\ fConnection'[c] = FALSE /\ tool'[c] = tool[c]
        /\ usedFreed'[c] = usedFreed[c] /\ phase'[c] = phase[c]
    BY <1>16 DEF ClientIInv, ClientTypeOK, Exit, vars, clientVars, Set, Go
  <2> QED
    BY <1>1, <2>1 DEF Way, Before, SampleWay, StatusWay, Object, Unconnected, Tools, Steps
<1>17. CASE Reap(c)
  <2>1. /\ at[c] = "dead"
        /\ \/ at'[c] = "none" /\ phase[c] = "none" /\ phase'[c] = "none"
           \/ at'[c] = "dead" /\ phase'[c] = "none"
        /\ tool'[c] = tool[c] /\ fRefCount'[c] = fRefCount[c] /\ fConnection'[c] = fConnection[c]
        /\ usedFreed'[c] = usedFreed[c]
    BY <1>17, CloseFrees, ProcessesAssumption DEF ClientIInv, ClientTypeOK, Reap, vars,
                                                  clientVars, Set, Go
  <2> QED
    BY <1>1, <2>1 DEF Way, Before, SampleWay, StatusWay, Object, Unconnected, Tools, Steps
<1> QED
  BY <1>2, <1>3, <1>4, <1>5, <1>6, <1>7, <1>8, <1>9, <1>10, <1>11, <1>12, <1>13, <1>14, <1>15,
     <1>16, <1>17
     DEF ToolStep

LEMMA ClientInitially == ClientInit => ClientIInv
<1> SUFFICES ASSUME ClientInit PROVE ClientIInv
  OBVIOUS
<1>1. IInv /\ ClientTypeOK
  BY Initially DEF ClientInit, ClientTypeOK, Tools, Steps
<1>2. ASSUME NEW c \in Processes PROVE Way(c)
  BY <1>2, ProcessesAssumption DEF ClientInit, Init, Way, Before, SampleWay, Object, Unconnected
<1> QED
  BY <1>1, <1>2 DEF ClientIInv

(* A step of a tool keeps the types: what it changes are entries of its own.    *)
LEMMA ClientTypeStep ==
  ASSUME ClientIInv, NEW c \in Processes, Launch(c) \/ ToolStep(c) \/ Exit(c) \/ Reap(c)
  PROVE  ClientTypeOK'
<1> USE DEF ClientIInv, ClientTypeOK, Set, Go, Touch, Tools, Steps
<1>1. fRefCount'[c] \in 0 .. 2
  BY OwnWay
<1>2. CASE Launch(c)
  BY <1>1, <1>2 DEF Launch
<1>3. CASE Create(c)
  BY <1>1, <1>3 DEF Create
<1>4. CASE Probe(c)
  <2>1. CASE Release(c)
    BY <1>1, <1>4, <2>1 DEF Probe, Release
  <2>2. CASE Touch(c) /\ UNCHANGED <<fRefCount, fConnection>>
    BY <1>4, <2>2 DEF Probe, Release
  <2> QED
    BY <1>4, <2>1, <2>2 DEF Probe
<1>5. CASE StartOpens(c)
  BY <1>1, <1>5 DEF StartOpens
<1>6. CASE StartOpened(c)
  BY <1>1, <1>6 DEF StartOpened
<1>7. CASE StartFails(c)
  BY <1>1, <1>7 DEF StartFails, Release
<1>8. CASE QueryInterface(c)
  BY <1>1, <1>8 DEF QueryInterface, WithInterface, WithoutInterface
<1>9. CASE SampleCalls(c)
  BY <1>1, <1>9 DEF SampleCalls
<1>10. CASE StatusEnables(c)
  BY <1>1, <1>10 DEF StatusEnables
<1>11. CASE StatusReads(c)
  BY <1>1, <1>11 DEF StatusReads
<1>12. CASE StatusReturnsStatus(c)
  BY <1>1, <1>12 DEF StatusReturnsStatus
<1>13. CASE ReleaseInterface(c)
  BY <1>1, <1>13 DEF ReleaseInterface, Release
<1>14. CASE Stop(c)
  BY <1>1, <1>14 DEF Stop
<1>15. CASE ReleasePlugIn(c)
  BY <1>1, <1>15 DEF ReleasePlugIn, Release
<1>16. CASE Exit(c)
  BY <1>1, <1>16 DEF Exit
<1>17. CASE Reap(c)
  BY <1>1, <1>17 DEF Reap
<1> QED
  BY <1>2, <1>3, <1>4, <1>5, <1>6, <1>7, <1>8, <1>9, <1>10, <1>11, <1>12, <1>13, <1>14, <1>15,
     <1>16, <1>17
     DEF ToolStep

(* The kernel's steps leave the tools alone, and the connections theirs.       *)
LEMMA ClientStepKeeps == ClientIInv /\ [ClientNext]_allVars => ClientIInv'
<1> SUFFICES ASSUME ClientIInv, [ClientNext]_allVars PROVE ClientIInv'
  OBVIOUS
<1>1. IInv'
  BY Step, ToolsDrive DEF ClientIInv, allVars
<1>2. CASE \E c \in Processes : Launch(c) \/ ToolStep(c) \/ Exit(c) \/ Reap(c)
  <2> PICK c \in Processes : Launch(c) \/ ToolStep(c) \/ Exit(c) \/ Reap(c)
    BY <1>2
  <2>1. ASSUME NEW d \in Processes, d # c PROVE Way(d)'
    <3>1. /\ at'[d] = at[d] /\ tool'[d] = tool[d] /\ fRefCount'[d] = fRefCount[d]
          /\ fConnection'[d] = fConnection[d] /\ usedFreed'[d] = usedFreed[d]
          /\ phase'[d] = phase[d]
      BY <2>1, OtherProcesses
    <3>2. Way(d)
      BY DEF ClientIInv
    <3> QED
      BY <3>1, <3>2 DEF Way, Before, SampleWay, StatusWay, Object, Unconnected
  <2> QED
    BY <1>1, <2>1, OwnWay, ClientTypeStep DEF ClientIInv
<1>3. CASE (KernelNext /\ UNCHANGED processVars) \/ UNCHANGED allVars
  <2>1. ASSUME NEW d \in Processes PROVE Way(d)'
    <3>1. /\ phase[d] = "none" => phase'[d] = "none"
          /\ phase[d] = "connected" => phase'[d] = "connected"
      BY <1>3, KernelKeeps DEF ClientIInv, allVars, vars, clientVars
    <3> QED
      BY <1>3, <3>1 DEF ClientIInv, allVars, processVars, Way, Before, SampleWay, StatusWay,
                        Object, Unconnected
  <2>2. ClientTypeOK'
    BY <1>3 DEF ClientIInv, ClientTypeOK, allVars, processVars
  <2> QED
    BY <1>1, <2>1, <2>2 DEF ClientIInv
<1> QED
  BY <1>2, <1>3 DEF ClientNext, KernelNext, Unplugging, Kernel

LEMMA ClientInvariant == ClientSpec => []ClientIInv
<1> QED
  BY ClientInitially, ClientStepKeeps, PTL DEF ClientSpec

(* What is said of the nub and of its clients whatever opens and closes them is   *)
(* so when the tools do.                                                     *)
LEMMA NubInvariant == ClientSpec => []IInv
<1>1. ClientIInv => IInv
  BY DEF ClientIInv
<1> QED
  BY <1>1, ClientInvariant, PTL
-------------------------------------------------------------------------------
(* The objects, connections and places of all the tools are of their types: an    *)
(* object never has more than the references of its two interfaces.            *)
THEOREM ClientTypeCorrect == ClientSpec => []ClientTypeOK
<1>1. ClientIInv => ClientTypeOK
  BY DEF ClientIInv
<1> QED
  BY <1>1, ClientInvariant, PTL

(* Among the tools and any other programs, which may ask for connections that       *)
(* initWithTask refuses: the references of every user client are exact as long as   *)
(* newUserClient has not given up the one of a client it still has, and the nub      *)
(* goes last.                                                                *)
THEOREM ToolsKeepNub == ClientSpec => [](TypeOK /\ ReferencesExact /\ NubOutlivesClients)
<1>1. IInv => TypeOK /\ ReferencesExact /\ NubOutlivesClients
  BY IInvExact, IInvOutlives DEF IInv
<1> QED
  BY <1>1, NubInvariant, PTL

(* Those who open the nub see OpenedNub when some of them are tools.             *)
THEOREM ToolsSeeNub == ClientSpec => ImplementsNub
<1>1. ClientInit => Init
  BY DEF ClientInit
<1>2. [ClientNext]_allVars => [Next]_vars
  BY ToolsDrive DEF allVars
<1> QED
  BY <1>1, <1>2, Implements, PTL DEF ClientSpec

(* The connection of an object is open as long as it names it, and an open         *)
(* connection is in the object of its process, but for the leak of smart_status. *)
THEOREM ConnectionsOwned == ClientSpec => []ConnectionOwned
<1>1. ClientIInv => ConnectionOwned
  <2> SUFFICES ASSUME ClientIInv, NEW c \in Processes
               PROVE  /\ fConnection[c] => phase[c] = "connected"
                      /\ phase[c] = "connected" /\ at[c] \notin {"opening", "dead"} =>
                           fConnection[c] \/ (tool[c] = "status" /\ fRefCount[c] = 0)
    BY DEF ConnectionOwned
  <2> QED
    BY DEF ClientIInv, ClientTypeOK, Way, Before, SampleWay, StatusWay, Object, Unconnected,
           Tools, Steps
<1> QED
  BY <1>1, ClientInvariant, PTL

(* ATASMARTSample calls through an object of its own, and not one it has freed,     *)
(* whichever of its steps failed before.                                      *)
THEOREM SampleUsesLive == ClientSpec => []SampleObjectLives
<1>1. ClientIInv => SampleObjectLives
  BY DEF ClientIInv, Way, SampleWay, SampleObjectLives
<1> QED
  BY <1>1, ClientInvariant, PTL

(* When it returns, whichever step failed, there is no object, no connection and    *)
(* no user client of its own in the kernel.                                   *)
THEOREM SampleCleans == ClientSpec => []SampleLeavesNothing
<1>1. ClientIInv => SampleLeavesNothing
  BY ProcessesAssumption DEF ClientIInv, IInv, ClientExact, Way, SampleWay, Object, Unconnected,
                             SampleLeavesNothing
<1> QED
  BY <1>1, ClientInvariant, PTL
===============================================================================
