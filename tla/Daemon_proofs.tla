------------------------------ MODULE Daemon_proofs ------------------------------
(***************************************************************************)
(* What holds of any number of daemons, commands and foreground processes: *)
(* who may be reached through the socket file, who manages the Router, who *)
(* is in the PID file, and what a follower of the log prints.              *)
(*                                                                         *)
(* No property is inductive.  A daemon serves only after it held the       *)
(* socket's path from its dial on, so the invariant says that at most one  *)
(* holds it; a daemon manages a recorded Router from its recovery on, so   *)
(* the invariant says so of every daemon that has looked for one.  The PID *)
(* file and the follower have invariants of their own below.               *)
(***************************************************************************)
EXTENDS Daemon, FiniteSetTheorems, TLAPS

\* Found no one on the socket and has not finished its shutdown.
Holds(d) == life[d] \in {"unstale", "bind", "serve", "unlink", "stop"}
SocketInv == "crossed" \notin marks =>
    /\ \A d, e \in Daemons : Holds(d) /\ Holds(e) => d = e
    /\ \A d \in Daemons : life[d] = "serve" => socket = d

RouterInv == router = "recorded" /\ marks \cap {"unread", "overtaken"} = {} =>
    \A d \in Daemons : Recovered(d) => d \in keepers

DInv == TypeOK /\ SocketInv /\ RouterInv

LEMMA DaemonFacts ==
    ASSUME NEW d \in Daemons
    PROVE  d # 0 /\ d \in 0..MaxDaemons
  BY DaemonAssumption DEF DaemonAssumption, Daemons

\* A step of the log, of the socket and the Router that leaves the daemons alone,
\* or ends one.
LEMMA DaemonEnds ==
    ASSUME DInv, NEW d, life' = [life EXCEPT ![d] = "dead"], keepers' = keepers \ {d},
           marks \subseteq marks', UNCHANGED <<socket, router>>
    PROVE  DInv'
<1>1. \A e \in Daemons : life'[e] = IF e = d THEN "dead" ELSE life[e]
  BY DEF DInv, TypeOK
<1>2. TypeOK'
  <2>1. life' \in [Daemons -> Stages]
    BY DEF DInv, TypeOK, Stages
  <2>2. \A e \in keepers' : e # d /\ e \in Daemons /\ e # 0 /\ life[e] \notin {"unborn", "dead"}
    BY DEF DInv, TypeOK, Alive
  <2>3. \A e \in keepers' : e \in Daemons /\ e # 0 /\ life'[e] \notin {"unborn", "dead"}
    BY <1>1, <2>2
  <2>4. /\ router' \in {"none", "recorded", "lost"}
        /\ keepers' \subseteq {e \in Daemons : e # 0 /\ life'[e] \notin {"unborn", "dead"}}
        /\ socket' \in 0..MaxDaemons /\ (router' = "none" => keepers' = {})
    BY <2>3 DEF DInv, TypeOK
  <2> QED
    BY <2>1, <2>4 DEF TypeOK, Alive
<1>3. SocketInv'
  BY <1>1 DEF DInv, SocketInv, Holds
<1>4. RouterInv'
  <2>1. \A e \in Daemons : Recovered(e)' => Recovered(e) /\ e # d
    BY <1>1 DEF Recovered
  <2> QED
    BY <2>1 DEF DInv, RouterInv
<1> QED
  BY <1>2, <1>3, <1>4 DEF DInv

LEMMA Undisturbed ==
    ASSUME DInv, UNCHANGED <<life, socket, router, keepers>>, marks \subseteq marks'
    PROVE  DInv'
<1>1. TypeOK'
  BY DEF DInv, TypeOK, Alive
<1>2. SocketInv'
  BY DEF DInv, SocketInv, Holds
<1>3. RouterInv'
  BY DEF DInv, RouterInv, Holds, Recovered
<1> QED
  BY <1>1, <1>2, <1>3 DEF DInv

LEMMA Birth ==
    ASSUME DInv, NEW d \in Unborn, NEW log, Born(d, log),
           UNCHANGED <<socket, router, keepers, marks>>
    PROVE  DInv'
<1>1. /\ d \in Daemons /\ life[d] = "unborn"
      /\ \A e \in Daemons : life'[e] = IF e = d THEN "boot" ELSE life[e]
      /\ life' \in [Daemons -> Stages]
  BY DEF DInv, TypeOK, Born, Unborn, Stages
<1>2. TypeOK'
  BY <1>1 DEF DInv, TypeOK, Alive
<1>3. SocketInv'
  BY <1>1 DEF DInv, SocketInv, Holds
<1>4. RouterInv'
  BY <1>1 DEF DInv, RouterInv, Holds, Recovered
<1> QED
  BY <1>2, <1>3, <1>4 DEF DInv

LEMMA InitDInv ==
    ASSUME Init
    PROVE  DInv
<1>1. \A d \in Daemons : life[d] = "unborn"
  BY DEF Init
<1>2. 0 \in 0..MaxDaemons
  BY DaemonAssumption DEF DaemonAssumption
<1>3. TypeOK
  BY <1>2 DEF Init, TypeOK, Stages
<1> QED
  BY <1>1, <1>3 DEF DInv, SocketInv, RouterInv, Holds, Recovered

LEMMA CommandDInv ==
    ASSUME DInv, NEW c \in Commands,
           StartDetached(c) \/ StatusDetached(c) \/ StopDetached(c) \/ CommandStep(c)
    PROVE  DInv'
<1> USE DEF daemonVars, routerVars, cmdVars
<1>1. CASE StartDetached(c) \/ StatusDetached(c) \/ StopDetached(c)
  <2>1. UNCHANGED <<life, socket, router, keepers>> /\ marks \subseteq marks'
    BY <1>1 DEF StartDetached, StatusDetached, StopDetached, Command, Mark
  <2> QED
    BY <2>1, Undisturbed
<1>2. CASE Clear(c) \/ Look(c) \/ Move(c) \/ Terminate(c) \/ RemovePID(c)
  <2>1. UNCHANGED <<life, socket, router, keepers, marks>>
    BY <1>2 DEF Clear, Look, Move, Terminate, RemovePID
  <2> QED
    BY <2>1, Undisturbed
<1>3. CASE RecordPID(c)
  <2>1. UNCHANGED <<life, socket, router, keepers>> /\ marks \subseteq marks'
    BY <1>3 DEF RecordPID, Mark
  <2> QED
    BY <2>1, Undisturbed
<1>4. CASE Spawn(c)
  <2>1. CASE \E d \in Unborn : Born(d, IF path # 0 THEN path ELSE Len(text) + 1)
    <3>1. UNCHANGED <<socket, router, keepers, marks>>
      BY <1>4 DEF Spawn
    <3> QED
      BY <2>1, <3>1, Birth
  <2>2. CASE UNCHANGED daemonVars
    <3>1. UNCHANGED <<life, socket, router, keepers, marks>>
      BY <1>4, <2>2 DEF Spawn
    <3> QED
      BY <3>1, Undisturbed
  <2> QED
    BY <1>4, <2>1, <2>2 DEF Spawn
<1>5. CASE Wait(c)
  <2>1. UNCHANGED <<socket, router, marks>>
    BY <1>5 DEF Wait
  <2>2. CASE Kill(cmd[c].pid)
    BY <2>1, <2>2, DaemonEnds DEF Kill
  <2>3. CASE UNCHANGED <<life, keepers>>
    BY <2>1, <2>3, Undisturbed
  <2> QED
    BY <1>5, <2>2, <2>3 DEF Wait
<1> QED
  BY <1>1, <1>2, <1>3, <1>4, <1>5 DEF CommandStep

\* A daemon enters another stage of its life, the Router is not touched.
LEMMA Moves ==
    ASSUME DInv, NEW d \in Daemons, NEW stage \in {"unstale", "bind", "serve", "unlink", "stop"},
           life[d] \notin {"unborn", "dead"}, Recovered(d) \/ stage = "stop",
           life' = [life EXCEPT ![d] = stage], UNCHANGED <<router, keepers>>,
           marks \subseteq marks', socket' \in 0..MaxDaemons
    PROVE  TypeOK' /\ RouterInv'
<1>1. /\ life' \in [Daemons -> Stages] /\ life'[d] = stage
      /\ \A e \in Daemons \ {d} : life'[e] = life[e]
  BY DEF DInv, TypeOK, Stages
<1>2. TypeOK'
  BY <1>1, DaemonFacts DEF DInv, TypeOK, Alive
<1>3. \A e \in Daemons : Recovered(e)' => Recovered(e)
  BY <1>1 DEF Recovered
<1> QED
  BY <1>2, <1>3 DEF DInv, RouterInv

\* What the start of a Router leaves: one that is recorded and managed, and by
\* all that have looked for one, or one in no record.
LaunchGives(d) ==
    /\ marks \subseteq marks'
    /\ \/ router' = "lost" /\ router # "none" /\ UNCHANGED keepers
       \/ /\ router' = "recorded" /\ keepers' = {d}
          /\ \/ \A e \in Daemons : Recovered(e) => e = d
             \/ "overtaken" \in marks'

LEMMA LaunchFacts ==
    ASSUME DInv, NEW d \in Daemons, Launch(d)
    PROVE  LaunchGives(d)
<1>1. CASE router = "none"
  <2>1. /\ router' = "recorded" /\ keepers' = {d} /\ marks \subseteq marks'
        /\ "overtaken" \notin marks' => \A e \in Others(d) : ~Recovered(e)
    BY <1>1 DEF Launch, Mark
  <2>2. \A e \in Daemons : Recovered(e) /\ e # d => e \in Others(d)
    BY DaemonFacts DEF Others, Alive, Recovered
  <2> QED
    BY <2>1, <2>2 DEF LaunchGives
<1>2. CASE router # "none"
  BY <1>2 DEF Launch, LaunchGives
<1> QED
  BY <1>1, <1>2

LEMMA DaemonDInv ==
    ASSUME DInv, NEW d \in Daemons, DaemonStep(d)
    PROVE  DInv'
<1> USE DEF daemonVars, routerVars
<1>0. /\ d # 0 /\ d \in 0..MaxDaemons /\ 0 \in 0..MaxDaemons
      /\ socket \in 0..MaxDaemons /\ life \in [Daemons -> Stages]
  BY DaemonFacts, DaemonAssumption DEF DaemonAssumption, DInv, TypeOK
<1>1. CASE RecoverRouter(d)
  <2>1. /\ life[d] = "boot" /\ life' = [life EXCEPT ![d] = "launch"] /\ UNCHANGED socket
        /\ marks \subseteq marks'
    BY <1>1 DEF RecoverRouter, Become, Mark
  <2>2. /\ life' \in [Daemons -> Stages] /\ life'[d] = "launch"
        /\ \A e \in Daemons \ {d} : life'[e] = life[e]
    BY <1>0, <2>1 DEF Stages
  <2>3. /\ keepers \subseteq keepers' /\ keepers' \subseteq keepers \cup {d}
        /\ router' \in {router, "lost"} /\ (router' = "none" => keepers' = keepers)
        /\ router' = "recorded" => router = "recorded"
        /\ router' = "recorded" => d \in keepers' \/ "unread" \in marks'
    BY <1>1 DEF RecoverRouter, Adopt, Disown, Mark, DInv, TypeOK
  <2>4. TypeOK'
    BY <1>0, <2>1, <2>2, <2>3 DEF DInv, TypeOK, Alive
  <2>5. SocketInv'
    BY <2>1, <2>2 DEF DInv, SocketInv, Holds
  <2>6. RouterInv'
    BY <2>1, <2>2, <2>3 DEF DInv, RouterInv, Recovered
  <2> QED
    BY <2>4, <2>5, <2>6 DEF DInv
<1>9. CASE Autostart(d)
  <2>1. /\ life[d] = "launch" /\ life' = [life EXCEPT ![d] = "dial"] /\ UNCHANGED socket
        /\ Launch(d) \/ UNCHANGED <<router, keepers, marks>>
    BY <1>9 DEF Autostart, Become
  <2>2. /\ life' \in [Daemons -> Stages] /\ life'[d] = "dial"
        /\ \A e \in Daemons \ {d} : life'[e] = life[e]
    BY <1>0, <2>1 DEF Stages
  <2>3. \A e \in Daemons : Recovered(e)' <=> Recovered(e)
    BY <2>1, <2>2 DEF Recovered
  <2>4. LaunchGives(d) \/ UNCHANGED <<router, keepers, marks>>
    BY <2>1, LaunchFacts
  <2>5. TypeOK'
    BY <1>0, <2>1, <2>2, <2>4 DEF LaunchGives, DInv, TypeOK, Alive
  <2>6. SocketInv'
    BY <2>1, <2>2, <2>4 DEF LaunchGives, DInv, SocketInv, Holds
  <2>7. RouterInv'
    BY <2>3, <2>4 DEF LaunchGives, DInv, RouterInv
  <2> QED
    BY <2>5, <2>6, <2>7 DEF DInv
<1>10. CASE DiesLaunching(d)
  <2>1. /\ life' = [life EXCEPT ![d] = "dead"] /\ UNCHANGED <<socket, marks>>
        /\ router' = "lost" /\ keepers' = {}
    BY <1>10 DEF DiesLaunching, Become, DInv, TypeOK
  <2>2. \A e \in Daemons : life'[e] \in Stages /\ (life'[e] = life[e] \/ life'[e] = "dead")
    BY <1>0, <2>1 DEF Stages
  <2>3. TypeOK'
    BY <1>0, <2>1, <2>2 DEF TypeOK, Stages
  <2>4. SocketInv' /\ RouterInv'
    BY <2>1, <2>2 DEF DInv, SocketInv, RouterInv, Holds
  <2> QED
    BY <2>3, <2>4 DEF DInv
<1>2. CASE DialSocket(d)
  <2>1. /\ life[d] = "dial" /\ UNCHANGED socket /\ marks \subseteq marks'
        /\ "crossed" \notin marks' =>
             \A e \in Others(d) : life[e] \notin {"unstale", "bind", "unlink", "stop"}
    BY <1>2 DEF DialSocket, Mark, Closing
  <2>2. CASE InUse
    BY <1>2, <2>1, <2>2, DaemonEnds DEF DialSocket, Dies, Become
  <2>3. CASE ~InUse
    <3> DEFINE stage == IF socket = 0 THEN "bind" ELSE "unstale"
    <3>1. life' = [life EXCEPT ![d] = stage] /\ UNCHANGED <<router, keepers>>
      BY <1>2, <2>3 DEF DialSocket, Become
    <3>2. /\ life'[d] \in {"bind", "unstale"} /\ \A e \in Daemons \ {d} : life'[e] = life[e]
      BY <1>0, <3>1
    <3>3. SocketInv'
      <4>1. SUFFICES ASSUME "crossed" \notin marks'
                     PROVE  \A e \in Daemons \ {d} : ~Holds(e)
        BY <3>2 DEF SocketInv, Holds
      <4>2. \A e \in Daemons : life[e] # "serve"
        BY <2>1, <2>3, <4>1, DaemonFacts DEF DInv, SocketInv, InUse, Listening
      <4> QED
        BY <2>1, <4>1, <4>2, DaemonFacts DEF Others, Holds, Alive
    <3>4. Recovered(d)
      BY <2>1 DEF Recovered
    <3>5. TypeOK' /\ RouterInv'
      BY <1>0, <2>1, <3>1, <3>4, Moves
    <3> QED
      BY <3>3, <3>5 DEF DInv
  <2> QED
    BY <2>2, <2>3
<1>3. CASE RemoveStale(d)
  <2>1. /\ life[d] = "unstale" /\ socket' = 0 /\ life' = [life EXCEPT ![d] = "bind"]
        /\ UNCHANGED <<router, keepers, marks>>
    BY <1>3 DEF RemoveStale, Become
  <2>2. life'[d] = "bind" /\ \A e \in Daemons \ {d} : life'[e] = life[e]
    BY <1>0, <2>1
  <2>3. SocketInv'
    BY <2>1, <2>2 DEF DInv, SocketInv, Holds
  <2>4. Recovered(d) \/ life'[d] = "stop"
    BY <2>1, <2>2 DEF Recovered
  <2>5. TypeOK' /\ RouterInv'
    BY <1>0, <2>1, <2>4, Moves
  <2> QED
    BY <2>3, <2>5 DEF DInv
<1>4. CASE Bind(d)
  <2>1. life[d] = "bind" /\ UNCHANGED marks
    BY <1>4 DEF Bind
  <2>2. CASE socket = 0
    <3>1. socket' = d /\ life' = [life EXCEPT ![d] = "serve"] /\ UNCHANGED <<router, keepers>>
      BY <1>4, <2>2 DEF Bind, Become
    <3>2. life'[d] = "serve" /\ \A e \in Daemons \ {d} : life'[e] = life[e]
      BY <1>0, <3>1
    <3>3. SocketInv'
      BY <2>1, <3>1, <3>2 DEF DInv, SocketInv, Holds
    <3>4. Recovered(d)
      BY <2>1 DEF Recovered
    <3>5. TypeOK' /\ RouterInv'
      BY <1>0, <2>1, <3>1, <3>4, Moves
    <3> QED
      BY <3>3, <3>5 DEF DInv
  <2>3. CASE socket # 0
    BY <1>4, <2>1, <2>3, DaemonEnds DEF Bind, Dies, Become
  <2> QED
    BY <2>2, <2>3
<1>5. CASE Signalled(d)
  <2>1. CASE life[d] = "serve"
    <3>1. /\ socket' = 0 /\ life' = [life EXCEPT ![d] = "unlink"] /\ marks \subseteq marks'
          /\ UNCHANGED <<router, keepers>>
      BY <1>5, <2>1 DEF Signalled, Become, Mark
    <3>2. life'[d] = "unlink" /\ \A e \in Daemons \ {d} : life'[e] = life[e]
      BY <1>0, <3>1
    <3>3. SocketInv'
      BY <2>1, <3>1, <3>2 DEF DInv, SocketInv, Holds
    <3>4. Recovered(d)
      BY <2>1 DEF Recovered
    <3>5. TypeOK' /\ RouterInv'
      BY <1>0, <2>1, <3>1, <3>4, Moves
    <3> QED
      BY <3>3, <3>5 DEF DInv
  <2>2. CASE life[d] # "serve"
    BY <1>5, <2>2, DaemonEnds DEF Signalled, Dies, Become
  <2> QED
    BY <2>1, <2>2
<1>6. CASE Unlink(d)
  <2>1. /\ life[d] = "unlink" /\ socket' = 0 /\ life' = [life EXCEPT ![d] = "stop"]
        /\ UNCHANGED <<router, keepers, marks>>
    BY <1>6 DEF Unlink, Become
  <2>2. life'[d] = "stop" /\ \A e \in Daemons \ {d} : life'[e] = life[e]
    BY <1>0, <2>1
  <2>3. SocketInv'
    BY <2>1, <2>2 DEF DInv, SocketInv, Holds
  <2>4. Recovered(d) \/ life'[d] = "stop"
    BY <2>1, <2>2 DEF Recovered
  <2>5. TypeOK' /\ RouterInv'
    BY <1>0, <2>1, <2>4, Moves
  <2> QED
    BY <2>3, <2>5 DEF DInv
<1>7. CASE StopRouter(d)
  <2>1. life' = [life EXCEPT ![d] = "dead"] /\ UNCHANGED <<socket, marks>>
    BY <1>7 DEF StopRouter, Become
  <2>2. CASE d \in keepers
    <3>1. router' = "none" /\ keepers' = {}
      BY <1>7, <2>2 DEF StopRouter
    <3>2. \A e \in Daemons : life'[e] \in Stages /\ (life'[e] = life[e] \/ life'[e] = "dead")
      BY <1>0, <2>1 DEF Stages
    <3>3. TypeOK'
      BY <1>0, <2>1, <3>1, <3>2 DEF TypeOK, Stages
    <3>4. SocketInv'
      BY <2>1, <3>2 DEF DInv, SocketInv, Holds
    <3>5. RouterInv'
      BY <2>1, <3>1, <3>2 DEF DInv, RouterInv, Holds, Recovered
    <3> QED
      BY <3>3, <3>4, <3>5 DEF DInv
  <2>3. CASE d \notin keepers
    <3>1. UNCHANGED router /\ keepers' = keepers \ {d}
      BY <1>7, <2>3 DEF StopRouter
    <3> QED
      BY <2>1, <3>1, DaemonEnds
  <2> QED
    BY <2>2, <2>3
<1>8. CASE DaemonDies(d)
  BY <1>8, DaemonEnds DEF DaemonDies, Dies, Become
<1> QED
  BY <1>1, <1>2, <1>3, <1>4, <1>5, <1>6, <1>7, <1>8, <1>9, <1>10 DEF DaemonStep

LEMMA UseRouterDInv ==
    ASSUME DInv, UseRouter
    PROVE  DInv'
<1>1. UNCHANGED <<life, socket>>
  BY DEF UseRouter, daemonVars
<1>2. ASSUME NEW d \in Daemons, Listening(d), Launch(d)
      PROVE  DInv'
  <2>1. LaunchGives(d) /\ life[d] = "serve"
    BY <1>2, LaunchFacts DEF Listening
  <2>2. TypeOK'
    BY <1>1, <2>1, DaemonFacts DEF LaunchGives, DInv, TypeOK, Alive
  <2>3. SocketInv'
    BY <1>1, <2>1 DEF LaunchGives, DInv, SocketInv, Holds
  <2>4. RouterInv'
    BY <1>1, <2>1 DEF LaunchGives, DInv, RouterInv, Recovered
  <2> QED
    BY <2>2, <2>3, <2>4 DEF DInv
<1>3. CASE router' = "none" /\ keepers' = {} /\ UNCHANGED marks
  <2>1. TypeOK' /\ SocketInv' /\ RouterInv'
    BY <1>1, <1>3 DEF DInv, TypeOK, Alive, SocketInv, RouterInv, Holds
  <2> QED
    BY <2>1 DEF DInv
<1> QED
  BY <1>2, <1>3 DEF UseRouter

LEMMA DInvStep ==
    ASSUME DInv, [Next]_vars
    PROVE  DInv'
<1>1. ASSUME NEW c \in Commands,
             StartDetached(c) \/ StatusDetached(c) \/ StopDetached(c) \/ CommandStep(c)
      PROVE  DInv'
  BY <1>1, CommandDInv
<1>2. CASE ServeForeground
  <2>1. PICK d \in Unborn : Born(d, 0)
    BY <1>2 DEF ServeForeground
  <2>2. UNCHANGED <<socket, router, keepers, marks>>
    BY <1>2 DEF ServeForeground, routerVars
  <2> QED
    BY <2>1, <2>2, Birth
<1>3. ASSUME NEW d \in Daemons, DaemonStep(d)
      PROVE  DInv'
  BY <1>3, DaemonDInv
<1>4. ASSUME NEW d \in Daemons, DaemonLogs(d)
      PROVE  DInv'
  BY <1>4, Undisturbed DEF DaemonLogs, daemonVars, routerVars
<1>5. CASE UseRouter
  BY <1>5, UseRouterDInv
<1>6. CASE Reader \/ Poll
  BY <1>6, Undisturbed DEF Reader, Poll, daemonVars, routerVars
<1>7. CASE UNCHANGED vars
  BY <1>7, Undisturbed DEF vars, daemonVars, routerVars
<1> QED
  BY <1>1, <1>2, <1>3, <1>4, <1>5, <1>6, <1>7 DEF Next

\* The inductive invariant of the daemons.
THEOREM DaemonsInductive == Spec => []DInv
<1>1. Init => DInv
  BY InitDInv
<1>2. DInv /\ [Next]_vars => DInv'
  BY DInvStep
<1> QED
  BY <1>1, <1>2, PTL DEF Spec

\* However many daemons are started, the one that serves is reached through the
\* socket file (removeStaleSocket, rpc/internal_server.go).
THEOREM ReachableHolds == Spec => []Reachable
<1>1. DInv => Reachable
  BY DEF DInv, SocketInv, Reachable, Listening
<1> QED
  BY <1>1, DaemonsInductive, PTL

\* A serving daemon manages the Router that router.pid names, also one it found
\* (RecoverRouterRuntime, bootstrap/service.go), whatever its recovery answered, but
\* for the two cases the property excepts.
THEOREM RouterManagedHolds == Spec => []RouterManaged
<1>1. DInv => RouterManaged
  BY DEF DInv, RouterInv, RouterManaged, Listening, Recovered
<1> QED
  BY <1>1, DaemonsInductive, PTL

----------------------------------------------------------------------------
(* The PID file                                                            *)
(*                                                                         *)
(* Recorded is not inductive: a command overwrites or removes the PID it   *)
(* looked at some steps before.  As long as one command runs at a time     *)
(* that PID is still there and still of a dead process, and a process that *)
(* died is not born again.                                                 *)

Steps == {"idle", "clear", "clear+start", "look", "move", "spawn", "record", "term", "wait",
          "remove"}
\* On its way to another content of the PID file.
Replaces(c) == cmd[c].at \in {"clear", "clear+start", "look", "move", "spawn", "record"}
Existed(d) == d \in Daemons /\ life[d] # "unborn"

PidInv ==
    /\ cmd \in [Commands -> [at : Steps, pid : 0..MaxDaemons, empty : BOOLEAN]]
    /\ DOMAIN logOf = Daemons
    /\ pidFile # 0 => Existed(pidFile)
    /\ \A c \in Commands : cmd[c].at \in {"record", "term", "wait", "remove"} => Existed(cmd[c].pid)

Found(d) == pidFile = d \/ d \in termed \/ \E c \in Commands : At(c, "record") /\ cmd[c].pid = d

OneCommand == \A b, c \in Commands : ~At(b, "idle") /\ ~At(c, "idle") => b = c

RecInv == "raced" \notin marks =>
    /\ OneCommand
    /\ \A c \in Commands : Replaces(c) => ~Alive(pidFile)
    /\ \A c \in Commands : At(c, "remove") => ~Alive(cmd[c].pid)
    /\ \A d \in Daemons : Alive(d) /\ logOf[d] # 0 => Found(d)

RInv == DInv /\ PidInv /\ RecInv

\* A step that moves no command and no PID: daemons go on or die.
LEMMA CommandsStay ==
    ASSUME PidInv, RecInv, UNCHANGED <<cmd, pidFile, logOf>>, termed \subseteq termed',
           marks \subseteq marks',
           \A d \in Daemons : /\ life[d] # "unborn" => life'[d] # "unborn"
                              /\ Alive(d)' => Alive(d)
    PROVE  PidInv' /\ RecInv'
<1>1. PidInv'
  BY DEF PidInv, Existed
<1>2. ASSUME "raced" \notin marks'
      PROVE  /\ OneCommand'
             /\ \A c \in Commands : Replaces(c)' => ~Alive(pidFile)'
             /\ \A c \in Commands : At(c, "remove")' => ~Alive(cmd[c].pid)'
             /\ \A d \in Daemons : Alive(d)' /\ logOf'[d] # 0 => Found(d)'
  <2>1. RecInv /\ "raced" \notin marks
    BY <1>2
  <2>2. OneCommand'
    BY <2>1 DEF RecInv, OneCommand, At
  <2>3. Alive(pidFile)' => Alive(pidFile)
    BY DEF PidInv, Existed, Alive
  <2>4. ASSUME NEW c \in Commands, Replaces(c)'
        PROVE  ~Alive(pidFile)'
    BY <2>1, <2>3, <2>4 DEF RecInv, Replaces
  <2>5. ASSUME NEW c \in Commands, At(c, "remove")'
        PROVE  ~Alive(cmd[c].pid)'
    <3>1. At(c, "remove") /\ cmd[c].pid \in Daemons
      BY <2>5 DEF PidInv, Existed, At
    <3>2. ~Alive(cmd[c].pid)
      BY <2>1, <3>1 DEF RecInv
    <3> QED
      BY <3>1, <3>2
  <2>6. ASSUME NEW d \in Daemons, Alive(d)', logOf'[d] # 0
        PROVE  Found(d)'
    <3>1. Found(d)
      BY <2>1, <2>6 DEF RecInv
    <3> QED
      BY <3>1 DEF Found, At
  <2> QED
    BY <2>2, <2>4, <2>5, <2>6
<1> QED
  BY <1>1, <1>2 DEF RecInv

\* A command that runs alone moves on: the others are idle before and after.
LEMMA Alone ==
    ASSUME PidInv, RecInv, "raced" \notin marks, NEW c \in Commands, ~At(c, "idle"),
           NEW r \in [at : Steps, pid : 0..MaxDaemons, empty : BOOLEAN],
           cmd' = [cmd EXCEPT ![c] = r]
    PROVE  /\ \A b \in Commands \ {c} : At(b, "idle") /\ At(b, "idle")'
           /\ cmd'[c] = r /\ OneCommand'
<1>1. \A b \in Commands \ {c} : At(b, "idle")
  BY DEF RecInv, OneCommand
<1>2. cmd'[c] = r /\ \A b \in Commands \ {c} : cmd'[b] = cmd[b]
  BY DEF PidInv
<1>3. \A b \in Commands \ {c} : At(b, "idle")'
  BY <1>1, <1>2 DEF At
<1> QED
  BY <1>1, <1>2, <1>3 DEF OneCommand

LEMMA PidStep ==
    ASSUME PidInv, NEW c \in Commands,
           NEW r \in [at : Steps, pid : 0..MaxDaemons, empty : BOOLEAN],
           cmd' = [cmd EXCEPT ![c] = r], DOMAIN logOf' = Daemons,
           pidFile' # 0 => Existed(pidFile)',
           r.at \in {"record", "term", "wait", "remove"} => r.pid \in Daemons /\ life'[r.pid] # "unborn",
           \A d \in Daemons : Existed(d) => Existed(d)'
    PROVE  PidInv'
<1>1. cmd' \in [Commands -> [at : Steps, pid : 0..MaxDaemons, empty : BOOLEAN]]
  BY DEF PidInv
<1>2. ASSUME NEW b \in Commands, cmd'[b].at \in {"record", "term", "wait", "remove"}
      PROVE  Existed(cmd[b].pid)'
  <2>1. CASE b = c
    BY <1>2, <2>1 DEF PidInv, Existed
  <2>2. CASE b # c
    <3>1. cmd'[b] = cmd[b]
      BY <2>2 DEF PidInv
    <3>2. Existed(cmd[b].pid)
      BY <1>2, <3>1 DEF PidInv
    <3>3. cmd[b].pid \in Daemons /\ Existed(cmd[b].pid)'
      BY <3>1, <3>2 DEF Existed
    <3> QED
      BY <3>1, <3>3
  <2> QED
    BY <2>1, <2>2
<1> QED
  BY <1>1, <1>2 DEF PidInv

\* A command read the PID file: it was alone, or the history says so.
LEMMA CommandRec ==
    ASSUME TypeOK, PidInv, RecInv, NEW c \in Commands,
           NEW absent \in Steps, NEW running \in {"idle", "term"}, NEW dead \in Steps,
           absent \in {"idle", "look"}, dead \in {"clear", "clear+start"},
           Command(c, absent, running, dead)
    PROVE  PidInv' /\ RecInv'
<1> USE DEF daemonVars, routerVars
<1> DEFINE at == IF pidFile = 0 THEN absent ELSE IF Alive(pidFile) THEN running ELSE dead
           r == [at |-> at, pid |-> IF at = "term" THEN pidFile ELSE 0, empty |-> FALSE]
<1>1. /\ UNCHANGED <<life, logOf, termed, pidFile>> /\ At(c, "idle")
      /\ marks \subseteq marks'
      /\ "raced" \notin marks' => \A b \in Commands \ {c} : At(b, "idle")
  BY DEF Command, Mark
<1>2. cmd' = [cmd EXCEPT ![c] = r]
  BY Zenon DEF Command
<1>3. at \in Steps /\ r.at = at /\ r.pid = (IF at = "term" THEN pidFile ELSE 0)
  BY DEF Steps
<1>4. at = "term" => pidFile # 0 /\ Existed(pidFile)
  BY DEF PidInv
<1>5. r \in [at : Steps, pid : 0..MaxDaemons, empty : BOOLEAN]
  <2>1. r.pid \in 0..MaxDaemons
    BY <1>3, <1>4, DaemonFacts, DaemonAssumption DEF DaemonAssumption, Existed
  <2> QED
    BY <1>3, <2>1
<1>6. PidInv'
  <2>1. at \notin {"record", "wait", "remove"}
    OBVIOUS
  <2>2. r.at \in {"record", "term", "wait", "remove"} => r.pid \in Daemons /\ life'[r.pid] # "unborn"
    BY <1>1, <1>3, <1>4, <2>1 DEF Existed
  <2>3. (pidFile' # 0 => Existed(pidFile)') /\ DOMAIN logOf' = Daemons
    BY <1>1 DEF PidInv, Existed
  <2>4. \A d \in Daemons : Existed(d) => Existed(d)'
    BY <1>1 DEF Existed
  <2> HIDE DEF r, at
  <2> QED
    BY <1>2, <1>5, <2>2, <2>3, <2>4, PidStep
<1>7. ASSUME "raced" \notin marks'
      PROVE  /\ OneCommand'
             /\ \A b \in Commands : Replaces(b)' => ~Alive(pidFile)'
             /\ \A b \in Commands : At(b, "remove")' => ~Alive(cmd[b].pid)'
             /\ \A d \in Daemons : Alive(d)' /\ logOf'[d] # 0 => Found(d)'
  <2>1. /\ cmd'[c].at = at
        /\ \A b \in Commands \ {c} : cmd'[b].at = "idle" /\ At(b, "idle")'
    BY <1>1, <1>2, <1>3, <1>7 DEF PidInv, At
  <2>2. OneCommand'
    BY <2>1 DEF OneCommand
  <2>3. ASSUME NEW b \in Commands, Replaces(b)'
        PROVE  ~Alive(pidFile)'
    <3>1. b = c /\ at \notin {"idle", "term"}
      BY <2>1, <2>3 DEF Replaces
    <3>2. ~Alive(pidFile)
      BY <3>1 DEF Alive
    <3> QED
      BY <1>1, <3>2 DEF Alive
  <2>4. \A b \in Commands : ~At(b, "remove")'
    BY <2>1 DEF At
  <2>5. \A b \in Commands : ~At(b, "record")
    BY <1>1, <1>7 DEF At
  <2>6. ASSUME NEW d \in Daemons, Alive(d)', logOf'[d] # 0
        PROVE  Found(d)'
    <3>1. Found(d)
      BY <1>1, <1>7, <2>6 DEF RecInv, Alive
    <3>2. pidFile = d \/ d \in termed
      BY <2>5, <3>1 DEF Found
    <3> QED
      BY <1>1, <3>2 DEF Found
  <2> QED
    BY <2>2, <2>3, <2>4, <2>6
<1> QED
  BY <1>6, <1>7 DEF RecInv

\* What a command is after a step that only moves it.
LEMMA GotoFacts ==
    ASSUME PidInv, NEW c \in Commands, NEW step \in Steps, Goto(c, step)
    PROVE  \E r \in [at : Steps, pid : 0..MaxDaemons, empty : BOOLEAN] :
             cmd' = [cmd EXCEPT ![c] = r] /\ r.at = step /\ r.pid = cmd[c].pid
<1> DEFINE r == [cmd[c] EXCEPT !.at = step]
<1>1. r \in [at : Steps, pid : 0..MaxDaemons, empty : BOOLEAN]
  BY DEF PidInv
<1>2. r.at = step /\ r.pid = cmd[c].pid
  BY DEF PidInv
<1>3. cmd' = [cmd EXCEPT ![c] = r]
  BY DEF Goto
<1> QED
  BY <1>1, <1>2, <1>3

\* ... and after its last one.
LEMMA DoneFacts ==
    ASSUME NEW c \in Commands, Done(c)
    PROVE  /\ Ready \in [at : Steps, pid : 0..MaxDaemons, empty : BOOLEAN]
           /\ cmd' = [cmd EXCEPT ![c] = Ready] /\ Ready.at = "idle"
<1>1. 0 \in 0..MaxDaemons
  BY DaemonAssumption DEF DaemonAssumption
<1> QED
  BY <1>1 DEF Done, Ready, Steps

\* The only command under way takes a step that keeps what RecInv says of it.
LEMMA RecStep ==
    ASSUME PidInv, RecInv, NEW c \in Commands, ~At(c, "idle"), "raced" \notin marks,
           NEW r \in [at : Steps, pid : 0..MaxDaemons, empty : BOOLEAN],
           cmd' = [cmd EXCEPT ![c] = r],
           r.at \in {"clear", "clear+start", "look", "move", "spawn", "record"} => ~Alive(pidFile)',
           r.at = "remove" => r.pid \in Daemons /\ life'[r.pid] \in {"unborn", "dead"},
           \A d \in Daemons : Alive(d)' /\ logOf'[d] # 0 =>
             pidFile' = d \/ d \in termed' \/ (r.at = "record" /\ r.pid = d)
    PROVE  RecInv'
<1>1. /\ \A b \in Commands \ {c} : At(b, "idle") /\ At(b, "idle")'
      /\ cmd'[c] = r /\ OneCommand'
  BY Alone
<1>2. \A b \in Commands : Replaces(b)' => ~Alive(pidFile)'
  BY <1>1 DEF Replaces, At
<1>3. ASSUME NEW b \in Commands, At(b, "remove")'
      PROVE  ~Alive(cmd[b].pid)'
  <2>1. b = c
    BY <1>1, <1>3 DEF At
  <2> QED
    BY <1>1, <1>3, <2>1 DEF Alive, At
<1>4. \A d \in Daemons : Alive(d)' /\ logOf'[d] # 0 => Found(d)'
  BY <1>1 DEF Found, At
<1> QED
  BY <1>1, <1>2, <1>3, <1>4 DEF RecInv

LEMMA ClearRec ==
    ASSUME PidInv, RecInv, NEW c \in Commands, Clear(c)
    PROVE  PidInv' /\ RecInv'
<1> USE DEF daemonVars, routerVars
<1> DEFINE step == IF At(c, "clear") THEN "idle" ELSE "look"
<1>1. /\ UNCHANGED <<life, logOf, termed, marks>> /\ pidFile' = 0 /\ ~At(c, "idle")
      /\ Replaces(c) /\ Goto(c, step) /\ step \in Steps
  BY DEF Clear, At, Replaces, Steps
<1>2. PICK r \in [at : Steps, pid : 0..MaxDaemons, empty : BOOLEAN] :
             cmd' = [cmd EXCEPT ![c] = r] /\ r.at = step /\ r.pid = cmd[c].pid
  BY <1>1, GotoFacts
<1>3. PidInv'
  <2>1. DOMAIN logOf' = Daemons /\ \A d \in Daemons : Existed(d) => Existed(d)'
    BY <1>1 DEF PidInv, Existed
  <2> QED
    BY <1>1, <1>2, <2>1, PidStep
<1>4. RecInv'
  <2>1. CASE "raced" \notin marks
    <3>1. ASSUME NEW d \in Daemons, Alive(d)', logOf'[d] # 0
          PROVE  d \in termed'
      <4>1. Found(d) /\ pidFile # d /\ ~At(c, "record")
        BY <1>1, <2>1, <3>1 DEF RecInv, Alive, Clear, At
      <4>2. \A b \in Commands : ~At(b, "record")
        BY <1>1, <2>1, <4>1 DEF RecInv, OneCommand, At
      <4> QED
        BY <1>1, <4>1, <4>2 DEF Found
    <3>2. ~Alive(pidFile)' /\ r.at \notin {"remove", "record"}
      BY <1>1, <1>2 DEF Alive
    <3> HIDE DEF step
    <3> QED
      BY <1>1, <1>2, <2>1, <3>1, <3>2, RecStep
  <2>2. CASE "raced" \in marks
    BY <1>1, <2>2 DEF RecInv
  <2> QED
    BY <2>1, <2>2
<1> QED
  BY <1>3, <1>4

\* A command moves on before it starts or after it ended a daemon.
LEMMA GoesOnRec ==
    ASSUME PidInv, RecInv, NEW c \in Commands, ~At(c, "idle"), ~At(c, "record"),
           NEW r \in [at : Steps, pid : 0..MaxDaemons, empty : BOOLEAN],
           cmd' = [cmd EXCEPT ![c] = r], r.at # "record",
           r.at \in {"clear", "clear+start", "look", "move", "spawn", "record"} => Replaces(c),
           r.at \in {"term", "wait", "remove"} =>
             r.pid = cmd[c].pid /\ cmd[c].at \in {"term", "wait", "remove"},
           r.at = "remove" => life'[r.pid] = "dead",
           \A d \in Daemons : life'[d] = life[d] \/ (life[d] # "unborn" /\ life'[d] = "dead"),
           UNCHANGED <<pidFile, logOf, marks>>, termed \subseteq termed'
    PROVE  PidInv' /\ RecInv'
<1>1. \A d \in Daemons : /\ Existed(d) => Existed(d)'
                         /\ Alive(d)' => Alive(d)
  BY DEF Existed, Alive
<1>2. r.at \in {"term", "wait", "remove"} => r.pid \in Daemons /\ life'[r.pid] # "unborn"
  BY <1>1 DEF PidInv, Existed
<1>3. PidInv'
  <2>1. DOMAIN logOf' = Daemons /\ (pidFile' # 0 => Existed(pidFile)')
    BY <1>1 DEF PidInv, Existed
  <2> QED
    BY <1>1, <1>2, <2>1, PidStep
<1>4. RecInv'
  <2>1. CASE "raced" \notin marks
    <3>1. ASSUME NEW d \in Daemons, Alive(d)', logOf'[d] # 0
          PROVE  pidFile' = d \/ d \in termed'
      <4>1. Found(d)
        BY <1>1, <2>1, <3>1 DEF RecInv
      <4>2. \A b \in Commands : ~At(b, "record")
        BY <2>1 DEF RecInv, OneCommand, At
      <4> QED
        BY <4>1, <4>2 DEF Found
    <3>2. Replaces(c) => ~Alive(pidFile)'
      BY <1>1, <2>1 DEF RecInv, PidInv, Existed, Alive
    <3> QED
      BY <1>2, <2>1, <3>1, <3>2, RecStep
  <2>2. CASE "raced" \in marks
    BY <2>2 DEF RecInv
  <2> QED
    BY <2>1, <2>2
<1> QED
  BY <1>3, <1>4

LEMMA WaysOnRec ==
    ASSUME TypeOK, PidInv, RecInv, NEW c \in Commands,
           Look(c) \/ Move(c) \/ Terminate(c) \/ Wait(c)
    PROVE  PidInv' /\ RecInv'
<1> USE DEF daemonVars, routerVars
<1>1. CASE Look(c)
  <2> DEFINE r == [cmd[c] EXCEPT !.at = "move", !.empty = path # 0 /\ text[path] = <<>>]
  <2>1. /\ At(c, "look") /\ UNCHANGED <<life, logOf, termed, pidFile, marks>>
        /\ cmd' = [cmd EXCEPT ![c] = r]
    BY <1>1 DEF Look
  <2>2. /\ r \in [at : Steps, pid : 0..MaxDaemons, empty : BOOLEAN]
        /\ r.at = "move"
    <3>1. \A e : e \in BOOLEAN => [cmd[c] EXCEPT !.at = "move", !.empty = e]
                                    \in [at : Steps, pid : 0..MaxDaemons, empty : BOOLEAN]
      BY DEF PidInv, Steps
    <3>2. (path # 0 /\ text[path] = <<>>) \in BOOLEAN
      BY Zenon
    <3>3. r \in [at : Steps, pid : 0..MaxDaemons, empty : BOOLEAN]
      BY <3>1, <3>2, Zenon
    <3>4. \A e : [cmd[c] EXCEPT !.at = "move", !.empty = e].at = "move"
      BY DEF PidInv
    <3> QED
      BY <3>3, <3>4, Zenon
  <2>3. ~At(c, "idle") /\ ~At(c, "record") /\ Replaces(c)
    BY <2>1 DEF At, Replaces
  <2> HIDE DEF r
  <2> QED
    BY <2>1, <2>2, <2>3, GoesOnRec
<1>2. CASE Move(c)
  <2>1. /\ At(c, "move") /\ UNCHANGED <<life, logOf, termed, pidFile, marks>>
        /\ Goto(c, "spawn")
    BY <1>2 DEF Move
  <2>2. ~At(c, "idle") /\ ~At(c, "record") /\ Replaces(c) /\ "spawn" \in Steps
    BY <2>1 DEF At, Replaces, Steps
  <2>3. PICK r \in [at : Steps, pid : 0..MaxDaemons, empty : BOOLEAN] :
               cmd' = [cmd EXCEPT ![c] = r] /\ r.at = "spawn"
    BY <2>1, <2>2, GotoFacts
  <2> QED
    BY <2>1, <2>2, <2>3, GoesOnRec
<1>3. CASE Terminate(c)
  <2>1. /\ At(c, "term") /\ UNCHANGED <<life, logOf, pidFile, marks>>
        /\ termed \subseteq termed' /\ Goto(c, "wait")
    BY <1>3 DEF Terminate
  <2>2. ~At(c, "idle") /\ ~At(c, "record") /\ "wait" \in Steps
    BY <2>1 DEF At, Steps
  <2>3. PICK r \in [at : Steps, pid : 0..MaxDaemons, empty : BOOLEAN] :
               cmd' = [cmd EXCEPT ![c] = r] /\ r.at = "wait" /\ r.pid = cmd[c].pid
    BY <2>1, <2>2, GotoFacts
  <2> QED
    BY <2>1, <2>2, <2>3, GoesOnRec DEF At
<1>4. CASE Wait(c)
  <2>1. /\ At(c, "wait") /\ UNCHANGED <<logOf, termed, pidFile, marks>> /\ Goto(c, "remove")
        /\ IF Alive(cmd[c].pid) THEN life' = [life EXCEPT ![cmd[c].pid] = "dead"]
                                ELSE life' = life
    BY <1>4 DEF Wait, Kill
  <2>2. ~At(c, "idle") /\ ~At(c, "record") /\ "remove" \in Steps
    BY <2>1 DEF At, Steps
  <2>3. PICK r \in [at : Steps, pid : 0..MaxDaemons, empty : BOOLEAN] :
               cmd' = [cmd EXCEPT ![c] = r] /\ r.at = "remove" /\ r.pid = cmd[c].pid
    BY <2>1, <2>2, GotoFacts
  <2>4. Existed(cmd[c].pid)
    BY <2>1 DEF PidInv, At
  <2>5. /\ life'[cmd[c].pid] = "dead"
        /\ \A d \in Daemons : life'[d] = life[d] \/ (life[d] # "unborn" /\ life'[d] = "dead")
    BY <2>1, <2>4, DaemonFacts DEF TypeOK, Existed, Alive
  <2> QED
    BY <2>1, <2>2, <2>3, <2>5, GoesOnRec DEF At
<1> QED
  BY <1>1, <1>2, <1>3, <1>4

\* StartDetached starts the daemon and records it in a later step.
LEMMA SpawnRec ==
    ASSUME TypeOK, PidInv, RecInv, NEW c \in Commands, Spawn(c)
    PROVE  PidInv' /\ RecInv'
<1> USE DEF daemonVars, routerVars
<1>1. At(c, "spawn") /\ UNCHANGED <<pidFile, marks>>
  BY DEF Spawn
<1>2. ~At(c, "idle") /\ ~At(c, "record") /\ Replaces(c)
  BY <1>1 DEF At, Replaces
<1>3. ASSUME NEW d \in Unborn, Born(d, IF path # 0 THEN path ELSE Len(text) + 1),
             cmd' = [cmd EXCEPT ![c] = [at |-> "record", pid |-> d, empty |-> FALSE]]
      PROVE  PidInv' /\ RecInv'
  <2> DEFINE r == [at |-> "record", pid |-> d, empty |-> FALSE]
             log == IF path # 0 THEN path ELSE Len(text) + 1
  <2>1. /\ d \in Daemons /\ life[d] = "unborn" /\ UNCHANGED termed
        /\ \A e \in Daemons : life'[e] = IF e = d THEN "boot" ELSE life[e]
    BY <1>3 DEF TypeOK, Born, Unborn
  <2>2. DOMAIN logOf' = Daemons /\ \A e \in Daemons : e # d => logOf'[e] = logOf[e]
    <3> HIDE DEF log
    <3> QED
      BY <1>3 DEF PidInv, Born
  <2>3. r \in [at : Steps, pid : 0..MaxDaemons, empty : BOOLEAN] /\ r.at = "record" /\ r.pid = d
    BY <2>1, DaemonFacts DEF Steps
  <2>4. PidInv'
    <3>1. \A e \in Daemons : Existed(e) => Existed(e)'
      BY <2>1 DEF Existed
    <3>2. pidFile' # 0 => Existed(pidFile)'
      BY <1>1, <3>1 DEF PidInv, Existed
    <3>3. r.pid \in Daemons /\ life'[r.pid] # "unborn" /\ cmd' = [cmd EXCEPT ![c] = r]
      BY <1>3, <2>1, <2>3
    <3> HIDE DEF r
    <3> QED
      BY <2>2, <2>3, <3>1, <3>2, <3>3, PidStep
  <2>5. RecInv'
    <3>1. CASE "raced" \notin marks
      <4>1. ~Alive(pidFile)'
        BY <1>1, <1>2, <2>1, <3>1 DEF RecInv, PidInv, Existed, Alive
      <4>2. ASSUME NEW e \in Daemons, Alive(e)', logOf'[e] # 0
            PROVE  pidFile' = e \/ e \in termed' \/ (r.at = "record" /\ r.pid = e)
        <5>1. CASE e = d
          BY <2>3, <5>1
        <5>2. CASE e # d
          <6>1. Alive(e) /\ logOf[e] # 0
            BY <2>1, <2>2, <4>2, <5>2 DEF Alive
          <6>2. Found(e)
            BY <3>1, <6>1 DEF RecInv
          <6>3. \A b \in Commands : ~At(b, "record")
            BY <1>2, <3>1 DEF RecInv, OneCommand, At
          <6> QED
            BY <1>1, <2>1, <6>2, <6>3 DEF Found
        <5> QED
          BY <5>1, <5>2
      <4>3. cmd' = [cmd EXCEPT ![c] = r] /\ r.at # "remove"
        BY <1>3, <2>3
      <4> HIDE DEF r
      <4> QED
        BY <1>2, <2>3, <3>1, <4>1, <4>2, <4>3, RecStep
    <3>2. CASE "raced" \in marks
      BY <1>1, <3>2 DEF RecInv
    <3> QED
      BY <3>1, <3>2
  <2> QED
    BY <2>4, <2>5
<1>4. CASE Done(c) /\ UNCHANGED daemonVars
  <2>1. /\ Ready \in [at : Steps, pid : 0..MaxDaemons, empty : BOOLEAN]
        /\ cmd' = [cmd EXCEPT ![c] = Ready] /\ Ready.at = "idle"
    BY <1>4, DoneFacts
  <2> QED
    BY <1>1, <1>2, <1>4, <2>1, GoesOnRec
<1> QED
  BY <1>3, <1>4 DEF Spawn

LEMMA RecordRec ==
    ASSUME TypeOK, PidInv, RecInv, NEW c \in Commands, RecordPID(c)
    PROVE  PidInv' /\ RecInv'
<1>1. /\ At(c, "record") /\ UNCHANGED <<life, logOf>> /\ Done(c)
      /\ termed \subseteq termed' /\ marks \subseteq marks'
      /\ \/ pidFile' = cmd[c].pid
         \/ pidFile' = pidFile /\ cmd[c].pid \in termed'
  BY DEF RecordPID, Unrecorded, Mark
<1>2. ~At(c, "idle") /\ Replaces(c) /\ Existed(cmd[c].pid)
  BY <1>1 DEF At, Replaces, PidInv
<1>3. /\ Ready \in [at : Steps, pid : 0..MaxDaemons, empty : BOOLEAN]
      /\ cmd' = [cmd EXCEPT ![c] = Ready] /\ Ready.at = "idle"
  BY <1>1, DoneFacts
<1>4. PidInv'
  <2>1. /\ DOMAIN logOf' = Daemons
        /\ pidFile' # 0 => Existed(pidFile)'
        /\ \A d \in Daemons : Existed(d) => Existed(d)'
    BY <1>1, <1>2 DEF PidInv, Existed
  <2> QED
    BY <1>3, <2>1, PidStep
<1>5. RecInv'
  <2>1. CASE "raced" \notin marks'
    <3>1. "raced" \notin marks /\ ~Alive(pidFile)
      BY <1>1, <1>2, <2>1 DEF RecInv
    <3>2. ASSUME NEW d \in Daemons, Alive(d)', logOf'[d] # 0
          PROVE  pidFile' = d \/ d \in termed'
      <4>1. Alive(d) /\ Found(d)
        BY <1>1, <3>1, <3>2 DEF RecInv, Alive
      <4>2. d \in termed \/ \E b \in Commands : At(b, "record") /\ cmd[b].pid = d
        BY <3>1, <4>1 DEF Found
      <4>3. d \in termed \/ cmd[c].pid = d
        BY <1>2, <3>1, <4>2 DEF RecInv, OneCommand, At
      <4> QED
        BY <1>1, <4>3
    <3> QED
      BY <1>2, <1>3, <3>1, <3>2, RecStep
  <2>2. CASE "raced" \in marks'
    BY <2>2 DEF RecInv
  <2> QED
    BY <2>1, <2>2
<1> QED
  BY <1>4, <1>5

\* StopDetached removes the PID of a process that is gone.
LEMMA RemoveRec ==
    ASSUME TypeOK, PidInv, RecInv, NEW c \in Commands, RemovePID(c)
    PROVE  PidInv' /\ RecInv'
<1> USE DEF daemonVars
<1>1. /\ At(c, "remove") /\ UNCHANGED <<life, logOf, termed, marks>> /\ Done(c)
      /\ pidFile' = IF pidFile = cmd[c].pid THEN 0 ELSE pidFile
  BY DEF RemovePID
<1>2. ~At(c, "idle") /\ ~At(c, "record") /\ Existed(cmd[c].pid)
  BY <1>1 DEF At, PidInv
<1>3. /\ Ready \in [at : Steps, pid : 0..MaxDaemons, empty : BOOLEAN]
      /\ cmd' = [cmd EXCEPT ![c] = Ready] /\ Ready.at = "idle"
  BY <1>1, DoneFacts
<1>4. PidInv'
  <2>1. /\ DOMAIN logOf' = Daemons
        /\ pidFile' # 0 => Existed(pidFile)'
        /\ \A d \in Daemons : Existed(d) => Existed(d)'
    BY <1>1 DEF PidInv, Existed
  <2> QED
    BY <1>3, <2>1, PidStep
<1>5. RecInv'
  <2>1. CASE "raced" \notin marks
    <3>1. ASSUME NEW d \in Daemons, Alive(d)', logOf'[d] # 0
          PROVE  pidFile' = d \/ d \in termed'
      <4>1. Alive(d) /\ Found(d)
        BY <1>1, <2>1, <3>1 DEF RecInv, Alive
      <4>2. pidFile = d \/ d \in termed
        BY <1>2, <2>1, <4>1 DEF RecInv, OneCommand, At, Found
      <4>3. d # cmd[c].pid
        BY <1>1, <2>1, <4>1 DEF RecInv
      <4> QED
        BY <1>1, <4>2, <4>3
    <3> QED
      BY <1>1, <1>2, <1>3, <2>1, <3>1, RecStep
  <2>2. CASE "raced" \in marks
    BY <1>1, <2>2 DEF RecInv
  <2> QED
    BY <2>1, <2>2
<1> QED
  BY <1>4, <1>5

\* A daemon that takes a step of its own lived, and is never unborn again.
LEMMA DaemonRec ==
    ASSUME TypeOK, PidInv, RecInv, NEW d \in Daemons, DaemonStep(d)
    PROVE  PidInv' /\ RecInv'
<1> USE DEF daemonVars, routerVars, cmdVars
<1>1. UNCHANGED <<cmd, pidFile, logOf, termed>> /\ marks \subseteq marks'
  BY DEF DaemonStep, RecoverRouter, Autostart, Launch, DiesLaunching, DialSocket, RemoveStale,
         Bind, Signalled, Unlink, StopRouter, DaemonDies, Become, Dies, Mark
<1>2. /\ Alive(d)
      /\ \E stage \in {"launch", "dial", "unstale", "bind", "serve", "unlink", "stop", "dead"} :
           life' = [life EXCEPT ![d] = stage]
  <2>1. CASE RecoverRouter(d) \/ Autostart(d) \/ DiesLaunching(d)
    BY <2>1, DaemonFacts DEF RecoverRouter, Autostart, DiesLaunching, Become, Alive
  <2>2. CASE DialSocket(d)
    BY <2>2, DaemonFacts DEF DialSocket, Become, Dies, Alive
  <2>3. CASE RemoveStale(d)
    BY <2>3, DaemonFacts DEF RemoveStale, Become, Alive
  <2>4. CASE Bind(d)
    BY <2>4, DaemonFacts DEF Bind, Become, Dies, Alive
  <2>5. CASE Signalled(d)
    BY <2>5 DEF Signalled, Become, Dies
  <2>6. CASE Unlink(d)
    BY <2>6, DaemonFacts DEF Unlink, Become, Alive
  <2>7. CASE StopRouter(d)
    BY <2>7, DaemonFacts DEF StopRouter, Become, Alive
  <2>8. CASE DaemonDies(d)
    BY <2>8 DEF DaemonDies, Dies, Become
  <2> QED
    BY <2>1, <2>2, <2>3, <2>4, <2>5, <2>6, <2>7, <2>8 DEF DaemonStep
<1>3. ASSUME NEW e \in Daemons
      PROVE  /\ life[e] # "unborn" => life'[e] # "unborn"
             /\ Alive(e)' => Alive(e)
  BY <1>2 DEF TypeOK, Alive
<1> QED
  BY <1>1, <1>3, CommandsStay

\* A daemon in the foreground has no log and no PID file.
LEMMA ForegroundRec ==
    ASSUME TypeOK, PidInv, RecInv, ServeForeground
    PROVE  PidInv' /\ RecInv'
<1> USE DEF cmdVars
<1>1. UNCHANGED <<cmd, pidFile, marks>>
  BY DEF ServeForeground
<1>2. PICK d \in Unborn : Born(d, 0)
  BY DEF ServeForeground
<1>3. /\ d \in Daemons /\ life[d] = "unborn" /\ UNCHANGED termed
      /\ \A e \in Daemons : life'[e] = IF e = d THEN "boot" ELSE life[e]
      /\ DOMAIN logOf' = Daemons
      /\ \A e \in Daemons : logOf'[e] = IF e = d THEN 0 ELSE logOf[e]
  BY <1>2 DEF TypeOK, PidInv, Born, Unborn
<1>4. PidInv'
  BY <1>1, <1>3 DEF PidInv, Existed
<1>5. RecInv'
  <2>1. SUFFICES ASSUME "raced" \notin marks
                 PROVE  RecInv'
    BY <1>1 DEF RecInv
  <2>2. OneCommand'
    BY <1>1, <2>1 DEF RecInv, OneCommand, At
  <2>3. \A c \in Commands : Replaces(c)' => ~Alive(pidFile)'
    BY <1>1, <1>3, <2>1 DEF RecInv, PidInv, Existed, Replaces, Alive
  <2>4. \A c \in Commands : At(c, "remove")' => ~Alive(cmd[c].pid)'
    BY <1>1, <1>3, <2>1 DEF RecInv, PidInv, Existed, At, Alive
  <2>5. \A e \in Daemons : Alive(e)' /\ logOf'[e] # 0 => Found(e)'
    BY <1>1, <1>3, <2>1 DEF RecInv, Found, At, Alive
  <2> QED
    BY <2>2, <2>3, <2>4, <2>5 DEF RecInv
<1> QED
  BY <1>4, <1>5

LEMMA InitRInv ==
    ASSUME Init
    PROVE  RInv
<1>1. /\ cmd = [c \in Commands |-> Ready] /\ pidFile = 0
      /\ life = [d \in Daemons |-> "unborn"] /\ logOf = [d \in Daemons |-> 0]
  BY DEF Init
<1>2. Ready \in [at : Steps, pid : 0..MaxDaemons, empty : BOOLEAN] /\ Ready.at = "idle"
  BY DaemonAssumption DEF DaemonAssumption, Ready, Steps
<1>3. PidInv
  BY <1>1, <1>2 DEF PidInv
<1>4. RecInv
  BY <1>1, <1>2 DEF RecInv, OneCommand, Replaces, At, Alive
<1> QED
  BY <1>3, <1>4, InitDInv DEF RInv

LEMMA RInvStep ==
    ASSUME RInv, [Next]_vars
    PROVE  RInv'
<1> USE DEF daemonVars, routerVars, cmdVars
<1>0. DInv' /\ TypeOK /\ PidInv /\ RecInv
  BY DInvStep DEF RInv, DInv
<1>1. ASSUME NEW c \in Commands, StartDetached(c)
      PROVE  PidInv' /\ RecInv'
  BY <1>0, <1>1, CommandRec DEF StartDetached, Steps
<1>2. ASSUME NEW c \in Commands, StatusDetached(c)
      PROVE  PidInv' /\ RecInv'
  BY <1>0, <1>2, CommandRec DEF StatusDetached, Steps
<1>3. ASSUME NEW c \in Commands, StopDetached(c)
      PROVE  PidInv' /\ RecInv'
  BY <1>0, <1>3, CommandRec DEF StopDetached, Steps
<1>4. ASSUME NEW c \in Commands, CommandStep(c)
      PROVE  PidInv' /\ RecInv'
  BY <1>0, <1>4, ClearRec, WaysOnRec, SpawnRec, RecordRec, RemoveRec DEF CommandStep
<1>5. ServeForeground => PidInv' /\ RecInv'
  BY <1>0, ForegroundRec
<1>6. ASSUME NEW d \in Daemons, DaemonStep(d)
      PROVE  PidInv' /\ RecInv'
  BY <1>0, <1>6, DaemonRec
<1>7. ASSUME UNCHANGED <<life, logOf, termed, cmd, pidFile>>, marks \subseteq marks'
      PROVE  PidInv' /\ RecInv'
  BY <1>0, <1>7, CommandsStay DEF Alive
<1>8. ASSUME NEW d \in Daemons, DaemonLogs(d)
      PROVE  PidInv' /\ RecInv'
  BY <1>7, <1>8 DEF DaemonLogs
<1>9. UseRouter \/ Reader \/ Poll \/ UNCHANGED vars => PidInv' /\ RecInv'
  BY <1>7 DEF UseRouter, Launch, Mark, Reader, Poll, vars
<1>10. PidInv' /\ RecInv'
  BY <1>1, <1>2, <1>3, <1>4, <1>5, <1>6, <1>8, <1>9 DEF Next
<1> QED
  BY <1>0, <1>10 DEF RInv

\* The inductive invariant of the PID file.
THEOREM PidInductive == Spec => []RInv
<1>1. Init => RInv
  BY InitRInv
<1>2. RInv /\ [Next]_vars => RInv'
  BY RInvStep
<1> QED
  BY <1>1, <1>2, PTL DEF Spec

\* As long as no two commands run at once, no live detached daemon is unknown to
\* the PID file (StartDetached and StopDetached, platform/process/detached.go),
\* however many daemons and commands come and go.
THEOREM RecordedHolds == Spec => []Recorded
<1>1. RInv => Recorded
  BY DEF RInv, RecInv, Recorded, Found
<1> QED
  BY <1>1, PidInductive, PTL

----------------------------------------------------------------------------
(* The log and its follower                                                *)
(*                                                                         *)
(* FollowExact is not inductive.  What it needs: lines are numbered as     *)
(* they are written, in whatever file, so a file the follower has not seen *)
(* holds later lines than all it printed; and of the file it reads, exactly*)
(* the lines up to its offset were printed, or were there before it began. *)

Ascending(s) == \A i, j \in 1..Len(s) : i < j => s[i] < s[j]
Below(s, n) == \A i \in 1..Len(s) : s[i] < n
AllLines == UNION {LinesOf(i) : i \in 1..Len(text)}
FollowType == [step : {"off", "wait", "copy", "ended"}, file : Nat, offset : Nat, from : Nat,
               seen : Nat, size : Nat]

LogType ==
    /\ text \in Seq(Seq(Nat)) /\ path \in 0..Len(text)
    /\ logOf \in [Daemons -> 0..Len(text)]
    /\ out \in Seq(Nat) /\ mixed \in BOOLEAN
    /\ follow \in FollowType /\ follow.file <= Len(text) /\ follow.seen <= Len(text)

LinesInv ==
    /\ IsFiniteSet(AllLines)
    /\ \A i \in 1..Len(text) : Ascending(text[i]) /\ Below(text[i], LastLine + 1)
    /\ Below(out, LastLine + 1)

\* The file the follower reads, and how far it is.
Cur == IF follow.step = "copy" THEN follow.seen ELSE follow.file
Printed(n) == \E i \in 1..Len(out) : out[i] = n

\* A file that is not read yet holds nothing that was printed.
Unseen == path # 0 /\ path # Cur => \A k \in 1..Len(text[path]) : Below(out, text[path][k])
\* The one that is read was printed up to the offset.
Read == Cur # 0 =>
    /\ follow.offset <= Len(text[Cur])
    /\ \A k \in 1..Len(text[Cur]) : k > follow.offset => Below(out, text[Cur][k])
    /\ \A k \in 1..Len(text[Cur]) :
         k <= follow.offset /\ text[Cur][k] > follow.from => Printed(text[Cur][k])

FollowInv == ~mixed =>
    /\ Ascending(out)
    /\ follow.step \in {"wait", "copy"} => Unseen /\ Read
    /\ follow.step = "copy" => follow.seen # 0 /\ follow.size <= Len(text[follow.seen])

FInv == LogType /\ LinesInv /\ FollowInv

LEMMA FilesFacts ==
    ASSUME NEW t \in Seq(Seq(Nat))
    PROVE  /\ Len(t) \in Nat
           /\ \A i \in 1..Len(t) : /\ t[i] \in Seq(Nat) /\ Len(t[i]) \in Nat
                                   /\ \A k \in 1..Len(t[i]) : t[i][k] \in Nat
<1>1. Len(t) \in Nat /\ \A i \in 1..Len(t) : t[i] \in Seq(Nat)
  OBVIOUS
<1> QED
  BY <1>1

LinesIn(s) == {s[k] : k \in 1..Len(s)}

LEMMA AllLinesIn ==
    /\ AllLines = UNION {LinesIn(text[j]) : j \in 1..Len(text)}
    /\ AllLines' = UNION {LinesIn(text'[j]) : j \in 1..Len(text')}
  BY DEF AllLines, LinesOf, LinesIn

LEMMA EmptyLines ==
    Ascending(<<>>) /\ LinesIn(<<>>) = {} /\ \A n : Below(<<>>, n)
  BY DEF Ascending, Below, LinesIn

\* A later line at the end of a file.
LEMMA AppendLine ==
    ASSUME NEW s \in Seq(Nat), NEW n \in Nat, Ascending(s), Below(s, n)
    PROVE  /\ Append(s, n) \in Seq(Nat) /\ Len(Append(s, n)) = Len(s) + 1
           /\ Append(s, n)[Len(s) + 1] = n
           /\ \A k \in 1..Len(s) : Append(s, n)[k] = s[k]
           /\ Ascending(Append(s, n)) /\ Below(Append(s, n), n + 1)
           /\ LinesIn(Append(s, n)) = LinesIn(s) \cup {n}
<1> DEFINE t == Append(s, n)
<1>1. /\ t \in Seq(Nat) /\ Len(t) = Len(s) + 1 /\ Len(s) \in Nat
      /\ t[Len(s) + 1] = n
      /\ \A k \in 1..Len(s) : t[k] = s[k] /\ s[k] \in Nat
  OBVIOUS
<1> HIDE DEF t
<1>2. 1..Len(t) = 1..Len(s) \cup {Len(s) + 1}
  BY <1>1
<1>3. Ascending(t)
  <2>1. SUFFICES ASSUME NEW i \in 1..Len(t), NEW j \in 1..Len(t), i < j
                 PROVE  t[i] < t[j]
    BY DEF Ascending
  <2>2. i \in 1..Len(s) /\ (j \in 1..Len(s) \/ j = Len(s) + 1)
    <3>1. Len(t) = Len(s) + 1 /\ Len(s) \in Nat
      BY <1>1
    <3> QED
      BY <2>1, <3>1
  <2>3. CASE j \in 1..Len(s)
    BY <1>1, <2>1, <2>2, <2>3 DEF Ascending
  <2>4. CASE j = Len(s) + 1
    BY <1>1, <2>2, <2>4 DEF Below
  <2> QED
    BY <2>2, <2>3, <2>4
<1>4. Below(t, n + 1)
  <2>1. SUFFICES ASSUME NEW k \in 1..Len(t)
                 PROVE  t[k] < n + 1
    BY DEF Below
  <2>2. CASE k \in 1..Len(s)
    <3>1. t[k] = s[k] /\ s[k] \in Nat /\ s[k] < n
      BY <1>1, <2>2 DEF Below
    <3> QED
      BY <3>1
  <2>3. CASE k = Len(s) + 1
    BY <1>1, <2>3
  <2> QED
    BY <1>2, <2>1, <2>2, <2>3
<1>5. LinesIn(t) = LinesIn(s) \cup {n}
  <2>1. LinesIn(t) = {t[k] : k \in 1..Len(s)} \cup {t[Len(s) + 1]}
    BY <1>2 DEF LinesIn
  <2>2. {t[k] : k \in 1..Len(s)} = {s[k] : k \in 1..Len(s)}
    BY <1>1
  <2> QED
    BY <1>1, <2>1, <2>2 DEF LinesIn
<1> QED
  BY <1>1, <1>3, <1>4, <1>5 DEF t

LEMMA LastLineFacts ==
    ASSUME LinesInv
    PROVE  LastLine = Cardinality(AllLines) /\ LastLine \in Nat
  BY FS_CardinalityType DEF LinesInv, LastLine, AllLines

LEMMA SameLines ==
    ASSUME LinesInv, UNCHANGED <<text, out>>
    PROVE  LinesInv'
<1>1. AllLines' = AllLines
  BY AllLinesIn
<1>2. LastLine' = LastLine
  BY <1>1 DEF LastLine, AllLines
<1>3. \A i \in 1..Len(text) : Ascending(text[i]) /\ Below(text[i], LastLine + 1)
  BY DEF LinesInv
<1>4. IsFiniteSet(AllLines) /\ Below(out, LastLine + 1)
  BY DEF LinesInv
<1> QED
  BY <1>1, <1>2, <1>3, <1>4 DEF LinesInv, Ascending, Below

\* Only the follower is told what happens to the files: they grow, by later
\* lines than it printed, and another file at the path begins empty.
LEMMA Grows ==
    ASSUME LogType, LogType', FollowInv, UNCHANGED <<follow, out, mixed>>,
           Len(text) <= Len(text'),
           \A j \in 1..Len(text) :
             /\ Len(text[j]) <= Len(text'[j])
             /\ \A k \in 1..Len(text[j]) : text'[j][k] = text[j][k]
             /\ \A k \in 1..Len(text'[j]) : k > Len(text[j]) => Below(out, text'[j][k]),
           path' \in {0, path} \/ (path' \in 1..Len(text') /\ text'[path'] = <<>>)
    PROVE  FollowInv'
<1>1. SUFFICES ASSUME ~mixed, FollowInv
               PROVE  /\ Ascending(out)
                      /\ follow.step \in {"wait", "copy"} => Unseen' /\ Read'
                      /\ follow.step = "copy" =>
                           follow.seen # 0 /\ follow.size <= Len(text'[follow.seen])
  BY DEF FollowInv, Ascending
<1>2. /\ Cur' = Cur /\ Cur \in 0..Len(text)
      /\ follow.seen \in 0..Len(text) /\ follow.size \in Nat /\ follow.offset \in Nat
      /\ Len(text) \in Nat /\ Len(text') \in Nat /\ path \in 0..Len(text)
  BY DEF Cur, LogType, FollowType
<1>3. \A j \in 1..Len(text) : Len(text[j]) \in Nat /\ Len(text'[j]) \in Nat
  <2>1. text \in Seq(Seq(Nat)) /\ text' \in Seq(Seq(Nat))
    BY DEF LogType
  <2>2. \A j \in 1..Len(text) : Len(text[j]) \in Nat
    BY <2>1, FilesFacts
  <2>3. \A j \in 1..Len(text') : Len(text'[j]) \in Nat
    BY <2>1, FilesFacts
  <2> QED
    BY <1>2, <2>2, <2>3
<1>4. ASSUME follow.step \in {"wait", "copy"}
      PROVE  Unseen'
  <2>1. SUFFICES ASSUME path' # 0, path' # Cur, NEW k \in 1..Len(text'[path'])
                 PROVE  Below(out, text'[path'][k])
    BY <1>2 DEF Unseen, Below
  <2>2. CASE path' = path
    <3>1. path \in 1..Len(text) /\ \A m \in 1..Len(text[path]) : Below(out, text[path][m])
      <4>1. path \in 1..Len(text) /\ Unseen
        BY <1>1, <1>2, <1>4, <2>1, <2>2 DEF FollowInv
      <4> QED
        BY <2>1, <2>2, <4>1 DEF Unseen
    <3>2. CASE k <= Len(text[path])
      <4>1. k \in 1..Len(text[path])
        BY <1>3, <2>1, <2>2, <3>1, <3>2
      <4>2. text'[path'][k] = text[path][k]
        BY <2>2, <3>1, <4>1
      <4> QED
        BY <3>1, <4>1, <4>2
    <3>3. CASE k > Len(text[path])
      BY <2>1, <2>2, <3>1, <3>3
    <3> QED
      BY <1>3, <3>1, <3>2, <3>3
  <2>3. CASE text'[path'] = <<>>
    BY <2>1, <2>3
  <2> QED
    BY <2>1, <2>2, <2>3
<1>5. ASSUME follow.step \in {"wait", "copy"}
      PROVE  Read'
  <2>1. SUFFICES ASSUME Cur # 0
                 PROVE  /\ follow.offset <= Len(text'[Cur])
                        /\ \A k \in 1..Len(text'[Cur]) :
                             k > follow.offset => Below(out, text'[Cur][k])
                        /\ \A k \in 1..Len(text'[Cur]) :
                             k <= follow.offset /\ text'[Cur][k] > follow.from
                               => Printed(text'[Cur][k])
    BY <1>2 DEF Read, Below, Printed
  <2>2. Cur \in 1..Len(text) /\ Read
    BY <1>1, <1>2, <1>5, <2>1 DEF FollowInv
  <2>3. follow.offset <= Len(text[Cur]) /\ follow.offset <= Len(text'[Cur])
    BY <1>2, <1>3, <2>2 DEF Read
  <2>4. ASSUME NEW k \in 1..Len(text'[Cur]), k > follow.offset
        PROVE  Below(out, text'[Cur][k])
    <3>1. CASE k <= Len(text[Cur])
      BY <1>3, <2>1, <2>2, <2>4, <3>1 DEF Read
    <3>2. CASE k > Len(text[Cur])
      BY <2>2, <3>2
    <3> QED
      BY <1>3, <2>2, <3>1, <3>2
  <2>5. ASSUME NEW k \in 1..Len(text'[Cur]), k <= follow.offset, text'[Cur][k] > follow.from
        PROVE  Printed(text'[Cur][k])
    <3>1. k \in 1..Len(text[Cur]) /\ text'[Cur][k] = text[Cur][k]
      BY <1>2, <1>3, <2>2, <2>3, <2>5
    <3> QED
      BY <2>1, <2>2, <2>5, <3>1 DEF Read
  <2> QED
    BY <2>3, <2>4, <2>5
<1>6. ASSUME follow.step = "copy"
      PROVE  follow.seen # 0 /\ follow.size <= Len(text'[follow.seen])
  <2>1. follow.seen \in 1..Len(text) /\ follow.size <= Len(text[follow.seen])
    BY <1>1, <1>2, <1>6 DEF FollowInv
  <2> QED
    BY <1>2, <1>3, <2>1
<1> QED
  BY <1>1, <1>4, <1>5, <1>6 DEF FollowInv

\* The log is moved away, or nothing happens to it.
LEMMA PathGone ==
    ASSUME FInv, UNCHANGED <<text, follow, out, mixed>>, path' \in {0, path},
           logOf' \in [Daemons -> 0..Len(text)]
    PROVE  FInv'
<1>1. LogType'
  BY DEF FInv, LogType
<1>2. LinesInv'
  BY SameLines DEF FInv
<1>3. \A j \in 1..Len(text) : Len(text[j]) \in Nat
  BY FilesFacts DEF FInv, LogType
<1>4. FollowInv'
  BY <1>1, <1>3, Grows DEF FInv
<1> QED
  BY <1>1, <1>2, <1>4 DEF FInv

\* OpenLog makes a file when there is none.
LEMMA OpenLogF ==
    ASSUME FInv, OpenLog, UNCHANGED <<follow, out, mixed>>,
           logOf' \in [Daemons -> 0..Len(text')]
    PROVE  FInv'
<1>1. CASE path # 0
  BY <1>1, PathGone DEF OpenLog
<1>2. CASE path = 0
  <2>1. text' = Append(text, <<>>) /\ path' = Len(text) + 1
    BY <1>2 DEF OpenLog
  <2>2. text \in Seq(Seq(Nat)) /\ Len(text) \in Nat /\ <<>> \in Seq(Nat)
    BY DEF FInv, LogType
  <2>3. /\ text' \in Seq(Seq(Nat)) /\ Len(text') = Len(text) + 1 /\ text'[Len(text) + 1] = <<>>
        /\ \A j \in 1..Len(text) : text'[j] = text[j]
    BY <2>1, <2>2
  <2>4. LogType'
    BY <2>1, <2>2, <2>3 DEF FInv, LogType, FollowType
  <2>5. AllLines' = AllLines
    <3>1. \A j \in 1..Len(text) : LinesIn(text'[j]) = LinesIn(text[j])
      BY <2>3
    <3>2. LinesIn(text'[Len(text) + 1]) = {}
      BY <2>3, EmptyLines
    <3>3. 1..Len(text') = 1..Len(text) \cup {Len(text) + 1}
      BY <2>2, <2>3
    <3> QED
      BY <3>1, <3>2, <3>3, AllLinesIn
  <2>6. LastLine' = LastLine
    BY <2>5 DEF LastLine, AllLines
  <2>7. LinesInv'
    <3>1. \A i \in 1..Len(text') : Ascending(text'[i]) /\ Below(text'[i], LastLine + 1)
      <4>1. \A i \in 1..Len(text) : Ascending(text'[i]) /\ Below(text'[i], LastLine + 1)
        BY <2>3 DEF FInv, LinesInv
      <4>2. ASSUME NEW i \in 1..Len(text'), i \notin 1..Len(text)
            PROVE  Ascending(text'[i]) /\ Below(text'[i], LastLine + 1)
        <5>1. text'[i] = <<>>
          BY <2>2, <2>3, <4>2
        <5> QED
          BY <5>1, EmptyLines
      <4> QED
        BY <4>1, <4>2
    <3>2. IsFiniteSet(AllLines') /\ Below(out, LastLine + 1)
      BY <2>5 DEF FInv, LinesInv
    <3> QED
      BY <2>5, <2>6, <3>1, <3>2 DEF LinesInv, Ascending, Below
  <2>8. FollowInv'
    <3>1. \A j \in 1..Len(text) : Len(text[j]) \in Nat
      BY <2>2, FilesFacts
    <3>2. /\ Len(text) <= Len(text') /\ path' \in 1..Len(text') /\ text'[path'] = <<>>
          /\ \A j \in 1..Len(text) :
               /\ Len(text[j]) <= Len(text'[j])
               /\ \A k \in 1..Len(text[j]) : text'[j][k] = text[j][k]
               /\ \A k \in 1..Len(text'[j]) : k > Len(text[j]) => Below(out, text'[j][k])
      BY <2>1, <2>2, <2>3, <3>1
    <3> QED
      BY <2>4, <3>2, Grows DEF FInv
  <2> QED
    BY <2>4, <2>7, <2>8 DEF FInv
<1> QED
  BY <1>1, <1>2

\* A line is the last of all, whatever file it is written to.
LEMMA WriteLineF ==
    ASSUME FInv, NEW i \in 1..Len(text), WriteLine(i), UNCHANGED logOf
    PROVE  FInv'
<1> DEFINE n == LastLine + 1
<1>1. /\ text' = [text EXCEPT ![i] = Append(text[i], n)]
      /\ UNCHANGED <<path, follow, out, mixed>>
  BY DEF WriteLine, followVars
<1>2. /\ text \in Seq(Seq(Nat)) /\ Len(text) \in Nat /\ LastLine \in Nat /\ n \in Nat
      /\ \A j \in 1..Len(text) : text[j] \in Seq(Nat) /\ Len(text[j]) \in Nat
      /\ \A j \in 1..Len(text) : \A k \in 1..Len(text[j]) : text[j][k] \in Nat
  BY FilesFacts, LastLineFacts DEF FInv, LogType
<1> HIDE DEF n
<1>3. PICK t : /\ t = Append(text[i], n) /\ t \in Seq(Nat) /\ Len(t) = Len(text[i]) + 1
               /\ t[Len(text[i]) + 1] = n /\ \A k \in 1..Len(text[i]) : t[k] = text[i][k]
               /\ Ascending(t) /\ Below(t, n + 1) /\ LinesIn(t) = LinesIn(text[i]) \cup {n}
  <2>1. Ascending(text[i]) /\ Below(text[i], n)
    BY DEF FInv, LinesInv, n
  <2> QED
    BY <1>2, <2>1, AppendLine
<1>4. /\ text' \in Seq(Seq(Nat)) /\ Len(text') = Len(text) /\ text'[i] = t
      /\ \A j \in 1..Len(text) : j # i => text'[j] = text[j]
  BY <1>1, <1>2, <1>3
<1>5. LogType'
  BY <1>1, <1>4 DEF FInv, LogType
<1>6. AllLines' = AllLines \cup {n}
  <2>1. \A j \in 1..Len(text) : j # i => LinesIn(text'[j]) = LinesIn(text[j])
    BY <1>4
  <2>2. LinesIn(text'[i]) = LinesIn(text[i]) \cup {n}
    BY <1>3, <1>4
  <2>3. AllLines' = UNION {LinesIn(text'[j]) : j \in 1..Len(text)}
    BY <1>4, AllLinesIn
  <2> QED
    BY <2>1, <2>2, <2>3, AllLinesIn
<1>7. \A m \in AllLines : m < n
  BY DEF FInv, LinesInv, AllLines, LinesOf, Below, n
<1>8. IsFiniteSet(AllLines') /\ LastLine' = LastLine + 1
  <2>1. IsFiniteSet(AllLines) /\ n \notin AllLines
    BY <1>2, <1>7 DEF FInv, LinesInv
  <2>2. IsFiniteSet(AllLines \cup {n}) /\ Cardinality(AllLines \cup {n}) = Cardinality(AllLines) + 1
    BY <2>1, FS_AddElement
  <2>3. LastLine = Cardinality(AllLines) /\ LastLine' = Cardinality(AllLines')
    BY DEF LastLine, AllLines
  <2> QED
    BY <1>6, <2>2, <2>3 DEF n
<1>9. LinesInv'
  <2>1. ASSUME NEW j \in 1..Len(text)
        PROVE  Ascending(text'[j]) /\ Below(text'[j], n + 1)
    <3>1. Ascending(text[j]) /\ Below(text[j], n)
      BY DEF FInv, LinesInv, n
    <3>2. CASE j = i
      BY <1>3, <1>4, <3>2
    <3>3. CASE j # i
      <4>1. text'[j] = text[j]
        BY <1>4, <3>3
      <4>2. \A k \in 1..Len(text[j]) : text[j][k] < n /\ text[j][k] \in Nat
        BY <1>2, <3>1 DEF Below
      <4>3. \A k \in 1..Len(text[j]) : text[j][k] < n + 1
        BY <1>2, <4>2
      <4> QED
        BY <3>1, <4>1, <4>3 DEF Below
    <3> QED
      BY <3>2, <3>3
  <2>2. Below(out, n + 1)
    <3>1. out \in Seq(Nat) /\ Below(out, n)
      BY DEF FInv, LogType, LinesInv, n
    <3> QED
      BY <1>2, <3>1 DEF Below
  <2>3. Below(out', n + 1) /\ LastLine' + 1 = n + 1
    BY <1>1, <1>8, <2>2 DEF n
  <2>4. \A j \in 1..Len(text') : Ascending(text'[j]) /\ Below(text'[j], n + 1)
    BY <1>4, <2>1
  <2> QED
    BY <1>8, <2>3, <2>4 DEF LinesInv, Ascending, Below
<1>10. FollowInv'
  <2>1. Below(out, n)
    BY DEF FInv, LinesInv, n
  <2>2. \A j \in 1..Len(text) :
          /\ Len(text[j]) <= Len(text'[j])
          /\ \A k \in 1..Len(text[j]) : text'[j][k] = text[j][k]
          /\ \A k \in 1..Len(text'[j]) : k > Len(text[j]) => Below(out, text'[j][k])
    <3>1. \A k \in 1..Len(t) : k > Len(text[i]) => k = Len(text[i]) + 1
      BY <1>2, <1>3
    <3>2. /\ Len(text[i]) <= Len(text'[i])
          /\ \A k \in 1..Len(text[i]) : text'[i][k] = text[i][k]
          /\ \A k \in 1..Len(text'[i]) : k > Len(text[i]) => Below(out, text'[i][k])
      BY <1>2, <1>3, <1>4, <2>1, <3>1
    <3>3. ASSUME NEW j \in 1..Len(text), j # i
          PROVE  /\ Len(text[j]) <= Len(text'[j])
                 /\ \A k \in 1..Len(text[j]) : text'[j][k] = text[j][k]
                 /\ \A k \in 1..Len(text'[j]) : k > Len(text[j]) => Below(out, text'[j][k])
      <4>1. text'[j] = text[j] /\ Len(text[j]) \in Nat
        BY <1>2, <1>4, <3>3
      <4> QED
        BY <4>1
    <3> QED
      BY <3>2, <3>3
  <2> QED
    BY <1>1, <1>2, <1>4, <1>5, <2>2, Grows DEF FInv
<1> QED
  BY <1>5, <1>9, <1>10 DEF FInv

\* Some lines of a file.
LEMMA PartFacts ==
    ASSUME NEW s \in Seq(Nat), NEW a \in Nat, NEW b \in Nat, b <= Len(s)
    PROVE  /\ SubSeq(s, a + 1, b) \in Seq(Nat)
           /\ Len(SubSeq(s, a + 1, b)) = IF a < b THEN b - a ELSE 0
           /\ \A k \in 1..Len(SubSeq(s, a + 1, b)) :
                a + k \in 1..b /\ SubSeq(s, a + 1, b)[k] = s[a + k]
<1>1. \A k \in a + 1..b : s[k] \in Nat
  OBVIOUS
<1>2. CASE a < b
  BY <1>1, <1>2
<1>3. CASE ~(a < b)
  <2>1. SubSeq(s, a + 1, b) = <<>>
    BY <1>3
  <2> QED
    BY <1>3, <2>1
<1> QED
  BY <1>2, <1>3

LEMMA JoinFacts ==
    ASSUME NEW o \in Seq(Nat), NEW p \in Seq(Nat)
    PROVE  /\ o \o p \in Seq(Nat) /\ Len(o \o p) = Len(o) + Len(p)
           /\ Len(o) \in Nat /\ Len(p) \in Nat
           /\ \A i \in 1..Len(o) : i \in 1..Len(o) + Len(p) /\ (o \o p)[i] = o[i]
           /\ \A k \in 1..Len(p) : Len(o) + k \in 1..Len(o) + Len(p) /\ (o \o p)[Len(o) + k] = p[k]
<1>1. o \o p \in Seq(Nat) /\ Len(o \o p) = Len(o) + Len(p) /\ Len(o) \in Nat /\ Len(p) \in Nat
  OBVIOUS
<1>2. \A i \in 1..Len(o) : i \in 1..Len(o) + Len(p) /\ (o \o p)[i] = o[i]
  OBVIOUS
<1>3. \A k \in 1..Len(p) : Len(o) + k \in 1..Len(o) + Len(p) /\ (o \o p)[Len(o) + k] = p[k]
  OBVIOUS
<1> QED
  BY <1>1, <1>2, <1>3

Copied(o, s, a, b) == o \o SubSeq(s, a + 1, b)

\* What was printed, and the lines of a file up to one more place.
CopyGives(o, s, a, b, r) ==
    /\ r \in Seq(Nat)
    /\ \A n : Below(o, n) /\ Below(s, n) => Below(r, n)
    /\ \A n : (\E i \in 1..Len(o) : o[i] = n) => \E i \in 1..Len(r) : r[i] = n
    /\ \A k \in 1..b : k > a => \E i \in 1..Len(r) : r[i] = s[k]
    /\ Ascending(o) /\ Ascending(s) /\ (\A k \in 1..Len(s) : k > a => Below(o, s[k])) =>
         /\ Ascending(r)
         /\ \A k \in 1..Len(s) : k > a /\ k > b => Below(r, s[k])

LEMMA CopyFacts ==
    ASSUME NEW o \in Seq(Nat), NEW s \in Seq(Nat), NEW a \in Nat, NEW b \in Nat, b <= Len(s),
           NEW r, r = Copied(o, s, a, b)
    PROVE  CopyGives(o, s, a, b, r)
<1> DEFINE p == SubSeq(s, a + 1, b)
<1>1. /\ p \in Seq(Nat) /\ Len(p) = IF a < b THEN b - a ELSE 0
      /\ \A k \in 1..Len(p) : a + k \in 1..b /\ p[k] = s[a + k]
  BY PartFacts
<1>2. r = o \o p
  BY DEF Copied
<1> HIDE DEF p
<1>3. /\ r \in Seq(Nat) /\ Len(r) = Len(o) + Len(p)
      /\ Len(o) \in Nat /\ Len(p) \in Nat /\ Len(s) \in Nat
      /\ \A i \in 1..Len(o) : i \in 1..Len(r) /\ r[i] = o[i]
      /\ \A k \in 1..Len(p) : Len(o) + k \in 1..Len(r) /\ r[Len(o) + k] = p[k]
  <2>1. Len(s) \in Nat
    OBVIOUS
  <2>2. /\ o \o p \in Seq(Nat) /\ Len(o \o p) = Len(o) + Len(p)
        /\ Len(o) \in Nat /\ Len(p) \in Nat
        /\ \A i \in 1..Len(o) : i \in 1..Len(o) + Len(p) /\ (o \o p)[i] = o[i]
        /\ \A k \in 1..Len(p) : /\ Len(o) + k \in 1..Len(o) + Len(p)
                                /\ (o \o p)[Len(o) + k] = p[k]
    <3>1. p \in Seq(Nat)
      BY <1>1
    <3> QED
      BY <3>1, JoinFacts, Zenon
  <2> QED
    BY <1>2, <2>1, <2>2, Zenon
<1>4. /\ \A i \in 1..Len(r) : i \in Nat /\ (i <= Len(o) => i \in 1..Len(o))
      /\ \A k \in 1..Len(s) : k \in Nat
  BY <1>3
<1>5. ASSUME NEW i \in 1..Len(r), i > Len(o)
      PROVE  \E m \in 1..Len(p) : /\ i = Len(o) + m /\ r[i] = s[a + m]
                                  /\ a + m \in 1..b /\ a + m \in 1..Len(s)
  <2>1. i - Len(o) \in 1..Len(p) /\ i = Len(o) + (i - Len(o))
    BY <1>3, <1>5
  <2>2. \A m \in 1..Len(p) : a + m \in 1..b /\ r[Len(o) + m] = s[a + m]
    BY <1>1, <1>3
  <2>3. \A k \in 1..b : k \in 1..Len(s)
    BY <1>3
  <2> QED
    BY <2>1, <2>2, <2>3
<1>6. ASSUME NEW n, Below(o, n), Below(s, n)
      PROVE  Below(r, n)
  <2>1. SUFFICES ASSUME NEW i \in 1..Len(r)
                 PROVE  r[i] < n
    BY DEF Below
  <2>2. CASE i <= Len(o)
    BY <1>3, <1>4, <1>6, <2>2 DEF Below
  <2>3. CASE i > Len(o)
    <3>1. PICK m \in 1..Len(p) : r[i] = s[a + m] /\ a + m \in 1..Len(s)
      BY <1>5, <2>3
    <3> QED
      BY <1>6, <3>1 DEF Below
  <2> QED
    BY <1>3, <1>4, <2>2, <2>3
<1>7. ASSUME NEW k \in 1..b, k > a
      PROVE  \E i \in 1..Len(r) : r[i] = s[k]
  <2>1. k - a \in 1..Len(p) /\ a + (k - a) = k
    BY <1>1, <1>7
  <2>2. Len(o) + (k - a) \in 1..Len(r) /\ r[Len(o) + (k - a)] = s[a + (k - a)]
    BY <1>1, <1>3, <2>1
  <2> QED
    BY <2>1, <2>2
<1>8. ASSUME Ascending(o), Ascending(s), \A k \in 1..Len(s) : k > a => Below(o, s[k])
      PROVE  /\ Ascending(r)
             /\ \A k \in 1..Len(s) : k > a /\ k > b => Below(r, s[k])
  <2>1. ASSUME NEW k \in 1..Len(s), k > a, k > b
        PROVE  Below(r, s[k])
    <3>1. SUFFICES ASSUME NEW i \in 1..Len(r)
                   PROVE  r[i] < s[k]
      BY DEF Below
    <3>2. CASE i <= Len(o)
      BY <1>3, <1>4, <1>8, <2>1, <3>2 DEF Below
    <3>3. CASE i > Len(o)
      <4>1. PICK m \in 1..Len(p) : r[i] = s[a + m] /\ a + m \in 1..b /\ a + m \in 1..Len(s)
        BY <1>5, <3>3
      <4>2. a + m < k
        BY <2>1, <4>1
      <4> QED
        BY <1>8, <4>1, <4>2 DEF Ascending
    <3> QED
      BY <1>3, <1>4, <3>2, <3>3
  <2>2. ASSUME NEW i \in 1..Len(r), NEW j \in 1..Len(r), i < j
        PROVE  r[i] < r[j]
    <3>1. CASE j <= Len(o)
      <4>1. i <= Len(o)
        BY <1>3, <1>4, <2>2, <3>1
      <4>2. i \in 1..Len(o) /\ j \in 1..Len(o)
        BY <1>4, <3>1, <4>1
      <4> QED
        BY <1>3, <1>8, <2>2, <4>2 DEF Ascending
    <3>2. ASSUME j > Len(o), i <= Len(o)
          PROVE  r[i] < r[j]
      <4>1. PICK m \in 1..Len(p) : r[j] = s[a + m] /\ a + m \in 1..Len(s)
        BY <1>5, <3>2
      <4>2. a + m > a /\ i \in 1..Len(o)
        BY <1>3, <1>4, <3>2
      <4>3. Below(o, s[a + m])
        BY <1>8, <4>1, <4>2
      <4> QED
        BY <1>3, <4>1, <4>2, <4>3 DEF Below
    <3>3. ASSUME j > Len(o), i > Len(o)
          PROVE  r[i] < r[j]
      <4>1. PICK m \in 1..Len(p) : r[j] = s[a + m] /\ a + m \in 1..Len(s) /\ j = Len(o) + m
        BY <1>5, <3>3
      <4>2. PICK l \in 1..Len(p) : r[i] = s[a + l] /\ a + l \in 1..Len(s) /\ i = Len(o) + l
        BY <1>5, <3>3
      <4>3. a + l < a + m
        BY <1>3, <2>2, <4>1, <4>2
      <4> QED
        BY <1>8, <4>1, <4>2, <4>3 DEF Ascending
    <3>4. j <= Len(o) \/ (j > Len(o) /\ i <= Len(o)) \/ (j > Len(o) /\ i > Len(o))
      <4>1. i \in Nat /\ j \in Nat /\ Len(o) \in Nat
        BY <1>3, <1>4
      <4> QED
        BY <4>1
    <3> QED
      BY <3>1, <3>2, <3>3, <3>4
  <2> QED
    BY <2>1, <2>2 DEF Ascending
<1>9. ASSUME NEW n, NEW i \in 1..Len(o), o[i] = n
      PROVE  \E j \in 1..Len(r) : r[j] = n
  BY <1>3, <1>9
<1> QED
  BY <1>3, <1>6, <1>7, <1>8, <1>9 DEF CopyGives

\* formatTail: lines of the file, in order.
LEMMA TailFacts ==
    ASSUME NEW s \in Seq(Nat), Ascending(s), NEW n, Below(s, n)
    PROVE  Tail1(s) \in Seq(Nat) /\ Ascending(Tail1(s)) /\ Below(Tail1(s), n)
<1> DEFINE a == IF Len(s) > TailLines THEN Len(s) - TailLines ELSE 0
<1>1. /\ Len(s) \in Nat /\ a \in Nat
      /\ (IF Len(s) > TailLines THEN Len(s) - TailLines + 1 ELSE 1) = a + 1
  BY LogAssumption DEF LogAssumption
<1>2. Tail1(s) = SubSeq(s, a + 1, Len(s))
  BY <1>1, Zenon DEF Tail1
<1> HIDE DEF a
<1>3. /\ Tail1(s) \in Seq(Nat) /\ Len(Tail1(s)) \in Nat
      /\ \A k \in 1..Len(Tail1(s)) : a + k \in 1..Len(s) /\ Tail1(s)[k] = s[a + k]
  <2>1. /\ Tail1(s) \in Seq(Nat)
        /\ \A k \in 1..Len(Tail1(s)) : a + k \in 1..Len(s) /\ Tail1(s)[k] = s[a + k]
    <3>1. Len(s) <= Len(s)
      BY <1>1
    <3>2. /\ SubSeq(s, a + 1, Len(s)) \in Seq(Nat)
          /\ \A k \in 1..Len(SubSeq(s, a + 1, Len(s))) :
               /\ a + k \in 1..Len(s)
               /\ SubSeq(s, a + 1, Len(s))[k] = s[a + k]
      BY <1>1, <3>1, PartFacts
    <3> QED
      BY <1>2, <3>2, Zenon
  <2> QED
    BY <2>1
<1>4. Below(Tail1(s), n)
  BY <1>3 DEF Below
<1>5. ASSUME NEW i \in 1..Len(Tail1(s)), NEW j \in 1..Len(Tail1(s)), i < j
      PROVE  Tail1(s)[i] < Tail1(s)[j]
  <2>1. a + i \in 1..Len(s) /\ a + j \in 1..Len(s) /\ a + i < a + j
    BY <1>1, <1>3, <1>5
  <2> QED
    BY <1>3, <2>1 DEF Ascending
<1> QED
  BY <1>3, <1>4, <1>5 DEF Ascending

LEMMA FollowStartF ==
    ASSUME FInv, FollowStart, UNCHANGED logOf
    PROVE  FInv'
<1> DEFINE n == LastLine + 1
           size == IF path = 0 THEN 0 ELSE Len(text[path])
           f == [Off EXCEPT !.step = "wait", !.file = path, !.from = LastLine, !.offset = size]
<1>1. /\ UNCHANGED <<text, path, mixed>>
      /\ out' = IF path = 0 THEN <<>> ELSE Tail1(text[path])
  BY DEF FollowStart
<1>2. follow' = f
  BY DEF FollowStart
<1>3. /\ path \in 0..Len(text) /\ Len(text) \in Nat /\ LastLine \in Nat
      /\ \A j \in 1..Len(text) : text[j] \in Seq(Nat) /\ Len(text[j]) \in Nat
      /\ \A j \in 1..Len(text) : \A k \in 1..Len(text[j]) : text[j][k] \in Nat
  BY FilesFacts, LastLineFacts DEF FInv, LogType
<1>4. \A j \in 1..Len(text) : Ascending(text[j]) /\ Below(text[j], n)
  BY DEF FInv, LinesInv
<1>5. size \in Nat /\ (path # 0 => path \in 1..Len(text) /\ size = Len(text[path]))
  BY <1>3
<1>6. out' \in Seq(Nat) /\ Ascending(out') /\ Below(out', n)
  <2>1. CASE path = 0
    BY <1>1, <2>1, EmptyLines
  <2>2. CASE path # 0
    BY <1>1, <1>3, <1>4, <1>5, <2>2, TailFacts
  <2> QED
    BY <2>1, <2>2
<1> HIDE DEF size
<1>7. /\ f \in FollowType /\ f.step = "wait" /\ f.file = path /\ f.offset = size
      /\ f.from = LastLine /\ f.seen = 0
  <2>1. path \in Nat /\ LastLine \in Nat /\ size \in Nat
    BY <1>3, <1>5
  <2>2. f \in FollowType
    BY <2>1 DEF Off, FollowType
  <2>3. f.step = "wait" /\ f.file = path /\ f.offset = size
    BY DEF Off
  <2>4. f.from = LastLine /\ f.seen = 0
    BY DEF Off
  <2> QED
    BY <2>2, <2>3, <2>4
<1> HIDE DEF f
<1>8. LogType'
  BY <1>1, <1>2, <1>3, <1>6, <1>7 DEF FInv, LogType
<1>9. LinesInv'
  <2>1. AllLines' = AllLines /\ LastLine' = LastLine
    BY <1>1 DEF AllLines, LastLine, LinesOf
  <2> QED
    BY <1>1, <1>4, <1>6, <2>1 DEF FInv, LinesInv, Ascending, Below
<1>10. FollowInv'
  <2>1. Cur' = path' /\ follow'.step = "wait"
    BY <1>1, <1>2, <1>7 DEF Cur
  <2>2. Unseen'
    BY <2>1 DEF Unseen
  <2>3. Read'
    <3>1. SUFFICES ASSUME path # 0
                   PROVE  Read'
      BY <1>1, <2>1 DEF Read
    <3>2. \A k \in 1..Len(text[path]) : k <= size /\ text[path][k] <= LastLine
      BY <1>3, <1>4, <1>5, <3>1 DEF Below
    <3> QED
      BY <1>1, <1>2, <1>3, <1>5, <1>7, <2>1, <3>1, <3>2 DEF Read
  <2> QED
    BY <1>6, <2>1, <2>2, <2>3 DEF FollowInv, Ascending
<1> QED
  BY <1>8, <1>9, <1>10 DEF FInv

LEMMA FollowStopF ==
    ASSUME FInv, FollowStop, UNCHANGED logOf
    PROVE  FInv'
<1>1. /\ UNCHANGED <<text, path, out, mixed>> /\ follow' = [follow EXCEPT !.step = "ended"]
  BY DEF FollowStop
<1>2. /\ follow' \in FollowType /\ follow'.step = "ended"
      /\ follow'.file = follow.file /\ follow'.seen = follow.seen
  BY <1>1 DEF FInv, LogType, FollowType
<1>3. LogType'
  BY <1>1, <1>2 DEF FInv, LogType
<1>4. LinesInv'
  BY <1>1, SameLines DEF FInv
<1>5. FollowInv'
  BY <1>1, <1>2 DEF FInv, FollowInv, Ascending
<1> QED
  BY <1>3, <1>4, <1>5 DEF FInv

\* followUpdate looks at the path: the file of the last time, or another one.
LEMMA FollowStatF ==
    ASSUME FInv, FollowStat, UNCHANGED logOf
    PROVE  FInv'
<1>1. follow.step = "wait" /\ UNCHANGED <<text, path, out, mixed>>
  BY DEF FollowStat
<1>2. /\ path \in 0..Len(text) /\ Len(text) \in Nat /\ follow \in FollowType
      /\ follow.file <= Len(text) /\ follow.seen <= Len(text) /\ Cur = follow.file
      /\ \A j \in 1..Len(text) : Len(text[j]) \in Nat
  <2>1. /\ text \in Seq(Seq(Nat)) /\ path \in 0..Len(text) /\ follow \in FollowType
        /\ follow.file <= Len(text) /\ follow.seen <= Len(text)
    BY DEF FInv, LogType
  <2>2. Cur = follow.file
    BY <1>1 DEF Cur
  <2> QED
    BY <2>1, <2>2, FilesFacts
<1>3. LinesInv'
  BY <1>1, SameLines DEF FInv
<1>4. CASE path = 0
  <2>1. follow' = [follow EXCEPT !.file = 0, !.offset = 0]
    BY <1>4 DEF FollowStat
  <2>2. /\ follow' \in FollowType /\ follow'.step = "wait"
        /\ follow'.file = 0 /\ follow'.seen = follow.seen
    BY <1>1, <1>2, <2>1 DEF FollowType
  <2>3. LogType'
    BY <1>1, <1>2, <2>2 DEF FInv, LogType
  <2>4. Unseen' /\ Read'
    BY <1>1, <1>4, <2>2 DEF Unseen, Read, Cur
  <2> QED
    BY <1>1, <1>3, <2>2, <2>3, <2>4 DEF FInv, FollowInv, Ascending
<1>5. CASE path # 0
  <2> DEFINE size == Len(text[path])
  <2>1. follow' = [follow EXCEPT !.step = "copy", !.offset = From(path), !.seen = path,
                                 !.size = size]
    BY <1>5 DEF FollowStat
  <2>2. path \in 1..Len(text) /\ size \in Nat /\ From(path) \in Nat
    BY <1>2, <1>5 DEF From, FollowType
  <2> HIDE DEF size
  <2>3. /\ follow' \in FollowType /\ follow'.step = "copy" /\ follow'.offset = From(path)
        /\ follow'.seen = path /\ follow'.size = size /\ follow'.from = follow.from
        /\ follow'.file = follow.file
    <3>1. path \in Nat /\ size \in Nat /\ From(path) \in Nat /\ follow \in FollowType
      BY <1>2, <2>2
    <3>2. follow' \in FollowType
      BY <2>1, <3>1 DEF FollowType
    <3>3. follow'.step = "copy" /\ follow'.offset = From(path)
      BY <2>1, <3>1 DEF FollowType
    <3>4. follow'.seen = path /\ follow'.size = size
      BY <2>1, <3>1 DEF FollowType
    <3>5. follow'.from = follow.from /\ follow'.file = follow.file
      BY <2>1, <3>1 DEF FollowType
    <3> QED
      BY <3>2, <3>3, <3>4, <3>5
  <2>4. LogType'
    BY <1>1, <1>2, <2>2, <2>3 DEF FInv, LogType
  <2>5. Cur' = path'
    BY <1>1, <2>3 DEF Cur
  <2>6. Unseen'
    BY <2>5 DEF Unseen
  <2>7. ASSUME ~mixed
        PROVE  Read'
    <3>1. Unseen /\ Read
      BY <1>1, <2>7 DEF FInv, FollowInv
    <3>2. /\ From(path) <= Len(text[path])
          /\ \A k \in 1..Len(text[path]) : k > From(path) => Below(out, text[path][k])
          /\ \A k \in 1..Len(text[path]) :
               k <= From(path) /\ text[path][k] > follow.from => Printed(text[path][k])
      <4>1. CASE path = follow.file
        BY <1>2, <1>5, <3>1, <4>1 DEF From, Read
      <4>2. CASE path # follow.file
        <5>1. From(path) = 0 /\ \A k \in 1..Len(text[path]) : Below(out, text[path][k])
          BY <1>2, <1>5, <3>1, <4>2 DEF From, Unseen
        <5>2. \A k \in 1..Len(text[path]) : ~(k <= 0)
          BY <1>2, <2>2
        <5> QED
          BY <1>2, <2>2, <5>1, <5>2
      <4> QED
        BY <4>1, <4>2
    <3> QED
      BY <1>1, <2>3, <2>5, <3>2 DEF Read, Below, Printed
  <2>8. follow'.seen # 0 /\ follow'.size <= Len(text'[follow'.seen])
    BY <1>1, <1>5, <2>2, <2>3 DEF size
  <2>9. FollowInv'
    BY <1>1, <2>3, <2>6, <2>7, <2>8 DEF FInv, FollowInv, Ascending
  <2> QED
    BY <1>3, <2>4, <2>9 DEF FInv
<1> QED
  BY <1>4, <1>5

\* copyFrom prints what the file at the path holds from the offset on.
LEMMA FollowCopyF ==
    ASSUME FInv, FollowCopy, UNCHANGED logOf
    PROVE  FInv'
<1> DEFINE n == LastLine + 1
<1>1. /\ follow.step = "copy" /\ UNCHANGED <<text, path>>
      /\ mixed' = (mixed \/ path # follow.seen)
  BY DEF FollowCopy
<1>2. /\ path \in 0..Len(text) /\ Len(text) \in Nat /\ follow \in FollowType
      /\ follow.offset \in Nat /\ follow.size \in Nat /\ follow.seen \in 0..Len(text)
      /\ Cur = follow.seen /\ out \in Seq(Nat) /\ mixed \in BOOLEAN
  BY <1>1 DEF FInv, LogType, FollowType, Cur
<1>3. \A j \in 1..Len(text) : text[j] \in Seq(Nat) /\ Len(text[j]) \in Nat
  BY FilesFacts DEF FInv, LogType
<1>4. /\ Below(out, n) /\ \A j \in 1..Len(text) : Ascending(text[j]) /\ Below(text[j], n)
  BY DEF FInv, LinesInv
<1>5. ~mixed' => /\ ~mixed /\ path = follow.seen /\ path # 0 /\ path \in 1..Len(text)
                 /\ follow.size <= Len(text[path]) /\ Ascending(out) /\ Read
  <2>1. SUFFICES ASSUME ~mixed'
                 PROVE  /\ ~mixed /\ path = follow.seen /\ path # 0 /\ path \in 1..Len(text)
                        /\ follow.size <= Len(text[path]) /\ Ascending(out) /\ Read
    OBVIOUS
  <2>2. ~mixed /\ path = follow.seen
    BY <1>1, <2>1
  <2>3. /\ follow.seen # 0 /\ follow.size <= Len(text[follow.seen])
        /\ Ascending(out) /\ Read
    BY <1>1, <2>2 DEF FInv, FollowInv
  <2>4. path \in 1..Len(text)
    BY <1>2, <2>2, <2>3
  <2> QED
    BY <2>2, <2>3, <2>4
\* What the three ways on have in common.
<1>6. ASSUME out' \in Seq(Nat), Below(out', n), follow' \in FollowType, follow'.step # "copy",
             follow'.file \in {follow.file, follow.seen}, follow'.seen \in {0, follow.seen},
             ~mixed' => /\ Ascending(out')
                        /\ follow'.step = "wait" => follow'.file = path /\ Read'
      PROVE  FInv'
  <2>1. LogType'
    BY <1>1, <1>2, <1>6 DEF FInv, LogType
  <2>2. AllLines' = AllLines /\ LastLine' = LastLine
    BY <1>1 DEF AllLines, LastLine, LinesOf
  <2>3. LinesInv'
    BY <1>1, <1>4, <1>6, <2>2 DEF FInv, LinesInv, Ascending, Below
  <2>4. Cur' = follow'.file
    BY <1>6 DEF Cur
  <2>5. ASSUME ~mixed', follow'.step \in {"wait", "copy"}
        PROVE  Unseen' /\ Read'
    BY <1>1, <1>6, <2>4, <2>5 DEF Unseen
  <2>6. FollowInv'
    BY <1>6, <2>5 DEF FollowInv, Ascending
  <2> QED
    BY <2>1, <2>3, <2>6 DEF FInv
<1>7. CASE follow.size <= follow.offset
  <2>1. /\ follow' = [follow EXCEPT !.step = "wait", !.file = follow.seen, !.seen = 0, !.size = 0]
        /\ UNCHANGED out
    BY <1>7 DEF FollowCopy
  <2>2. follow' \in FollowType /\ follow'.step = "wait"
    BY <1>2, <2>1 DEF FollowType
  <2>3. follow'.file = follow.seen /\ follow'.seen = 0
    BY <1>2, <2>1 DEF FollowType
  <2>4. follow'.offset = follow.offset /\ follow'.from = follow.from
    BY <1>2, <2>1 DEF FollowType
  <2>5. Cur' = Cur
    BY <1>2, <2>2, <2>3 DEF Cur
  <2>6. Read => Read'
    BY <1>1, <2>1, <2>4, <2>5 DEF Read, Below, Printed
  <2> QED
    BY <1>2, <1>4, <1>5, <1>6, <2>1, <2>2, <2>3, <2>6
<1>8. CASE ~(follow.size <= follow.offset) /\ (path = 0 \/ Len(text[path]) < follow.size)
  <2>1. /\ follow' = [follow EXCEPT !.step = "ended"]
        /\ out' = IF path = 0 THEN out
                  ELSE out \o SubSeq(text[path], follow.offset + 1, Len(text[path]))
    BY <1>8 DEF FollowCopy
  <2>2. follow' \in FollowType /\ follow'.step = "ended"
    BY <1>2, <2>1 DEF FollowType
  <2>3. follow'.file = follow.file /\ follow'.seen = follow.seen
    BY <1>2, <2>1 DEF FollowType
  <2>4. mixed'
    <3>1. SUFFICES ASSUME ~mixed'
                   PROVE  FALSE
      BY <1>1, <1>2
    <3> QED
      BY <1>2, <1>3, <1>5, <1>8, <3>1
  <2>5. out' \in Seq(Nat) /\ Below(out', n)
    <3>1. CASE path = 0
      BY <1>2, <1>4, <2>1, <3>1
    <3>2. CASE path # 0
      <4>1. /\ path \in 1..Len(text) /\ text[path] \in Seq(Nat) /\ Len(text[path]) \in Nat
            /\ Len(text[path]) <= Len(text[path]) /\ Below(text[path], n)
        BY <1>2, <1>3, <1>4, <3>2
      <4>2. out' = Copied(out, text[path], follow.offset, Len(text[path]))
        BY <2>1, <3>2, Zenon DEF Copied
      <4> QED
        BY <1>2, <1>4, <4>1, <4>2, CopyFacts DEF CopyGives
    <3> QED
      BY <3>1, <3>2
  <2> QED
    BY <1>6, <2>2, <2>3, <2>4, <2>5
<1>9. CASE ~(follow.size <= follow.offset) /\ ~(path = 0 \/ Len(text[path]) < follow.size)
  <2>1. /\ follow' = [follow EXCEPT !.step = "wait", !.file = follow.seen,
                                    !.offset = follow.size, !.seen = 0, !.size = 0]
        /\ out' = out \o SubSeq(text[path], follow.offset + 1, follow.size)
    BY <1>9 DEF FollowCopy
  <2>2. follow' \in FollowType /\ follow'.step = "wait"
    BY <1>2, <2>1 DEF FollowType
  <2>3. follow'.file = follow.seen /\ follow'.seen = 0
    BY <1>2, <2>1 DEF FollowType
  <2>4. follow'.offset = follow.size /\ follow'.from = follow.from
    BY <1>2, <2>1 DEF FollowType
  <2> DEFINE s == text[path]  a == follow.offset  b == follow.size
  <2>5. /\ path \in 1..Len(text) /\ s \in Seq(Nat) /\ Len(s) \in Nat
        /\ a \in Nat /\ b \in Nat /\ a < b /\ b <= Len(s) /\ Below(s, n) /\ Ascending(s)
    BY <1>2, <1>3, <1>4, <1>9
  <2>6. out' = Copied(out, s, a, b)
    BY <2>1, Zenon DEF Copied
  <2> HIDE DEF s, a, b
  <2>7. CopyGives(out, s, a, b, out')
    BY <1>2, <2>5, <2>6, CopyFacts
  <2>8. Below(out', n)
    BY <1>4, <2>5, <2>7 DEF CopyGives
  <2>9. ASSUME ~mixed'
        PROVE  Ascending(out') /\ follow'.file = path /\ Read'
    <3>1. /\ Cur = path /\ Cur' = path /\ text' = text /\ Ascending(out) /\ follow'.file = path
      BY <1>1, <1>2, <1>5, <2>2, <2>3, <2>9 DEF Cur
    <3>2. /\ \A k \in 1..Len(s) : k > a => Below(out, s[k])
          /\ \A k \in 1..Len(s) : k <= a /\ s[k] > follow.from => Printed(s[k])
      BY <1>5, <2>9, <3>1 DEF Read, s, a
    <3>3. /\ Ascending(out') /\ \A k \in 1..Len(s) : k > b => Below(out', s[k])
      BY <2>5, <2>7, <3>1, <3>2 DEF CopyGives
    <3>4. ASSUME NEW k \in 1..Len(s), k <= b, s[k] > follow.from
          PROVE  \E i \in 1..Len(out') : out'[i] = s[k]
      <4>1. CASE k <= a
        BY <2>7, <3>2, <3>4, <4>1 DEF CopyGives, Printed
      <4>2. CASE k > a
        <5>1. k \in 1..b
          BY <2>5, <3>4
        <5> QED
          BY <2>7, <4>2, <5>1 DEF CopyGives
      <4> QED
        BY <2>5, <4>1, <4>2
    <3>5. text'[Cur'] = s /\ follow'.offset = b
      BY <2>4, <3>1 DEF s, b
    <3>6. Read'
      BY <2>4, <2>5, <3>3, <3>4, <3>5 DEF Read, Below, Printed
    <3> QED
      BY <3>1, <3>3, <3>6
  <2> QED
    BY <1>6, <2>2, <2>3, <2>7, <2>8, <2>9 DEF CopyGives
<1> QED
  BY <1>7, <1>8, <1>9

\* A step that leaves the log, its follower and the daemons' output alone.
LEMMA LogStays ==
    ASSUME FInv, UNCHANGED <<text, path, logOf, follow, out, mixed>>
    PROVE  FInv'
<1>1. logOf' \in [Daemons -> 0..Len(text)]
  BY DEF FInv, LogType
<1> QED
  BY <1>1, PathGone

LEMMA BornLog ==
    ASSUME FInv, NEW d \in Unborn, NEW log \in 0..Len(text'), Born(d, log),
           Len(text) \in Nat, Len(text') \in Nat, Len(text) <= Len(text')
    PROVE  logOf' \in [Daemons -> 0..Len(text')]
<1>1. logOf' = [logOf EXCEPT ![d] = log] /\ logOf \in [Daemons -> 0..Len(text)]
  BY DEF Born, FInv, LogType
<1>2. logOf \in [Daemons -> 0..Len(text')]
  BY <1>1
<1> QED
  BY <1>1, <1>2

LEMMA CommandF ==
    ASSUME FInv, NEW c \in Commands,
           StartDetached(c) \/ StatusDetached(c) \/ StopDetached(c) \/ CommandStep(c)
    PROVE  FInv'
<1> USE DEF logVars, followVars, daemonVars
<1>1. CASE StartDetached(c) \/ StatusDetached(c) \/ StopDetached(c)
  BY <1>1, LogStays DEF StartDetached, StatusDetached, StopDetached, Command
<1>2. CASE Clear(c) \/ Look(c) \/ RecordPID(c) \/ Terminate(c) \/ Wait(c) \/ RemovePID(c)
  BY <1>2, LogStays DEF Clear, Look, RecordPID, Terminate, Wait, RemovePID
<1>3. CASE Move(c)
  <2>1. UNCHANGED <<text, follow, out, mixed, logOf>> /\ path' \in {0, path}
    BY <1>3 DEF Move, MoveLog
  <2>2. logOf' \in [Daemons -> 0..Len(text)]
    BY <2>1 DEF FInv, LogType
  <2> QED
    BY <2>1, <2>2, PathGone
<1>4. CASE Spawn(c)
  <2>1. OpenLog /\ UNCHANGED <<follow, out, mixed>>
    BY <1>4 DEF Spawn
  <2>2. /\ Len(text) \in Nat /\ Len(text') \in Nat /\ Len(text) <= Len(text')
        /\ (IF path # 0 THEN path ELSE Len(text) + 1) \in 0..Len(text')
    <3>1. text \in Seq(Seq(Nat)) /\ path \in 0..Len(text) /\ Len(text) \in Nat
      BY DEF FInv, LogType
    <3>2. CASE path # 0
      BY <2>1, <3>1, <3>2 DEF OpenLog
    <3>3. CASE path = 0
      <4>1. text' = Append(text, <<>>)
        BY <2>1, <3>3 DEF OpenLog
      <4>2. Len(text') = Len(text) + 1
        BY <3>1, <4>1
      <4> QED
        BY <3>1, <3>3, <4>2
    <3> QED
      BY <3>2, <3>3
  <2>3. logOf' \in [Daemons -> 0..Len(text')]
    <3>1. ASSUME NEW d \in Unborn, Born(d, IF path # 0 THEN path ELSE Len(text) + 1)
          PROVE  logOf' \in [Daemons -> 0..Len(text')]
      BY <2>2, <3>1, BornLog
    <3>2. CASE UNCHANGED daemonVars
      <4>1. logOf' = logOf /\ logOf \in [Daemons -> 0..Len(text)]
        BY <3>2 DEF FInv, LogType
      <4> QED
        BY <2>2, <4>1
    <3> QED
      BY <1>4, <3>1, <3>2 DEF Spawn
  <2> QED
    BY <2>1, <2>3, OpenLogF
<1> QED
  BY <1>1, <1>2, <1>3, <1>4 DEF CommandStep

LEMMA InitF ==
    ASSUME Init
    PROVE  FInv
<1>1. /\ text = <<>> /\ path = 0 /\ follow = Off /\ out = <<>> /\ mixed = FALSE
      /\ logOf = [d \in Daemons |-> 0]
  BY DEF Init, LogInit
<1>2. /\ text \in Seq(Seq(Nat)) /\ out \in Seq(Nat) /\ Len(text) = 0
      /\ Off \in FollowType /\ Off.step = "off" /\ Off.file = 0 /\ Off.seen = 0
  BY <1>1 DEF Off, FollowType
<1>3. LogType
  <2>1. mixed \in BOOLEAN
    BY <1>1, Zenon
  <2>2. path \in 0..Len(text) /\ logOf \in [Daemons -> 0..Len(text)]
    BY <1>1, <1>2
  <2>3. follow \in FollowType /\ follow.file <= Len(text) /\ follow.seen <= Len(text)
    BY <1>1, <1>2
  <2> QED
    BY <1>2, <2>1, <2>2, <2>3 DEF LogType
<1>4. LinesInv
  <2>1. AllLines = {}
    BY <1>2 DEF AllLines
  <2> QED
    BY <1>1, <1>2, <2>1, EmptyLines, FS_EmptySet DEF LinesInv
<1>5. FollowInv
  BY <1>1, <1>2, EmptyLines DEF FollowInv
<1> QED
  BY <1>3, <1>4, <1>5 DEF FInv

LEMMA FInvStep ==
    ASSUME FInv, [Next]_vars
    PROVE  FInv'
<1> USE DEF logVars, daemonVars
<1>1. ASSUME NEW c \in Commands,
             StartDetached(c) \/ StatusDetached(c) \/ StopDetached(c) \/ CommandStep(c)
      PROVE  FInv'
  BY <1>1, CommandF
<1>2. CASE ServeForeground
  <2>1. UNCHANGED <<text, path, follow, out, mixed>> /\ Len(text) \in Nat
    BY <1>2 DEF ServeForeground, FInv, LogType
  <2>2. PICK d \in Unborn : Born(d, 0)
    BY <1>2 DEF ServeForeground
  <2>3. 0 \in 0..Len(text') /\ Len(text') \in Nat /\ Len(text) <= Len(text')
    BY <2>1
  <2>4. logOf' \in [Daemons -> 0..Len(text')]
    BY <2>1, <2>2, <2>3, BornLog
  <2> QED
    BY <2>1, <2>4, PathGone
<1>3. ASSUME NEW d \in Daemons, DaemonStep(d)
      PROVE  FInv'
  BY <1>3, LogStays DEF DaemonStep, RecoverRouter, Autostart, DiesLaunching, DialSocket,
     RemoveStale, Bind, Signalled, Unlink,
     StopRouter, DaemonDies, Become, Dies
<1>4. ASSUME NEW d \in Daemons, DaemonLogs(d)
      PROVE  FInv'
  <2>1. logOf[d] # 0 /\ WriteLine(logOf[d]) /\ UNCHANGED logOf
    BY <1>4 DEF DaemonLogs
  <2>2. logOf[d] \in 1..Len(text)
    BY <2>1 DEF FInv, LogType
  <2> QED
    BY <2>1, <2>2, WriteLineF
<1>5. CASE UseRouter
  BY <1>5, LogStays DEF UseRouter
<1>6. CASE Reader
  <2>1. CASE RemoveArchives
    BY <1>6, <2>1, LogStays DEF Reader, RemoveArchives, followVars
  <2>2. CASE FollowStart
    BY <1>6, <2>2, FollowStartF DEF Reader
  <2>3. CASE FollowStop
    BY <1>6, <2>3, FollowStopF DEF Reader
  <2> QED
    BY <1>6, <2>1, <2>2, <2>3 DEF Reader
<1>7. CASE Poll
  BY <1>7, FollowStatF, FollowCopyF DEF Poll, Follow
<1>8. CASE UNCHANGED vars
  BY <1>8, LogStays DEF vars
<1> QED
  BY <1>1, <1>2, <1>3, <1>4, <1>5, <1>6, <1>7, <1>8 DEF Next

\* The inductive invariant of the log files and their follower.
THEOREM FollowInductive == Spec => []FInv
<1>1. Init => FInv
  BY InitF
<1>2. FInv /\ [Next]_vars => FInv'
  BY FInvStep
<1> QED
  BY <1>1, <1>2, PTL DEF Spec

\* A follower of a log prints no line twice, none out of order and, of the file it
\* follows, all (FollowLog, platform/audit/logs.go), however often the log is moved
\* and however many daemons write, unless it is moved between a stat and an open.
THEOREM FollowExactHolds == Spec => []FollowExact
<1>1. FInv => FollowExact
  <2>1. SUFFICES ASSUME FInv, ~mixed
                 PROVE  /\ Ascending(out)
                        /\ follow.step = "wait" /\ follow.file # 0 =>
                             \A k \in 1..Len(text[follow.file]) :
                               k <= follow.offset /\ text[follow.file][k] > follow.from =>
                                 Printed(text[follow.file][k])
    BY DEF FollowExact, Ascending, Printed
  <2>2. Ascending(out) /\ (follow.step = "wait" => Read /\ Cur = follow.file)
    BY <2>1 DEF FInv, FollowInv, Cur
  <2> QED
    BY <2>2 DEF Read
<1> QED
  BY <1>1, FollowInductive, PTL

==================================================================================
