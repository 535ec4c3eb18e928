---------------------------- MODULE Dashboard_proofs ----------------------------
(***************************************************************************)
(* What the dashboard never does, for any model files, keys and changes:   *)
(* it never shows an older reading after a newer one, it deletes no model  *)
(* but the one that was selected when the deletion was asked for, and it   *)
(* does not forget an explicit Stop of the gateway that it made on a       *)
(* configuration still in the file.                                        *)
(*                                                                         *)
(* That what is shown does not go back rests on there being one poll at a  *)
(* time: what it has read is no older than what is shown, because nothing  *)
(* else can be shown before it lands.  That a Stop is remembered rests on  *)
(* what a reading is worth: one that is not older than config.yaml says    *)
(* what is in it, and a command that took such a one, with no other of the *)
(* gateway beside it, still holds what is in it when it writes.            *)
(***************************************************************************)
EXTENDS Dashboard, TLAPS

\* Only the fields that say what a command does and where it stands are bound.
IsCommand(c) ==
    c \in [step : {c.step}, panel : {c.panel}, do : {c.do}, base : {c.base},
           path : {c.path}, err : {c.err}]

CommandsOK == DOMAIN cmds = 0..MaxKeys /\ \A i \in 0..MaxKeys : IsCommand(cmds[i])

\* A reading of field f that may be shown next.
Newer(f, r) == r = None \/ (r.at \in Int /\ snapshot[f].at <= r.at /\ r.at <= clock)

\* A poll is under way exactly when the Model believes so, and it is the only one.
OnePoll ==
    IF refreshing
    THEN \E l \in SUBSET Fields : \E g :
            /\ polls = <<[left |-> l, got |-> g]>>
            /\ DOMAIN g = Fields /\ \A f \in Fields : Newer(f, g[f])
    ELSE polls = <<>>

ShownOK ==
    /\ clock \in Nat /\ refreshing \in BOOLEAN
    /\ DOMAIN snapshot = Fields
    /\ \A f \in Fields : snapshot[f].at \in Int /\ snapshot[f].at <= clock
    /\ OnePoll

\* A deletion that waits for its second key is of the model shown at the first.
ArmedOK == pending = 0 \/ pending = shown

VInv == ShownOK /\ CommandsOK /\ keys \in Nat /\ scope \in Scopes /\ ArmedOK

---------------------------------------------------------------------------------
(* Commands *)

LEMMA CommandSet ==
    ASSUME CommandsOK, NEW i \in 0..MaxKeys, NEW c, IsCommand(c),
           cmds' = [cmds EXCEPT ![i] = c]
    PROVE  /\ CommandsOK'
           /\ cmds'[i] = c
           /\ \A j \in 0..MaxKeys : j # i => cmds'[j] = cmds[j]
<1>1. /\ DOMAIN cmds' = 0..MaxKeys /\ cmds'[i] = c
      /\ \A j \in 0..MaxKeys : j # i => cmds'[j] = cmds[j]
  BY DEF CommandsOK
<1>2. \A j \in 0..MaxKeys : IsCommand(cmds'[j])
  BY <1>1 DEF CommandsOK
<1>3. CommandsOK'
  BY <1>1, <1>2 DEF CommandsOK, IsCommand
<1> QED
  BY <1>1, <1>3

\* A command moves on, with the fields that say what it does as they were.
LEMMA CommandMoves ==
    ASSUME CommandsOK, NEW i \in 0..MaxKeys, NEW s, NEW b, NEW e,
           \/ cmds' = [cmds EXCEPT ![i].step = s]
           \/ cmds' = [cmds EXCEPT ![i].step = s, ![i].base = b]
           \/ cmds' = [cmds EXCEPT ![i].step = s, ![i].err = e]
    PROVE  CommandsOK' /\ \A j \in 0..MaxKeys : cmds'[j].do = cmds[j].do
<1>1. IsCommand(cmds[i])
  BY DEF CommandsOK
<1>2. CASE cmds' = [cmds EXCEPT ![i].step = s]
  <2> DEFINE c == [cmds[i] EXCEPT !.step = s]
  <2>1. IsCommand(c) /\ c.do = cmds[i].do
    BY <1>1 DEF IsCommand
  <2>2. cmds' = [cmds EXCEPT ![i] = c]
    BY <1>2
  <2> HIDE DEF c
  <2> QED
    BY <2>1, <2>2, CommandSet
<1>3. CASE cmds' = [cmds EXCEPT ![i].step = s, ![i].base = b]
  <2> DEFINE c == [cmds[i] EXCEPT !.step = s, !.base = b]
  <2>1. IsCommand(c) /\ c.do = cmds[i].do
    BY <1>1 DEF IsCommand
  <2>2. cmds' = [cmds EXCEPT ![i] = c]
    BY <1>3 DEF CommandsOK
  <2> HIDE DEF c
  <2> QED
    BY <2>1, <2>2, CommandSet
<1>4. CASE cmds' = [cmds EXCEPT ![i].step = s, ![i].err = e]
  <2> DEFINE c == [cmds[i] EXCEPT !.step = s, !.err = e]
  <2>1. IsCommand(c) /\ c.do = cmds[i].do
    BY <1>1 DEF IsCommand
  <2>2. cmds' = [cmds EXCEPT ![i] = c]
    BY <1>4 DEF CommandsOK
  <2> HIDE DEF c
  <2> QED
    BY <2>1, <2>2, CommandSet
<1> QED
  BY <1>2, <1>3, <1>4

LEMMA AutostartMoves ==
    ASSUME CommandsOK, NEW b, NEW d, cmds' = [cmds EXCEPT ![0].base = b, ![0].do = d], 0 \in 0..MaxKeys
    PROVE  CommandsOK' /\ \A j \in 1..MaxKeys : cmds'[j].do = cmds[j].do
<1> DEFINE c == [cmds[0] EXCEPT !.base = b, !.do = d]
<1>1. IsCommand(cmds[0])
  BY DEF CommandsOK
<1>2. IsCommand(c)
  BY <1>1 DEF IsCommand
<1>3. cmds' = [cmds EXCEPT ![0] = c]
  BY DEF CommandsOK
<1> HIDE DEF c
<1>4. CommandsOK' /\ \A j \in 0..MaxKeys : j # 0 => cmds'[j] = cmds[j]
  BY <1>2, <1>3, CommandSet
<1>5. \A j \in 1..MaxKeys : j \in 0..MaxKeys /\ j # 0
  BY DashboardAssumption DEF DashboardAssumption
<1> QED
  BY <1>4, <1>5

---------------------------------------------------------------------------------
(* What is shown *)

\* Nothing that is shown or being read is disturbed when anything else changes.
LEMMA ViewStays ==
    ASSUME ShownOK, UNCHANGED viewVars, clock' \in {clock, clock + 1}
    PROVE  ShownOK'
  BY DEF ShownOK, OnePoll, Newer, viewVars

LEMMA ScopeFacts ==
    ASSUME scope \in Scopes
    PROVE  scope.fields \in SUBSET Fields /\ scope.keys \in 0..MaxKeys /\ 0 \in 0..MaxKeys
  BY DashboardAssumption DEF DashboardAssumption, Fields

LEMMA RefreshKeepsOnePoll ==
    ASSUME ShownOK, scope \in Scopes, Refresh, UNCHANGED <<scope, clock>>
    PROVE  ShownOK' /\ snapshot' = snapshot
<1>1. CASE refreshing
  BY <1>1, ViewStays DEF Refresh, viewVars
<1>2. CASE ~refreshing
  <2>1. polls = <<>> /\ refreshing' = TRUE /\ polls' = <<NewPoll>> /\ snapshot' = snapshot
    BY <1>2 DEF Refresh, ShownOK, OnePoll
  <2> DEFINE g == [f \in Fields |-> None]
  <2>2. polls' = <<[left |-> scope'.fields, got |-> g]>> /\ scope'.fields \in SUBSET Fields
    BY <2>1, ScopeFacts DEF NewPoll
  <2>3. DOMAIN g = Fields /\ \A f \in Fields : Newer(f, g[f])'
    BY DEF Newer
  <2> HIDE DEF g
  <2>4. OnePoll'
    BY <2>1, <2>2, <2>3 DEF OnePoll
  <2> QED
    BY <2>1, <2>4 DEF ShownOK
<1> QED
  BY <1>1, <1>2

\* A field is read, or could not be.
LEMMA FetchedKeepsOnePoll ==
    ASSUME ShownOK, NEW p \in 1..Len(polls), NEW f \in Fields, NEW r, Newer(f, r), Fetched(p, f, r)
    PROVE  /\ ShownOK' /\ Len(polls) = 1 /\ Len(polls') = 1
           /\ \A e \in Fields : polls'[1].got[e] = IF e = f THEN r ELSE polls[1].got[e]
<1>1. refreshing /\ polls # <<>>
  BY DEF ShownOK, OnePoll
<1>2. PICK l, g :
        /\ l \in SUBSET Fields
        /\ polls = <<[left |-> l, got |-> g]>>
        /\ DOMAIN g = Fields /\ \A e \in Fields : Newer(e, g[e])
  BY <1>1 DEF ShownOK, OnePoll
<1>3. p = 1
  BY <1>2
<1> DEFINE h == [g EXCEPT ![f] = r]
<1>4. polls' = <<[left |-> l \ {f}, got |-> h]>>
  <2> DEFINE k == [left |-> l, got |-> g]
             m == [k EXCEPT !.left = l \ {f}, !.got[f] = r]
  <2>1. m = [left |-> l \ {f}, got |-> h]
    <3>1. k.got = g
      OBVIOUS
    <3>2. m = [k EXCEPT !.left = l \ {f}, !.got = [k.got EXCEPT ![f] = r]]
      OBVIOUS
    <3>3. m = [k EXCEPT !.left = l \ {f}, !.got = h]
      BY <3>1, <3>2
    <3> HIDE DEF h, m
    <3> QED
      BY <3>3
  <2>2. polls = <<k>>
    BY <1>2
  <2>3. polls' = [<<k>> EXCEPT ![1].left = k.left \ {f}, ![1].got[f] = r]
    BY <1>3, <2>2 DEF Fetched
  <2>4. k.left \ {f} = l \ {f}
    OBVIOUS
  <2> HIDE DEF k, h
  <2>5. polls' = [<<k>> EXCEPT ![1] = m]
    BY <2>3, <2>4
  <2>6. \A x, y : [<<x>> EXCEPT ![1] = y] = <<y>>
    OBVIOUS
  <2> HIDE DEF m
  <2> QED
    BY <2>1, <2>5, <2>6
<1>5. DOMAIN h = Fields /\ \A e \in Fields : Newer(e, h[e])
  BY <1>2
<1>6. UNCHANGED <<clock, snapshot, refreshing>>
  BY DEF Fetched, worldVars
<1> HIDE DEF h
<1>7. OnePoll'
  BY <1>1, <1>2, <1>4, <1>5, <1>6 DEF OnePoll, Newer
<1>8. \A e \in Fields : polls'[1].got[e] = IF e = f THEN r ELSE polls[1].got[e]
  <2>1. \A e \in Fields : h[e] = IF e = f THEN r ELSE g[e]
    BY <1>2 DEF h
  <2> QED
    BY <1>2, <1>4, <2>1
<1>9. Len(polls) = 1 /\ Len(polls') = 1
  BY <1>2, <1>4
<1> QED
  BY <1>6, <1>7, <1>8, <1>9 DEF ShownOK

\* A poll that lands shows nothing older than before, and leaves no poll.
LEMMA LandedKeepsOnePoll ==
    ASSUME ShownOK, NEW p \in 1..Len(polls), PollResult(p)
    PROVE  ShownOK' /\ \A f \in Fields : snapshot'[f].at >= snapshot[f].at
<1>1. refreshing /\ polls # <<>>
  BY DEF ShownOK, OnePoll
<1>2. PICK l, g :
        /\ l \in SUBSET Fields
        /\ polls = <<[left |-> l, got |-> g]>>
        /\ DOMAIN g = Fields /\ \A e \in Fields : Newer(e, g[e])
  BY <1>1 DEF ShownOK, OnePoll
<1>3. Len(polls) = 1 /\ p = 1
  BY <1>2
<1>4. polls' = <<>> /\ refreshing' = FALSE
  BY <1>3 DEF PollResult, Landed
<1>5. snapshot' = [f \in Fields |-> IF g[f] = None THEN snapshot[f] ELSE g[f]]
  BY <1>2, <1>3 DEF PollResult, Merge
<1>6. clock' = clock
  BY DEF PollResult, worldVars
<1>7. \A f \in Fields : /\ snapshot'[f].at \in Int /\ snapshot'[f].at <= clock
                        /\ snapshot'[f].at >= snapshot[f].at
  BY <1>2, <1>5 DEF ShownOK, Newer
<1> QED
  BY <1>4, <1>5, <1>6, <1>7 DEF ShownOK, OnePoll

---------------------------------------------------------------------------------
(* The actions *)

\* What a step may do to what is shown, and to the deletions under way.
NotBack == \A f \in Fields : snapshot'[f].at >= snapshot[f].at
AsShown == \A i \in 1..MaxKeys :
    cmds[i].do # "delete" /\ cmds'[i].do = "delete" => cmds'[i].path = shown

\* A command is started by a key; a deletion is of the model that was armed.
LEMMA CommandStarts ==
    ASSUME VInv, NEW c, IsCommand(c), NewCommand(c), c.do = "delete" => c.path = shown
    PROVE  CommandsOK' /\ keys' \in Nat /\ AsShown
<1>1. keys + 1 \in 0..MaxKeys /\ keys' = keys + 1 /\ cmds' = [cmds EXCEPT ![keys + 1] = c]
  <2>1. MaxKeys \in Nat /\ keys \in Nat /\ scope.keys \in 0..MaxKeys
    BY ScopeFacts, DashboardAssumption DEF VInv, DashboardAssumption
  <2>2. keys < scope.keys /\ keys' = keys + 1 /\ cmds' = [cmds EXCEPT ![keys + 1] = c]
    BY DEF NewCommand
  <2> QED
    BY <2>1, <2>2
<1>2. /\ CommandsOK' /\ cmds'[keys + 1] = c
      /\ \A j \in 0..MaxKeys : j # keys + 1 => cmds'[j] = cmds[j]
  BY <1>1, CommandSet DEF VInv
<1>3. \A j \in 1..MaxKeys : j \in 0..MaxKeys
  BY DashboardAssumption DEF DashboardAssumption
<1> QED
  BY <1>1, <1>2, <1>3 DEF AsShown, VInv

\* The steps of a command that runs, or of the Model when it ends.
LEMMA CommandSteps ==
    ASSUME VInv, NEW i \in 1..MaxKeys, Command(i)
    PROVE  VInv' /\ NotBack /\ AsShown
<1>1. /\ i \in 0..MaxKeys /\ \A j \in 1..MaxKeys : j \in 0..MaxKeys
      /\ \A f \in Fields : snapshot[f].at <= snapshot[f].at
  BY DashboardAssumption DEF DashboardAssumption, VInv, ShownOK
<1>2. ASSUME NEW s, NEW b, NEW e,
             \/ cmds' = [cmds EXCEPT ![i].step = s]
             \/ cmds' = [cmds EXCEPT ![i].step = s, ![i].base = b]
             \/ cmds' = [cmds EXCEPT ![i].step = s, ![i].err = e]
      PROVE  CommandsOK' /\ AsShown
  BY <1>1, <1>2, CommandMoves DEF VInv, AsShown
<1>3. CASE Request(i)
  BY <1>1, <1>2, <1>3, ViewStays DEF Request, VInv, NotBack, ArmedOK, worldVars, viewVars, modelVars
<1>4. CASE RunProcess(i)
  <2>1. CommandsOK' /\ AsShown
    BY <1>2, <1>4 DEF RunProcess, Step, Ended
  <2> QED
    BY <1>1, <1>4, <2>1, ViewStays DEF RunProcess, VInv, NotBack, ArmedOK, viewVars, modelVars
<1>5. CASE Persist(i)
  <2>1. CommandsOK' /\ AsShown
    BY <1>2, <1>5 DEF Persist, Ended
  <2>2. clock' \in {clock, clock + 1}
    BY <1>5 DEF Persist, Change
  <2> QED
    BY <1>1, <1>5, <2>1, <2>2, ViewStays DEF Persist, VInv, NotBack, ArmedOK, viewVars, modelVars
<1>6. CASE ActionResult(i)
  <2>1. CommandsOK' /\ AsShown
    BY <1>2, <1>6 DEF ActionResult, Step
  <2>2. ShownOK' /\ snapshot' = snapshot
    BY <1>6, RefreshKeepsOnePoll DEF ActionResult, VInv, worldVars
  <2> QED
    BY <1>1, <1>6, <2>1, <2>2 DEF ActionResult, VInv, NotBack, ArmedOK, modelVars
<1>7. CASE Delete(i)
  <2>1. CommandsOK' /\ AsShown
    BY <1>2, <1>7 DEF Delete, Ended
  <2>2. clock' \in {clock, clock + 1}
    BY <1>7 DEF Delete, Change
  <2> QED
    BY <1>1, <1>7, <2>1, <2>2, ViewStays DEF Delete, VInv, NotBack, ArmedOK, viewVars, modelVars
<1>8. CASE DeleteResult(i)
  <2>1. CommandsOK' /\ AsShown
    BY <1>2, <1>8 DEF DeleteResult, Step
  <2>2. ShownOK' /\ snapshot' = snapshot
    BY <1>8, RefreshKeepsOnePoll DEF DeleteResult, VInv, worldVars
  <2> QED
    BY <1>1, <1>8, <2>1, <2>2 DEF DeleteResult, VInv, NotBack, ArmedOK
<1> QED
  BY <1>3, <1>4, <1>5, <1>6, <1>7, <1>8 DEF Command

LEMMA AutostartSteps ==
    ASSUME VInv, Autostart
    PROVE  VInv' /\ NotBack /\ AsShown
<1>1. /\ 0 \in 0..MaxKeys /\ \A j \in 1..MaxKeys : j \in 0..MaxKeys
      /\ \A f \in Fields : snapshot[f].at <= snapshot[f].at
  BY DashboardAssumption DEF DashboardAssumption, VInv, ShownOK
<1>2. CASE AutostartRead
  <2>1. CommandsOK' /\ AsShown
    <3>1. \/ cmds' = [cmds EXCEPT ![0].step = "start", ![0].base = startup]
          \/ cmds' = [cmds EXCEPT ![0].step = "gone"]
      BY <1>2 DEF AutostartRead, Step
    <3> QED
      BY <1>1, <3>1, CommandMoves DEF VInv, AsShown
  <2> QED
    BY <1>1, <1>2, <2>1, ViewStays DEF AutostartRead, VInv, NotBack, ArmedOK, worldVars, viewVars, modelVars
<1>3. CASE AutostartOne
  <2>1. CommandsOK' /\ AsShown
    <3>1. PICK b, d : cmds' = [cmds EXCEPT ![0].base = b, ![0].do = d]
      BY <1>3 DEF AutostartOne
    <3> QED
      BY <1>1, <3>1, AutostartMoves DEF VInv, AsShown
  <2> QED
    BY <1>1, <1>3, <2>1, ViewStays DEF AutostartOne, VInv, NotBack, ArmedOK, viewVars, modelVars
<1>4. CASE AutostartResult
  <2>1. CommandsOK' /\ AsShown
    BY <1>1, <1>4, CommandMoves DEF AutostartResult, Step, VInv, AsShown
  <2>2. ShownOK' /\ snapshot' = snapshot
    BY <1>4, RefreshKeepsOnePoll, ViewStays DEF AutostartResult, VInv, worldVars, viewVars
  <2> QED
    BY <1>1, <1>4, <2>1, <2>2 DEF AutostartResult, VInv, NotBack, ArmedOK, modelVars
<1> QED
  BY <1>2, <1>3, <1>4 DEF Autostart

\* The keys and messages that start no command, and what happens elsewhere.
LEMMA OtherSteps ==
    ASSUME VInv,
           \/ Tick
           \/ \E panel \in Services, do \in {"start", "stop", "open"} : Action(panel, do)
           \/ \E confirm \in BOOLEAN : DeleteKey(confirm)
           \/ Move
           \/ Elsewhere
    PROVE  VInv' /\ NotBack /\ AsShown
<1>1. \A f \in Fields : snapshot[f].at <= snapshot[f].at
  BY DEF VInv, ShownOK
<1>2. ASSUME UNCHANGED cmds PROVE CommandsOK' /\ AsShown
  BY <1>2 DEF VInv, CommandsOK, IsCommand, AsShown
<1>3. CASE Tick
  <2>1. ShownOK' /\ snapshot' = snapshot
    BY <1>3, RefreshKeepsOnePoll DEF Tick, VInv, worldVars
  <2> QED
    BY <1>1, <1>2, <1>3, <2>1 DEF Tick, VInv, NotBack, ArmedOK, modelVars
<1>4. ASSUME NEW panel \in Services, NEW do \in {"start", "stop", "open"}, Action(panel, do)
      PROVE  VInv' /\ NotBack /\ AsShown
  <2> DEFINE c == [Idle EXCEPT !.step = "asked", !.panel = panel, !.do = do]
  <2>1. NewCommand(c) /\ UNCHANGED <<scope, worldVars, viewVars, modelVars>>
    BY <1>4 DEF Action
  <2>2. IsCommand(c) /\ c.do = do
    BY DEF IsCommand, Idle
  <2>4. c.do # "delete"
    BY <2>2, <1>4
  <2> HIDE DEF c
  <2>3. CommandsOK' /\ keys' \in Nat /\ AsShown
    BY <2>1, <2>2, <2>4, CommandStarts
  <2> QED
    BY <1>1, <2>1, <2>3, ViewStays DEF VInv, NotBack, ArmedOK, worldVars, viewVars, modelVars
<1>5. ASSUME NEW confirm \in BOOLEAN, DeleteKey(confirm)
      PROVE  VInv' /\ NotBack /\ AsShown
  <2> DEFINE c == [Idle EXCEPT !.step = "run", !.do = "delete", !.path = Selected]
  <2>1. Selected # 0 /\ UNCHANGED <<scope, worldVars, viewVars>>
    BY <1>5 DEF DeleteKey
  <2>2. CASE Confirmed(Selected)
    <3>1. NewCommand(c) /\ pending' = 0
      BY <1>5, <2>2 DEF DeleteKey
    <3>2. IsCommand(c) /\ c.path = Selected
      BY DEF IsCommand, Idle
    <3>4. Selected = shown
      BY <2>1, <2>2 DEF Confirmed, VInv, ArmedOK
    <3> HIDE DEF c
    <3>3. CommandsOK' /\ keys' \in Nat /\ AsShown
      BY <3>1, <3>2, <3>4, CommandStarts
    <3> QED
      BY <1>1, <2>1, <3>1, <3>3, ViewStays DEF VInv, NotBack, ArmedOK, worldVars, viewVars
  <2>3. CASE ~Confirmed(Selected)
    <3>1. pending' = shown' /\ UNCHANGED <<cmds, keys>>
      BY <1>5, <2>3 DEF DeleteKey
    <3> QED
      BY <1>1, <1>2, <2>1, <3>1, ViewStays DEF VInv, NotBack, ArmedOK, worldVars, viewVars
  <2> QED
    BY <2>2, <2>3
<1>6. CASE Move
  BY <1>1, <1>2, <1>6, ViewStays DEF Move, VInv, NotBack, ArmedOK, worldVars, viewVars
<1>7. CASE Elsewhere
  <2>1. clock' \in {clock, clock + 1} /\ UNCHANGED <<scope, viewVars, cmds, keys, modelVars>>
    BY <1>7 DEF Elsewhere, Change
  <2> QED
    BY <1>1, <1>2, <2>1, ViewStays DEF VInv, NotBack, ArmedOK, viewVars, modelVars
<1> QED
  BY <1>3, <1>4, <1>5, <1>6, <1>7

LEMMA PollSteps ==
    ASSUME VInv, NEW p \in 1..Len(polls), PollStep(p)
    PROVE  VInv' /\ NotBack /\ AsShown
<1>1. ASSUME UNCHANGED <<scope, cmds, keys, modelVars>>
      PROVE  CommandsOK' /\ AsShown /\ ArmedOK' /\ keys' \in Nat /\ scope' \in Scopes
  BY <1>1 DEF VInv, CommandsOK, IsCommand, AsShown, ArmedOK, modelVars
<1>2. CASE PollResult(p)
  BY <1>1, <1>2, LandedKeepsOnePoll DEF PollResult, VInv, NotBack
<1>3. ASSUME NEW f \in Fields, FetchOK(p, f) \/ FetchFails(p, f)
      PROVE  VInv' /\ NotBack /\ AsShown
  <2>1. PICK r : Fetched(p, f, r) /\ Newer(f, r)
    <3>1. CASE FetchOK(p, f)
      <4> DEFINE r == [value |-> IF f = "config" THEN startup ELSE disk, at |-> clock]
      <4>1. Fetched(p, f, r)
        BY <3>1 DEF FetchOK
      <4>2. Newer(f, r)
        BY DEF Newer, VInv, ShownOK
      <4> QED
        BY <4>1, <4>2
    <3>2. CASE FetchFails(p, f)
      BY <3>2 DEF FetchFails, Newer
    <3> QED
      BY <1>3, <3>1, <3>2
  <2>2. ShownOK'
    BY <2>1, FetchedKeepsOnePoll DEF VInv
  <2>3. UNCHANGED <<scope, cmds, keys, modelVars, snapshot>>
    BY <2>1 DEF Fetched
  <2>4. NotBack
    BY <2>3 DEF NotBack, VInv, ShownOK
  <2> QED
    BY <1>1, <2>2, <2>3, <2>4 DEF VInv
<1> QED
  BY <1>2, <1>3 DEF PollStep

---------------------------------------------------------------------------------
LEMMA VInvStep ==
    ASSUME VInv, [Next]_vars
    PROVE  VInv' /\ NotBack /\ AsShown
<1>1. CASE UNCHANGED vars
  BY <1>1 DEF vars, worldVars, viewVars, modelVars, VInv, ShownOK, OnePoll, Newer,
              CommandsOK, IsCommand, ArmedOK, NotBack, AsShown
<1>2. CASE Next
  BY <1>2, OtherSteps, PollSteps, CommandSteps, AutostartSteps DEF Next
<1> QED
  BY <1>1, <1>2

LEMMA VInvInit ==
    ASSUME Init PROVE VInv
<1>1. scope \in Scopes /\ scope.fields \in SUBSET Fields
  BY ScopeFacts DEF Init
<1>2. OnePoll
  <2> DEFINE g == [f \in Fields |-> None]
  <2>1. refreshing /\ polls = <<[left |-> scope.fields, got |-> g]>>
    BY DEF Init, NewPoll
  <2>2. DOMAIN g = Fields /\ \A f \in Fields : Newer(f, g[f])
    BY DEF Newer
  <2> HIDE DEF g
  <2> QED
    BY <1>1, <2>1, <2>2 DEF OnePoll
<1>3. ShownOK
  <2>1. \A f \in Fields : snapshot[f].at = -1
    BY DEF Init, None
  <2> QED
    BY <1>2, <2>1 DEF Init, ShownOK
<1>4. CommandsOK
  <2>1. IsCommand(Idle) /\ IsCommand([Idle EXCEPT !.step = "read"])
    BY DEF IsCommand, Idle
  <2>2. /\ DOMAIN cmds = 0..MaxKeys
        /\ \A i \in 0..MaxKeys : cmds[i] \in {Idle, [Idle EXCEPT !.step = "read"]}
    BY DEF Init
  <2> QED
    BY <2>1, <2>2 DEF CommandsOK
<1> QED
  BY <1>1, <1>3, <1>4 DEF VInv, ArmedOK, Init

\* The dashboard shows what the polls read, one poll at a time, and keeps an armed
\* deletion to the model that was selected; whatever the models, keys and changes.
THEOREM ViewInductive == Spec => []VInv
<1>1. Init => VInv
  BY VInvInit
<1>2. VInv /\ [Next]_vars => VInv'
  BY VInvStep
<1> QED
  BY <1>1, <1>2, PTL DEF Spec

\* Nothing shown is replaced by something read earlier.
THEOREM NeverBackHolds == Spec => NeverBack
<1>1. VInv /\ [Next]_vars => [\A f \in Fields : snapshot'[f].at >= snapshot[f].at]_vars
  BY VInvStep DEF NotBack
<1> QED
  BY <1>1, ViewInductive, PTL DEF Spec, NeverBack

\* A deletion is of the model that was selected when d was first pressed.
THEOREM DeleteAsShownHolds == Spec => DeleteAsShown
<1>1. VInv /\ [Next]_vars => [\A i \in 1..MaxKeys :
          cmds[i].do # "delete" /\ cmds'[i].do = "delete" => cmds'[i].path = shown]_vars
  BY VInvStep DEF AsShown
<1> QED
  BY <1>1, ViewInductive, PTL DEF Spec, DeleteAsShown

---------------------------------------------------------------------------------
(* An explicit Stop is remembered *)

\* A reading that is not older than config.yaml says what is in it.
Known(r) == changed["config"] <= r.at => r.value = startup

KnownOK ==
    /\ DOMAIN changed = Fields /\ changed["config"] \in Nat /\ changed["config"] <= clock
    /\ Known(snapshot["config"])
    /\ \A p \in 1..Len(polls) : Known(polls[p].got["config"])

\* The gateway's commands that have taken the configuration shown.
Past(i) == cmds[i].panel = "gateway" /\ cmds[i].step \in {"run", "persist", "done"}

\* What such a command knows when it took the file's configuration and runs alone.
Due(i) ==
    /\ cmds[i].step \in {"run", "persist"} => cmds[i].base = startup
    /\ cmds[i].step = "done" /\ cmds[i].do = "stop" /\ ~cmds[i].err => "gateway" \notin startup

Place(i) ==
    /\ cmds[i].step = "persist" => cmds[i].panel = "gateway"
    /\ cmds[i].do = "delete" => cmds[i].panel = ""

StopOK ==
    /\ told \in [stopped : BOOLEAN, stale : BOOLEAN, over : BOOLEAN]
    /\ \A i \in 1..MaxKeys : Place(i)
    /\ ~told.over => \A i, j \in 1..MaxKeys : Past(i) /\ Past(j) => i = j
    /\ ~told.over /\ ~told.stale => \A i \in 1..MaxKeys : Past(i) => Due(i)
    /\ told.stopped => ~told.over /\ \A i \in 1..MaxKeys : ~Past(i)
    /\ SeenStopRemembered

RInv == VInv /\ KnownOK /\ StopOK

LEMMA OneMore ==
    ASSUME NEW m \in Nat, NEW n \in Nat, NEW k \in 0..m, n < k
    PROVE  n + 1 \in 0..m
  OBVIOUS

LEMMA Indices == \A j \in 1..MaxKeys : j \in 0..MaxKeys
  BY DashboardAssumption DEF DashboardAssumption

\* The fields of a command that moves on, and the others as they were.
Moved(i, s, b, e) ==
    /\ cmds'[i].step = s /\ cmds'[i].base = b /\ cmds'[i].err = e
    /\ cmds'[i].panel = cmds[i].panel /\ cmds'[i].do = cmds[i].do
    /\ \A j \in 1..MaxKeys : j # i => cmds'[j] = cmds[j]

LEMMA StepMoves ==
    ASSUME CommandsOK, NEW i \in 1..MaxKeys, NEW s, cmds' = [cmds EXCEPT ![i].step = s]
    PROVE  Moved(i, s, cmds[i].base, cmds[i].err)
<1> DEFINE c == [cmds[i] EXCEPT !.step = s]
<1>1. IsCommand(cmds[i])
  BY Indices DEF CommandsOK
<1>2. /\ IsCommand(c) /\ c.step = s /\ c.base = cmds[i].base /\ c.err = cmds[i].err
      /\ c.panel = cmds[i].panel /\ c.do = cmds[i].do
  BY <1>1 DEF IsCommand
<1>3. cmds' = [cmds EXCEPT ![i] = c]
  OBVIOUS
<1> HIDE DEF c
<1>4. i \in 0..MaxKeys
  BY Indices
<1>5. cmds'[i] = c /\ \A j \in 0..MaxKeys : j # i => cmds'[j] = cmds[j]
  BY <1>2, <1>3, <1>4, CommandSet
<1> QED
  BY <1>2, <1>5, Indices DEF Moved

LEMMA BaseMoves ==
    ASSUME CommandsOK, NEW i \in 1..MaxKeys, NEW s, NEW b,
           cmds' = [cmds EXCEPT ![i].step = s, ![i].base = b]
    PROVE  Moved(i, s, b, cmds[i].err)
<1> DEFINE c == [cmds[i] EXCEPT !.step = s, !.base = b]
<1>1. IsCommand(cmds[i])
  BY Indices DEF CommandsOK
<1>2. /\ IsCommand(c) /\ c.step = s /\ c.base = b /\ c.err = cmds[i].err
      /\ c.panel = cmds[i].panel /\ c.do = cmds[i].do
  BY <1>1 DEF IsCommand
<1>3. cmds' = [cmds EXCEPT ![i] = c]
  BY Indices DEF CommandsOK
<1> HIDE DEF c
<1>4. i \in 0..MaxKeys
  BY Indices
<1>5. cmds'[i] = c /\ \A j \in 0..MaxKeys : j # i => cmds'[j] = cmds[j]
  BY <1>2, <1>3, <1>4, CommandSet
<1> QED
  BY <1>2, <1>5, Indices DEF Moved

LEMMA EndMoves ==
    ASSUME CommandsOK, NEW i \in 1..MaxKeys, NEW e, cmds' = Ended(i, e)
    PROVE  Moved(i, "done", cmds[i].base, e)
<1> DEFINE c == [cmds[i] EXCEPT !.step = "done", !.err = e]
<1>1. IsCommand(cmds[i])
  BY Indices DEF CommandsOK
<1>2. /\ IsCommand(c) /\ c.step = "done" /\ c.base = cmds[i].base /\ c.err = e
      /\ c.panel = cmds[i].panel /\ c.do = cmds[i].do
  BY <1>1 DEF IsCommand
<1>3. cmds' = [cmds EXCEPT ![i] = c]
  BY Indices DEF CommandsOK, Ended
<1> HIDE DEF c
<1>4. i \in 0..MaxKeys
  BY Indices
<1>5. cmds'[i] = c /\ \A j \in 0..MaxKeys : j # i => cmds'[j] = cmds[j]
  BY <1>2, <1>3, <1>4, CommandSet
<1> QED
  BY <1>2, <1>5, Indices DEF Moved

---------------------------------------------------------------------------------
(* What is known of config.yaml *)

LEMMA KnownKeeps ==
    ASSUME ShownOK, KnownOK, UNCHANGED <<startup, snapshot, polls>>,
           DOMAIN changed' = DOMAIN changed, changed'["config"] = changed["config"],
           clock' \in {clock, clock + 1}
    PROVE  KnownOK'
<1>1. changed["config"] \in Nat /\ changed["config"] <= clock /\ clock \in Nat
  BY DEF ShownOK, KnownOK
<1>2. changed'["config"] <= clock'
  BY <1>1
<1> QED
  BY <1>2 DEF KnownOK, Known

LEMMA KnownStays ==
    ASSUME ShownOK, KnownOK, UNCHANGED <<startup, changed, snapshot, polls>>,
           clock' \in {clock, clock + 1}
    PROVE  KnownOK'
  BY KnownKeeps

\* After a change of config.yaml nothing that was read before it is taken for it.
LEMMA KnownChanges ==
    ASSUME ShownOK, KnownOK, NEW new, Change("config", new), UNCHANGED viewVars
    PROVE  KnownOK'
<1>1. clock \in Nat /\ "config" \in Fields /\ DOMAIN changed = Fields
  BY DEF ShownOK, KnownOK, Fields
<1>2. changed'["config"] = clock + 1 /\ DOMAIN changed' = Fields /\ clock' = clock + 1
  BY <1>1 DEF Change
<1>3. snapshot["config"].at \in Int /\ snapshot["config"].at <= clock
  BY <1>1 DEF ShownOK
<1>4. \A p \in 1..Len(polls) : /\ polls[p].got["config"].at \in Int
                               /\ polls[p].got["config"].at <= clock
  <2> SUFFICES ASSUME NEW p \in 1..Len(polls)
               PROVE  polls[p].got["config"].at \in Int /\ polls[p].got["config"].at <= clock
    OBVIOUS
  <2>1. PICK l, g : polls = <<[left |-> l, got |-> g]>> /\ Newer("config", g["config"])
    BY <1>1 DEF ShownOK, OnePoll
  <2>2. polls[p].got["config"] = g["config"]
    BY <2>1
  <2>3. None.at = -1
    BY DEF None
  <2> QED
    BY <1>1, <2>1, <2>2, <2>3 DEF Newer
<1>5. snapshot' = snapshot /\ polls' = polls
  BY DEF viewVars
<1>6. Known(snapshot["config"])'
  BY <1>1, <1>2, <1>3, <1>5 DEF Known
<1>7. ASSUME NEW p \in 1..Len(polls) PROVE Known(polls[p].got["config"])'
  BY <1>1, <1>2, <1>4, <1>5 DEF Known
<1> QED
  BY <1>1, <1>2, <1>5, <1>6, <1>7 DEF KnownOK

LEMMA KnownRefresh ==
    ASSUME ShownOK, KnownOK, Refresh, UNCHANGED worldVars
    PROVE  KnownOK'
<1>1. CASE refreshing
  BY <1>1, KnownStays DEF Refresh, viewVars, worldVars
<1>2. CASE ~refreshing
  <2>1. polls' = <<NewPoll>> /\ snapshot' = snapshot
    BY <1>2 DEF Refresh, ShownOK, OnePoll
  <2>2. NewPoll.got["config"].at = -1
    BY DEF NewPoll, None, Fields
  <2>3. changed["config"] \in Nat
    BY DEF KnownOK
  <2>4. \A p \in 1..Len(polls') : polls'[p] = NewPoll
    BY <2>1
  <2>5. ASSUME NEW p \in 1..Len(polls') PROVE Known(polls[p].got["config"])'
    <3>1. polls'[p].got["config"].at = -1
      BY <2>2, <2>4
    <3> QED
      BY <2>3, <3>1 DEF Known, worldVars
  <2> QED
    BY <2>1, <2>5 DEF KnownOK, Known, worldVars
<1> QED
  BY <1>1, <1>2

LEMMA KnownPoll ==
    ASSUME VInv, KnownOK, NEW p \in 1..Len(polls), PollStep(p)
    PROVE  KnownOK'
<1>1. "config" \in Fields /\ ShownOK /\ None.at = -1 /\ changed["config"] \in Nat
  BY DEF Fields, VInv, None, KnownOK
<1>2. CASE PollResult(p)
  <2>1. ShownOK' /\ refreshing' = FALSE /\ UNCHANGED worldVars
    BY <1>1, <1>2, LandedKeepsOnePoll DEF PollResult, Landed
  <2>2. polls' = <<>>
    BY <2>1 DEF ShownOK, OnePoll
  <2>3. snapshot'["config"] \in {snapshot["config"], polls[p].got["config"]}
    BY <1>1, <1>2 DEF PollResult, Merge
  <2>4. Known(snapshot["config"])'
    BY <2>1, <2>3 DEF KnownOK, Known, worldVars
  <2> QED
    BY <2>1, <2>2, <2>4 DEF KnownOK, worldVars
<1>3. ASSUME NEW f \in Fields, NEW r, Newer(f, r), Fetched(p, f, r), f = "config" => Known(r)
      PROVE  KnownOK'
  <2>1. /\ Len(polls) = 1 /\ Len(polls') = 1
        /\ polls'[1].got["config"] = IF "config" = f THEN r ELSE polls[1].got["config"]
    BY <1>1, <1>3, FetchedKeepsOnePoll
  <2>2. UNCHANGED <<worldVars, snapshot>>
    BY <1>3 DEF Fetched
  <2>3. Known(polls'[1].got["config"])
    BY <1>3, <2>1 DEF KnownOK
  <2>4. ASSUME NEW q \in 1..Len(polls') PROVE Known(polls[q].got["config"])'
    <3>1. q = 1
      BY <2>1
    <3> QED
      BY <2>2, <2>3, <3>1 DEF Known, worldVars
  <2> QED
    BY <2>2, <2>4 DEF KnownOK, Known, worldVars
<1>4. ASSUME NEW f \in Fields, FetchOK(p, f) PROVE KnownOK'
  <2> DEFINE r == [value |-> IF f = "config" THEN startup ELSE disk, at |-> clock]
  <2>1. Fetched(p, f, r)
    BY <1>4 DEF FetchOK
  <2>2. Newer(f, r)
    BY DEF Newer, VInv, ShownOK
  <2>3. f = "config" => Known(r)
    BY DEF Known
  <2> HIDE DEF r
  <2> QED
    BY <1>3, <2>1, <2>2, <2>3
<1>5. ASSUME NEW f \in Fields, FetchFails(p, f) PROVE KnownOK'
  <2>1. Fetched(p, f, None) /\ Newer(f, None) /\ Known(None)
    BY <1>1, <1>5 DEF FetchFails, Newer, Known
  <2> QED
    BY <1>3, <2>1
<1> QED
  BY <1>2, <1>4, <1>5 DEF PollStep

---------------------------------------------------------------------------------
(* What the gateway's commands know *)

\* Nothing that matters to the gateway's commands moves.
LEMMA OtherMoves ==
    ASSUME StopOK, UNCHANGED <<startup, told>>,
           \A i \in 1..MaxKeys : cmds'[i] = cmds[i] \/ (Place(i)' /\ ~Past(i)')
    PROVE  StopOK'
<1>1. ASSUME NEW i \in 1..MaxKeys PROVE Place(i)'
  BY <1>1 DEF StopOK, Place
<1>2. ASSUME NEW i \in 1..MaxKeys, Past(i)' PROVE Past(i) /\ cmds'[i] = cmds[i]
  BY <1>2 DEF Past
<1>3. ASSUME ~told.over, NEW i \in 1..MaxKeys, NEW j \in 1..MaxKeys, Past(i)', Past(j)'
      PROVE  i = j
  BY <1>2, <1>3 DEF StopOK
<1>4. ASSUME ~told.over, ~told.stale, NEW i \in 1..MaxKeys, Past(i)' PROVE Due(i)'
  <2>1. Due(i) /\ cmds'[i] = cmds[i]
    BY <1>2, <1>4 DEF StopOK
  <2> QED
    BY <2>1 DEF Due
<1>5. told.stopped => ~told.over /\ \A i \in 1..MaxKeys : ~Past(i)'
  BY <1>2 DEF StopOK
<1>6. SeenStopRemembered'
  BY DEF StopOK, SeenStopRemembered
<1> QED
  BY <1>1, <1>3, <1>4, <1>5, <1>6 DEF StopOK

\* A command of the gateway moves on, and may write config.yaml.
LEMMA PastMoves ==
    ASSUME StopOK, told' = told, NEW i \in 1..MaxKeys, Past(i), Past(i)',
           \A j \in 1..MaxKeys : j # i => cmds'[j] = cmds[j],
           cmds'[i].do = cmds[i].do, Due(i) => Due(i)'
    PROVE  StopOK'
<1>1. ASSUME NEW j \in 1..MaxKeys PROVE Place(j)'
  BY <1>1 DEF StopOK, Place, Past
<1>2. ASSUME NEW j \in 1..MaxKeys, Past(j)' PROVE Past(j)
  BY <1>2 DEF Past
<1>3. ASSUME ~told.over, NEW j \in 1..MaxKeys, NEW k \in 1..MaxKeys, Past(j)', Past(k)'
      PROVE  j = k
  BY <1>2, <1>3 DEF StopOK
<1>4. ASSUME ~told.over, ~told.stale, NEW j \in 1..MaxKeys, Past(j)' PROVE Due(j)'
  <2>1. j = i
    BY <1>3, <1>4
  <2>2. Due(i)
    BY <1>4 DEF StopOK
  <2> QED
    BY <2>1, <2>2
<1>5. ~told.stopped
  BY DEF StopOK
<1> QED
  BY <1>1, <1>3, <1>4, <1>5 DEF StopOK, SeenStopRemembered

LEMMA StopRequest ==
    ASSUME RInv, NEW i \in 1..MaxKeys, Request(i)
    PROVE  StopOK'
<1>1. Moved(i, "run", snapshot["config"].value, cmds[i].err)
  BY BaseMoves DEF Request, RInv, VInv
<1>2. startup' = startup /\ StopOK /\ Place(i)
  BY DEF Request, worldVars, RInv, StopOK
<1>3. Place(i)' /\ cmds'[i].step = "run"
  BY <1>1, <1>2 DEF Place, Moved
<1>4. CASE cmds[i].panel # "gateway"
  <2>1. told' = told /\ ~Past(i)'
    BY <1>1, <1>4 DEF Request, Past, Moved
  <2> QED
    BY <1>1, <1>2, <1>3, <2>1, OtherMoves DEF Moved
<1>5. CASE cmds[i].panel = "gateway"
  <2> DEFINE alone == InFlight("gateway") = {i}
             late == snapshot["config"].at < changed["config"]
  <2>1. told' = [stopped |-> FALSE, stale |-> late, over |-> ~alone]
    BY <1>5 DEF Request
  <2>2. late \in BOOLEAN /\ alone \in BOOLEAN
    OBVIOUS
  <2>3. alone => \A j \in 1..MaxKeys : Past(j)' => j = i
    <3> SUFFICES ASSUME alone, NEW j \in 1..MaxKeys, j # i, Past(j)' PROVE FALSE
      OBVIOUS
    <3>1. Past(j)
      BY <1>1 DEF Moved, Past
    <3>2. j \in InFlight("gateway")
      BY <3>1 DEF InFlight, Past
    <3> QED
      BY <3>2
  <2>4. ~late => Due(i)'
    <3>1. ~late => snapshot["config"].value = startup
      BY DEF RInv, KnownOK, Known, VInv, ShownOK, Fields
    <3> QED
      BY <1>1, <1>2, <3>1 DEF Due, Moved
  <2> HIDE DEF alone, late
  <2>5. ~told'.over => \A j \in 1..MaxKeys : Past(j)' => j = i
    BY <2>1, <2>3
  <2>6. ~told'.over /\ ~told'.stale => \A j \in 1..MaxKeys : Past(j)' => Due(j)'
    BY <2>1, <2>4, <2>5
  <2>7. told' \in [stopped : BOOLEAN, stale : BOOLEAN, over : BOOLEAN] /\ ~told'.stopped
    BY <2>1, <2>2
  <2>8. \A j \in 1..MaxKeys : Place(j)'
    BY <1>1, <1>2, <1>3 DEF StopOK, Place, Moved
  <2> QED
    BY <2>5, <2>6, <2>7, <2>8 DEF StopOK, SeenStopRemembered
<1> QED
  BY <1>4, <1>5

LEMMA StopRun ==
    ASSUME RInv, NEW i \in 1..MaxKeys, RunProcess(i)
    PROVE  StopOK'
<1>1. \/ /\ Moved(i, "persist", cmds[i].base, cmds[i].err)
         /\ cmds[i].panel = "gateway" /\ cmds[i].do # "open"
      \/ /\ Moved(i, "done", cmds[i].base, FALSE)
         /\ ~(cmds[i].panel = "gateway" /\ cmds[i].do # "open")
      \/ Moved(i, "done", cmds[i].base, TRUE)
  BY StepMoves, EndMoves DEF RunProcess, Step, RInv, VInv
<1>2. UNCHANGED <<startup, told>> /\ StopOK /\ Place(i) /\ cmds[i].step = "run"
  BY DEF RunProcess, RInv, StopOK
<1>3. Place(i)'
  BY <1>1, <1>2 DEF Place, Moved
<1>4. CASE cmds[i].panel # "gateway"
  <2>1. ~Past(i)'
    BY <1>1, <1>4 DEF Past, Moved
  <2> QED
    BY <1>1, <1>2, <1>3, <2>1, OtherMoves DEF Moved
<1>5. CASE cmds[i].panel = "gateway"
  <2>1. Past(i) /\ Past(i)' /\ cmds'[i].do = cmds[i].do
    BY <1>1, <1>2, <1>5 DEF Past, Moved
  <2>2. Due(i) => Due(i)'
    BY <1>1, <1>2, <1>5 DEF Due, Moved
  <2> QED
    BY <1>1, <1>2, <2>1, <2>2, PastMoves DEF Moved
<1> QED
  BY <1>4, <1>5

LEMMA StopPersist ==
    ASSUME RInv, NEW i \in 1..MaxKeys, Persist(i)
    PROVE  StopOK' /\ KnownOK'
<1> DEFINE base == Base(cmds[i].base)
           desired == Desired(base, cmds[i].do)
<1>1. /\ \/ Moved(i, "done", cmds[i].base, FALSE) /\ startup' = desired
         \/ Moved(i, "done", cmds[i].base, FALSE) /\ startup' = startup /\ desired = base
         \/ Moved(i, "done", cmds[i].base, TRUE)
      /\ told' = told /\ cmds[i].step = "persist"
  BY EndMoves DEF Persist, Change, RInv, VInv
<1>2. StopOK /\ Place(i) /\ cmds[i].panel = "gateway"
  BY <1>1 DEF RInv, StopOK, Place
<1>3. Past(i) /\ Past(i)' /\ cmds'[i].do = cmds[i].do
  BY <1>1, <1>2 DEF Past, Moved
<1>4. Due(i) => Due(i)'
  <2>1. cmds[i].do = "stop" => "gateway" \notin desired
    BY DEF Desired
  <2>2. cmds[i].base = startup /\ desired = base /\ cmds[i].do = "stop" => "gateway" \notin startup
    BY <2>1 DEF Base, Services
  <2> HIDE DEF base, desired
  <2>3. cmds'[i].step = "done" /\ cmds'[i].do = cmds[i].do
    BY <1>1 DEF Moved
  <2>4. Due(i) /\ cmds[i].do = "stop" /\ ~cmds'[i].err => "gateway" \notin startup'
    BY <1>1, <2>1, <2>2 DEF Due, Moved
  <2> QED
    BY <2>3, <2>4 DEF Due
<1>5. KnownOK'
  <2>1. UNCHANGED viewVars
    BY DEF Persist
  <2>2. Change("config", desired) \/ UNCHANGED <<startup, changed, clock>>
    BY DEF Persist
  <2> HIDE DEF desired
  <2> QED
    BY <2>1, <2>2, KnownChanges, KnownStays DEF RInv, VInv, viewVars
<1> QED
  BY <1>1, <1>2, <1>3, <1>4, <1>5, PastMoves DEF Moved

LEMMA StopResult ==
    ASSUME RInv, NEW i \in 1..MaxKeys, ActionResult(i)
    PROVE  StopOK'
<1>1. Moved(i, "gone", cmds[i].base, cmds[i].err)
  BY StepMoves DEF ActionResult, Step, RInv, VInv
<1>2. startup' = startup /\ StopOK /\ Place(i) /\ cmds[i].step = "done"
  BY DEF ActionResult, worldVars, RInv, StopOK
<1>3. Place(i)' /\ ~Past(i)'
  BY <1>1, <1>2 DEF Place, Past, Moved
<1> DEFINE remembered == /\ cmds[i].panel = "gateway" /\ cmds[i].do = "stop"
                         /\ ~cmds[i].err /\ ~told.over
<1>4. CASE ~remembered
  <2>1. told' = told
    BY <1>4 DEF ActionResult
  <2> QED
    BY <1>1, <1>2, <1>3, <2>1, OtherMoves DEF Moved
<1>5. CASE remembered
  <2>1. told' = [told EXCEPT !.stopped = TRUE]
    BY <1>5 DEF ActionResult
  <2>2. /\ told' \in [stopped : BOOLEAN, stale : BOOLEAN, over : BOOLEAN]
        /\ told'.stopped /\ told'.stale = told.stale /\ told'.over = told.over
    BY <1>2, <2>1 DEF StopOK
  <2>3. Past(i) /\ ~told.over
    BY <1>2, <1>5 DEF Past
  <2>4. ASSUME NEW j \in 1..MaxKeys PROVE ~Past(j)' /\ Place(j)'
    <3>1. CASE j = i
      BY <1>3, <3>1
    <3>2. CASE j # i
      BY <1>1, <1>2, <2>3, <3>2 DEF StopOK, Moved, Past, Place
    <3> QED
      BY <3>1, <3>2
  <2>5. ~told.stale => "gateway" \notin startup
    BY <1>2, <1>5, <2>3 DEF StopOK, Due
  <2> QED
    BY <1>2, <2>2, <2>3, <2>4, <2>5 DEF StopOK, SeenStopRemembered
<1> QED
  BY <1>4, <1>5

\* The commands and messages that are not the gateway's.
LEMMA CommandRemembers ==
    ASSUME RInv, NEW i \in 1..MaxKeys, Command(i)
    PROVE  StopOK' /\ KnownOK'
<1>1. ShownOK /\ CommandsOK /\ StopOK /\ KnownOK /\ clock \in Nat
  BY DEF RInv, VInv, ShownOK
<1>2. CASE Request(i)
  <2>1. KnownOK'
    BY <1>1, <1>2, KnownStays DEF Request, worldVars, viewVars
  <2> QED
    BY <1>2, <2>1, StopRequest
<1>3. CASE RunProcess(i)
  <2>1. KnownOK'
    BY <1>1, <1>3, KnownStays DEF RunProcess, viewVars
  <2> QED
    BY <1>3, <2>1, StopRun
<1>4. CASE Persist(i)
  BY <1>4, StopPersist
<1>5. CASE ActionResult(i)
  <2>1. KnownOK'
    BY <1>1, <1>5, KnownRefresh DEF ActionResult
  <2> QED
    BY <1>5, <2>1, StopResult
<1>6. CASE Delete(i)
  <2>1. \E e \in BOOLEAN : Moved(i, "done", cmds[i].base, e)
    BY <1>1, <1>6, EndMoves DEF Delete
  <2>2. UNCHANGED <<startup, told, snapshot, polls>> /\ clock' \in {clock, clock + 1} /\ Place(i)
    BY <1>1, <1>6 DEF Delete, Change, viewVars, StopOK
  <2>3. Place(i)' /\ ~Past(i)'
    BY <1>6, <2>1, <2>2 DEF Delete, Place, Past, Moved
  <2>4. StopOK'
    BY <1>1, <2>1, <2>2, <2>3, OtherMoves DEF Moved
  <2>5. changed' = changed \/ changed' = [changed EXCEPT !["models"] = clock + 1]
    BY <1>6 DEF Delete, Change
  <2>6. changed'["config"] = changed["config"] /\ DOMAIN changed' = DOMAIN changed
    BY <1>1, <2>5 DEF KnownOK, Fields
  <2> QED
    BY <1>1, <2>2, <2>4, <2>6, KnownKeeps
<1>7. CASE DeleteResult(i)
  <2>1. Moved(i, "gone", cmds[i].base, cmds[i].err) /\ Place(i)
    BY <1>1, <1>7, StepMoves DEF DeleteResult, Step, StopOK
  <2>2. Place(i)' /\ ~Past(i)'
    BY <1>7, <2>1 DEF Place, Past, Moved
  <2>3. UNCHANGED <<startup, told>>
    BY <1>7 DEF DeleteResult, worldVars
  <2>4. StopOK'
    BY <1>1, <2>1, <2>2, <2>3, OtherMoves DEF Moved
  <2> QED
    BY <1>1, <1>7, <2>4, KnownRefresh DEF DeleteResult
<1> QED
  BY <1>2, <1>3, <1>4, <1>5, <1>6, <1>7 DEF Command

LEMMA AutostartRemembers ==
    ASSUME RInv, Autostart
    PROVE  StopOK' /\ KnownOK'
<1>1. ShownOK /\ CommandsOK /\ StopOK /\ KnownOK /\ clock \in Nat
  BY DEF RInv, VInv, ShownOK
<1>2. UNCHANGED <<startup, told, changed, clock>>
  BY DEF Autostart, AutostartRead, AutostartOne, AutostartResult, worldVars
<1>3. \A j \in 1..MaxKeys : cmds'[j] = cmds[j]
  <2>1. \A j \in 1..MaxKeys : j \in 0..MaxKeys /\ j # 0
    BY DashboardAssumption DEF DashboardAssumption
  <2> QED
    BY <1>1, <2>1 DEF Autostart, AutostartRead, AutostartOne, AutostartResult, Step, CommandsOK
<1>4. StopOK'
  BY <1>1, <1>2, <1>3, OtherMoves
<1>5. UNCHANGED viewVars \/ (Refresh /\ UNCHANGED worldVars)
  BY DEF Autostart, AutostartRead, AutostartOne, AutostartResult
<1>6. KnownOK'
  BY <1>1, <1>2, <1>5, KnownStays, KnownRefresh DEF viewVars
<1> QED
  BY <1>4, <1>6

\* A key may start a command, which has not taken anything yet.
LEMMA StartRemembers ==
    ASSUME RInv, NEW c, IsCommand(c), NewCommand(c), UNCHANGED <<startup, told>>,
           c.panel = "gateway" => c.step = "asked",
           c.step # "persist", c.do = "delete" => c.panel = ""
    PROVE  StopOK'
<1>1. keys + 1 \in 0..MaxKeys /\ cmds' = [cmds EXCEPT ![keys + 1] = c]
  <2>1. MaxKeys \in Nat /\ keys \in Nat /\ scope.keys \in 0..MaxKeys
    BY ScopeFacts, DashboardAssumption DEF RInv, VInv, DashboardAssumption
  <2>2. keys < scope.keys
    BY DEF NewCommand
  <2>4. keys + 1 \in 0..MaxKeys
    BY <2>1, <2>2, OneMore
  <2> QED
    BY <2>4 DEF NewCommand
<1>2. cmds'[keys + 1] = c /\ \A j \in 0..MaxKeys : j # keys + 1 => cmds'[j] = cmds[j]
  BY <1>1, CommandSet DEF RInv, VInv
<1>3. ASSUME NEW j \in 1..MaxKeys PROVE cmds'[j] = cmds[j] \/ (Place(j)' /\ ~Past(j)')
  <2>1. CASE j = keys + 1
    BY <1>2, <2>1 DEF Place, Past
  <2>2. CASE j # keys + 1
    BY <1>2, <2>2, Indices
  <2> QED
    BY <2>1, <2>2
<1> QED
  BY <1>3, OtherMoves DEF RInv

LEMMA OtherRemembers ==
    ASSUME RInv,
           \/ Tick
           \/ \E panel \in Services, do \in {"start", "stop", "open"} : Action(panel, do)
           \/ \E confirm \in BOOLEAN : DeleteKey(confirm)
           \/ Move
           \/ Elsewhere
    PROVE  StopOK' /\ KnownOK'
<1>1. ShownOK /\ CommandsOK /\ StopOK /\ KnownOK /\ clock \in Nat
  BY DEF RInv, VInv, ShownOK
<1>2. ASSUME UNCHANGED <<worldVars, viewVars>> PROVE KnownOK'
  BY <1>1, <1>2, KnownStays DEF worldVars, viewVars
<1>3. ASSUME UNCHANGED <<startup, cmds, told>> PROVE StopOK'
  BY <1>1, <1>3, OtherMoves
<1>4. CASE Tick
  BY <1>1, <1>3, <1>4, KnownRefresh DEF Tick, worldVars
<1>5. ASSUME NEW panel \in Services, NEW do \in {"start", "stop", "open"}, Action(panel, do)
      PROVE  StopOK' /\ KnownOK'
  <2> DEFINE c == [Idle EXCEPT !.step = "asked", !.panel = panel, !.do = do]
  <2>1. NewCommand(c) /\ UNCHANGED <<worldVars, viewVars, told>>
    BY <1>5 DEF Action
  <2>2. IsCommand(c) /\ c.do = do /\ c.step = "asked"
    BY DEF IsCommand, Idle
  <2>3. do # "delete"
    BY <1>5
  <2> HIDE DEF c
  <2>4. StopOK'
    BY <2>1, <2>2, <2>3, StartRemembers DEF worldVars
  <2> QED
    BY <1>2, <2>1, <2>4
<1>6. ASSUME NEW confirm \in BOOLEAN, DeleteKey(confirm)
      PROVE  StopOK' /\ KnownOK'
  <2> DEFINE c == [Idle EXCEPT !.step = "run", !.do = "delete", !.path = Selected]
  <2>1. UNCHANGED <<worldVars, viewVars, told>>
    BY <1>6 DEF DeleteKey
  <2>2. NewCommand(c) \/ UNCHANGED cmds
    BY <1>6 DEF DeleteKey
  <2>3. IsCommand(c) /\ c.step = "run" /\ c.panel = ""
    BY DEF IsCommand, Idle
  <2> HIDE DEF c
  <2>4. StopOK'
    BY <1>3, <2>1, <2>2, <2>3, StartRemembers DEF worldVars
  <2> QED
    BY <1>2, <2>1, <2>4
<1>7. CASE Move
  BY <1>2, <1>3, <1>7 DEF Move, worldVars
<1>8. CASE Elsewhere
  <2>1. UNCHANGED <<viewVars, cmds>>
    BY <1>8 DEF Elsewhere
  <2>2. ASSUME NEW s, Change("config", s), told' = [Quiet EXCEPT !.over = TRUE]
        PROVE  StopOK' /\ KnownOK'
    <3>1. /\ told' \in [stopped : BOOLEAN, stale : BOOLEAN, over : BOOLEAN]
          /\ told'.over /\ ~told'.stopped
      BY <2>2 DEF Quiet
    <3>2. \A j \in 1..MaxKeys : Place(j)'
      BY <1>1, <2>1 DEF StopOK, Place
    <3> QED
      BY <1>1, <2>1, <2>2, <3>1, <3>2, KnownChanges DEF StopOK, SeenStopRemembered
  <2>3. ASSUME NEW d, Change("models", d), UNCHANGED told
        PROVE  StopOK' /\ KnownOK'
    <3>1. changed' = [changed EXCEPT !["models"] = clock + 1] /\ startup' = startup /\ clock' = clock + 1
      BY <2>3 DEF Change
    <3>2. changed'["config"] = changed["config"] /\ DOMAIN changed' = DOMAIN changed
      BY <1>1, <3>1 DEF KnownOK, Fields
    <3> QED
      BY <1>1, <1>3, <2>1, <2>3, <3>1, <3>2, KnownKeeps DEF viewVars
  <2>4. ASSUME clock' = clock + 1, UNCHANGED <<startup, changed, told>>
        PROVE  StopOK' /\ KnownOK'
    BY <1>1, <1>3, <2>1, <2>4, KnownStays DEF viewVars
  <2> QED
    BY <1>8, <2>2, <2>3, <2>4 DEF Elsewhere
<1> QED
  BY <1>4, <1>5, <1>6, <1>7, <1>8

LEMMA PollRemembers ==
    ASSUME RInv, NEW p \in 1..Len(polls), PollStep(p)
    PROVE  StopOK' /\ KnownOK'
<1>1. UNCHANGED <<startup, cmds, told>>
  BY DEF PollStep, PollResult, FetchOK, FetchFails, Fetched, worldVars
<1> QED
  BY <1>1, OtherMoves, KnownPoll DEF RInv

LEMMA RInvStep ==
    ASSUME RInv, [Next]_vars
    PROVE  RInv'
<1>1. VInv'
  BY VInvStep DEF RInv
<1>2. CASE UNCHANGED vars
  <2>1. StopOK'
    BY <1>2, OtherMoves DEF RInv, vars, worldVars
  <2>2. KnownOK'
    BY <1>2, KnownStays DEF RInv, VInv, vars, worldVars, viewVars
  <2> QED
    BY <1>1, <2>1, <2>2 DEF RInv
<1>3. CASE Next
  <2>1. StopOK' /\ KnownOK'
    BY <1>3, OtherRemembers, PollRemembers, CommandRemembers, AutostartRemembers DEF Next
  <2> QED
    BY <1>1, <2>1 DEF RInv
<1> QED
  BY <1>2, <1>3

\* What is shown of config.yaml is what is in it, unless it has changed since, and
\* a gateway command that took it so, alone, leaves what its user asked for.
THEOREM RememberInductive == Spec => []RInv
<1>1. Init => KnownOK /\ StopOK
  <2> SUFFICES ASSUME Init PROVE KnownOK /\ StopOK
    OBVIOUS
  <2>1. KnownOK
    <3>1. /\ changed["config"] = 0 /\ DOMAIN changed = Fields /\ clock = 0
          /\ snapshot["config"].at = -1
      BY DEF Init, None, Fields
    <3>2. \A p \in 1..Len(polls) : polls[p].got["config"].at = -1
      BY DEF Init, NewPoll, None, Fields
    <3> QED
      BY <3>1, <3>2 DEF KnownOK, Known
  <2>2. StopOK
    <3>1. \A i \in 1..MaxKeys : cmds[i] = Idle
      <4>1. \A i \in 1..MaxKeys : i \in 0..MaxKeys /\ i # 0
        BY DashboardAssumption DEF DashboardAssumption
      <4> QED
        BY <4>1 DEF Init
    <3>2. Idle.panel = "" /\ Idle.step = "none"
      BY DEF Idle
    <3>3. \A i \in 1..MaxKeys : Place(i) /\ ~Past(i)
      BY <3>1, <3>2 DEF Place, Past
    <3>4. told \in [stopped : BOOLEAN, stale : BOOLEAN, over : BOOLEAN] /\ ~told.stopped
      BY DEF Init, Quiet
    <3> QED
      BY <3>3, <3>4 DEF StopOK, SeenStopRemembered
  <2> QED
    BY <2>1, <2>2
<1>2. RInv /\ [Next]_vars => RInv'
  BY RInvStep
<1>3. VInv /\ KnownOK /\ StopOK => RInv
  BY DEF RInv
<1>4. Init => VInv
  BY VInvInit
<1> QED
  BY <1>1, <1>2, <1>3, <1>4, PTL DEF Spec

\* An explicit Stop of the gateway is remembered in the startup services, when the
\* configuration shown was the file's and nothing else changed it meanwhile.
THEOREM SeenStopRememberedHolds == Spec => []SeenStopRemembered
<1>1. RInv => SeenStopRemembered
  BY DEF RInv, StopOK
<1> QED
  BY <1>1, RememberInductive, PTL

=================================================================================
