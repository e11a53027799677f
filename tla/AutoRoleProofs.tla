--------------------------- MODULE AutoRoleProofs ---------------------------
(***************************************************************************)
(* What AutoRole promises for any number of members, roles, goroutines,    *)
(* API requests and failures.                                              *)
(***************************************************************************)
EXTENDS AutoRole, Integers, FiniteSetTheorems, TLAPS

Args == [user : Users \cup {None}, role : Roles \cup {None},
         trigger : Triggers \cup {None}, todo : SUBSET Roles]

\* The locals a call needs.
Fits(l, a) ==
    /\ l \in Labels /\ a \in Args
    /\ l \in EventLabels => <<a.user, a.trigger>> \in Pairs
    /\ l \in CommandLabels => <<a.role, a.trigger>> \in Rows
    /\ l = "assign" => a.todo # {}

ThreadTypes ==
    /\ pc \in [Handlers -> Labels] /\ arg \in [Handlers -> Args]
    /\ \A t \in Handlers : Fits(pc[t], arg[t])

TableTypes ==
    /\ roles \subseteq Rows /\ fired \subseteq Pairs /\ given \subseteq Pairs
    /\ rounds \in [Pairs -> Nat] /\ off \subseteq Requests /\ faults \in Nat
    /\ req \in [Requests -> {"idle", "enable", "disable", "wipeRoles", "wipeTriggers"}]

Switches == enabled \in BOOLEAN /\ clean \in BOOLEAN

LEMMA Parts == TypeOK <=> ThreadTypes /\ TableTypes /\ Switches
BY DEF TypeOK, ThreadTypes, TableTypes, Switches, Fits, Args, Pair, Row

LEMMA PartsNext == ThreadTypes' /\ TableTypes' /\ Switches' => TypeOK'
BY DEF TypeOK, ThreadTypes, TableTypes, Switches, Fits, Args, Pair, Row

-----------------------------------------------------------------------------
(* Types.                                                                  *)

LEMMA BlankFits == Blank \in Args /\ Fits("idle", Blank)
BY DEF Blank, Args, Fits, Labels, EventLabels, CommandLabels

LEMMA InitTypes == Init => TypeOK
<1>. SUFFICES ASSUME Init PROVE TypeOK
  OBVIOUS
<1>1. ThreadTypes
  BY BlankFits DEF Init, ThreadTypes, Labels
<1>2. TableTypes
  BY DEF Init, TableTypes
<1>3. Switches
  BY DEF Init, Switches
<1>. QED  BY <1>1, <1>2, <1>3, Parts

\* Each step of a goroutine is one label and one set of locals.
Moves(t, l, a) ==
    /\ pc' = [pc EXCEPT ![t] = l]
    /\ arg' = [arg EXCEPT ![t] = a]

LEMMA MovesTypes ==
    ASSUME ThreadTypes, NEW t \in Handlers, NEW l, NEW a, Fits(l, a), Moves(t, l, a)
    PROVE  ThreadTypes'
<1>1. l \in Labels /\ a \in Args
  BY DEF Fits
<1>2. pc' \in [Handlers -> Labels]
  BY <1>1 DEF Moves, ThreadTypes
<1>3. arg' \in [Handlers -> Args]
  BY <1>1 DEF Moves, ThreadTypes
<1>4. \A s \in Handlers : Fits(pc'[s], arg'[s])
  BY DEF Moves, ThreadTypes
<1>. QED  BY <1>2, <1>3, <1>4 DEF ThreadTypes

\* Where Goto leads, the locals fit: a call that needs a pair or a row comes
\* after one that needs it.
LEMMA GotoMoves ==
    ASSUME ThreadTypes, NEW t \in Handlers, NEW l \in Labels, Goto(t, l),
           \/ l = "idle"
           \/ pc[t] \in EventLabels /\ l \in EventLabels \ {"assign"}
           \/ pc[t] \in CommandLabels /\ l \in CommandLabels
    PROVE  ThreadTypes' /\ \E a \in Args : Fits(l, a) /\ Moves(t, l, a)
                             /\ (l = "idle" \/ a = arg[t])
<1>1. CASE l = "idle"
  <2>1. Moves(t, l, Blank)
    BY <1>1 DEF Goto, Moves
  <2>. QED  BY <1>1, <2>1, BlankFits, MovesTypes
<1>2. CASE l # "idle"
  <2>1. Moves(t, l, arg[t])
    BY <1>2 DEF Goto, Moves, ThreadTypes
  <2>2. Fits(pc[t], arg[t]) /\ arg[t] \in Args
    BY DEF ThreadTypes
  <2>3. Fits(l, arg[t])
    BY <1>2, <2>2 DEF Fits, EventLabels, CommandLabels
  <2>. QED  BY <2>1, <2>2, <2>3, MovesTypes
<1>. QED  BY <1>1, <1>2

LEMMA EventTypes ==
    ASSUME TypeOK, NEW t \in Handlers, NEW u \in Users, NEW trigger \in Triggers,
           Event(t, u, trigger)
    PROVE  TypeOK'
<1>. DEFINE l == IF trigger = Reaction THEN "member" ELSE "enabled"
            a == [Blank EXCEPT !.user = u, !.trigger = trigger]
<1>1. Fits(l, a)
  BY DEF Blank, Args, Fits, Labels, EventLabels, CommandLabels, Pairs
<1>2. Moves(t, l, a)
  BY DEF Event, Moves
<1>3. ThreadTypes'
  <2>. HIDE DEF l, a
  <2>. QED  BY <1>1, <1>2, MovesTypes, Parts
<1>4. TableTypes' /\ Switches'
  BY Parts DEF Event, TableTypes, Switches, db, history
<1>. QED  BY <1>3, <1>4, PartsNext

LEMMA CommandTypes ==
    ASSUME TypeOK, NEW t \in Handlers, NEW l, NEW r \in Roles, NEW trigger \in Triggers,
           Command(t, l, r, trigger)
    PROVE  TypeOK'
<1>. DEFINE a == [Blank EXCEPT !.role = r, !.trigger = trigger]
<1>1. Fits(l, a)
  BY DEF Command, Blank, Args, Fits, Labels, EventLabels, CommandLabels, Rows
<1>2. Moves(t, l, a)
  BY DEF Command, Moves
<1>3. ThreadTypes'
  <2>. HIDE DEF a
  <2>. QED  BY <1>1, <1>2, MovesTypes, Parts
<1>4. TableTypes' /\ Switches'
  BY Parts DEF Command, TableTypes, Switches, db, history
<1>. QED  BY <1>3, <1>4, PartsNext

LEMMA FaultTypes ==
    ASSUME TableTypes, Fault \/ NoFault
    PROVE  faults' \in Nat
BY DEF TableTypes, Fault, NoFault

\* The goroutines whose step is a Goto.
LEMMA HandleGoto ==
    ASSUME TypeOK, NEW t \in Handlers, Handle(t), ~ListRoles(t), ~AssignRole(t)
    PROVE  \E l \in Labels :
               /\ Goto(t, l)
               /\ \/ l = "idle"
                  \/ pc[t] \in EventLabels /\ l \in EventLabels \ {"assign"}
                  \/ pc[t] \in CommandLabels /\ l \in CommandLabels
<1>1. {"idle", "enabled", "triggered", "list", "addExists", "addCreate", "removeRow"}
          \subseteq Labels
  BY DEF Labels
<1>2. CASE FetchMember(t)
  BY <1>1, <1>2 DEF FetchMember, EventLabels
<1>3. CASE CheckEnabled(t)
  BY <1>1, <1>3 DEF CheckEnabled, EventLabels
<1>4. CASE CheckTriggered(t)
  BY <1>1, <1>4 DEF CheckTriggered, EventLabels
<1>5. CASE RecordTrigger(t)
  BY <1>1, <1>5 DEF RecordTrigger
<1>6. CASE CheckCommand(t)
  <2>1. CASE Goto(t, "idle")
    BY <1>1, <2>1
  <2>2. CASE Goto(t, IF pc[t] = "addEnabled" THEN "addExists" ELSE "removeRow")
    <3>1. pc[t] \in CommandLabels
      BY <1>6 DEF CheckCommand, CommandLabels
    <3>2. {"addExists", "removeRow"} \subseteq CommandLabels
      BY DEF CommandLabels
    <3>. QED  BY <1>1, <2>2, <3>1, <3>2
  <2>. QED  BY <1>6, <2>1, <2>2 DEF CheckCommand
<1>7. CASE AddExists(t)
  BY <1>1, <1>7 DEF AddExists, CommandLabels
<1>8. CASE AddCreate(t) \/ RemoveRow(t)
  BY <1>1, <1>8 DEF AddCreate, RemoveRow
<1>. QED  BY <1>2, <1>3, <1>4, <1>5, <1>6, <1>7, <1>8 DEF Handle

\* What a goroutine writes.
LEMMA HandleTables ==
    ASSUME TypeOK, NEW t \in Handlers, Handle(t)
    PROVE  TableTypes' /\ Switches'
<1>1. TableTypes /\ ThreadTypes /\ Switches /\ Fits(pc[t], arg[t])
  BY Parts DEF ThreadTypes
<1>2. UNCHANGED <<enabled, req, off, clean>>
  BY DEF Handle, FetchMember, CheckEnabled, CheckTriggered, ListRoles, AssignRole,
         RecordTrigger, CheckCommand, AddExists, AddCreate, RemoveRow, db, history
<1>3. faults' \in Nat
  BY <1>1, FaultTypes
  DEF Handle, FetchMember, CheckEnabled, CheckTriggered, ListRoles, AssignRole,
      RecordTrigger, CheckCommand, AddExists, AddCreate, RemoveRow
<1>4. roles' \subseteq Rows
  <2>1. CASE UNCHANGED roles
    BY <1>1, <2>1 DEF TableTypes
  <2>2. CASE AddCreate(t) \/ RemoveRow(t)
    <3>1. Row(t) \in Rows
      BY <1>1, <2>2 DEF AddCreate, RemoveRow, Fits, CommandLabels, Row
    <3>. QED  BY <1>1, <2>2, <3>1 DEF AddCreate, RemoveRow, TableTypes
  <2>. QED  BY <2>1, <2>2 DEF Handle, FetchMember, CheckEnabled, CheckTriggered,
            ListRoles, AssignRole, RecordTrigger, CheckCommand, AddExists, db
<1>5. pc[t] \in EventLabels => Pair(t) \in Pairs
  BY <1>1 DEF Fits, Pair
<1>6. fired' \subseteq Pairs
  <2>1. CASE UNCHANGED fired
    BY <1>1, <2>1 DEF TableTypes
  <2>2. CASE RecordTrigger(t)
    BY <1>1, <1>5, <2>2 DEF RecordTrigger, EventLabels, TableTypes
  <2>. QED  BY <2>1, <2>2 DEF Handle, FetchMember, CheckEnabled, CheckTriggered,
            ListRoles, AssignRole, AddCreate, RemoveRow, CheckCommand, AddExists, db
<1>7. given' \subseteq Pairs
  <2>1. CASE UNCHANGED given
    BY <1>1, <2>1 DEF TableTypes
  <2>2. CASE AssignRole(t)
    BY <1>1, <1>5, <2>2 DEF AssignRole, EventLabels, TableTypes
  <2>. QED  BY <2>1, <2>2 DEF Handle, FetchMember, CheckEnabled, CheckTriggered,
            ListRoles, RecordTrigger, AddCreate, RemoveRow, CheckCommand, AddExists, history
<1>8. rounds' \in [Pairs -> Nat]
  <2>1. CASE UNCHANGED rounds
    BY <1>1, <2>1 DEF TableTypes
  <2>2. CASE ListRoles(t)
    BY <1>1, <1>5, <2>2 DEF ListRoles, EventLabels, TableTypes
  <2>. QED  BY <2>1, <2>2 DEF Handle, FetchMember, CheckEnabled, CheckTriggered,
            AssignRole, RecordTrigger, AddCreate, RemoveRow, CheckCommand, AddExists, history
<1>9. TableTypes'
  BY <1>1, <1>2, <1>3, <1>4, <1>6, <1>7, <1>8 DEF TableTypes
<1>10. Switches'
  BY <1>1, <1>2 DEF Switches
<1>. QED  BY <1>9, <1>10

LEMMA ListMoves ==
    ASSUME ThreadTypes, NEW t \in Handlers, ListRoles(t)
    PROVE  \E l \in {"assign", "idle"}, a \in Args :
               /\ Fits(l, a) /\ Moves(t, l, a)
               /\ l = "assign" => <<a.user, a.trigger>> = Pair(t)
<1>1. pc[t] = "list" /\ arg[t] \in Args /\ Fits(pc[t], arg[t])
  BY DEF ListRoles, ThreadTypes
<1>2. CASE Goto(t, "idle")
  <2>1. Moves(t, "idle", Blank)
    BY <1>2 DEF Goto, Moves
  <2>. QED  BY <2>1, BlankFits
<1>3. CASE /\ Configured(arg[t].trigger) # {}
           /\ pc' = [pc EXCEPT ![t] = "assign"]
           /\ arg' = [arg EXCEPT ![t].todo = Configured(arg[t].trigger)]
  <2>. DEFINE a == [arg[t] EXCEPT !.todo = Configured(arg[t].trigger)]
  <2>1. Moves(t, "assign", a)
    BY <1>3 DEF Moves, ThreadTypes
  <2>2. /\ a \in Args /\ a.user = arg[t].user /\ a.trigger = arg[t].trigger
        /\ a.role = arg[t].role /\ a.todo # {}
    BY <1>1, <1>3 DEF Args, Configured
  <2>3. <<arg[t].user, arg[t].trigger>> \in Pairs
    BY <1>1 DEF Fits, EventLabels
  <2>4. Fits("assign", a)
    <3>. HIDE DEF a
    <3>. QED  BY <2>2, <2>3 DEF Fits, Labels, EventLabels, CommandLabels
  <2>. HIDE DEF a
  <2>. QED  BY <2>1, <2>2, <2>4 DEF Pair
<1>. QED  BY <1>2, <1>3 DEF ListRoles

LEMMA AssignMoves ==
    ASSUME ThreadTypes, NEW t \in Handlers, AssignRole(t)
    PROVE  \E l \in {"assign", "record"}, a \in Args :
               /\ Fits(l, a) /\ Moves(t, l, a)
               /\ <<a.user, a.trigger>> = Pair(t)
<1>1. pc[t] = "assign" /\ arg[t] \in Args /\ Fits(pc[t], arg[t])
  BY DEF AssignRole, ThreadTypes
<1>2. PICK r \in arg[t].todo :
          /\ arg' = [arg EXCEPT ![t].todo = @ \ {r}]
          /\ pc' = [pc EXCEPT ![t] = IF arg[t].todo = {r} THEN "record" ELSE "assign"]
  BY DEF AssignRole
<1>. DEFINE a == [arg[t] EXCEPT !.todo = @ \ {r}]
            l == IF arg[t].todo = {r} THEN "record" ELSE "assign"
<1>3. Moves(t, l, a)
  BY <1>2 DEF Moves, ThreadTypes
<1>4. /\ a \in Args /\ a.user = arg[t].user /\ a.trigger = arg[t].trigger
      /\ l = "assign" => a.todo # {}
  BY <1>1, <1>2 DEF Args
<1>5. <<arg[t].user, arg[t].trigger>> \in Pairs
  BY <1>1 DEF Fits, EventLabels
<1>6. l \in {"assign", "record"}
  OBVIOUS
<1>7. Fits(l, a)
  <2>. HIDE DEF a, l
  <2>. QED  BY <1>4, <1>5, <1>6 DEF Fits, Labels, EventLabels, CommandLabels
<1>. HIDE DEF a, l
<1>. QED  BY <1>3, <1>4, <1>6, <1>7 DEF Pair

LEMMA HandleTypes ==
    ASSUME TypeOK, NEW t \in Handlers, Handle(t)
    PROVE  TypeOK'
<1>1. ThreadTypes
  BY Parts
<1>2. ThreadTypes'
  <2>1. CASE ListRoles(t)
    BY <1>1, <2>1, ListMoves, MovesTypes
  <2>2. CASE AssignRole(t)
    BY <1>1, <2>2, AssignMoves, MovesTypes
  <2>3. CASE ~ListRoles(t) /\ ~AssignRole(t)
    BY <1>1, <2>3, HandleGoto, GotoMoves
  <2>. QED  BY <2>1, <2>2, <2>3
<1>. QED  BY <1>2, HandleTables, PartsNext

LEMMA ServeTypes ==
    ASSUME TypeOK, NEW q \in Requests,
           Serve(q) \/ \E l \in {"enable", "disable"} : Patch(q, l)
    PROVE  TypeOK'
<1>1. TableTypes /\ ThreadTypes /\ Switches
  BY Parts
<1>2. UNCHANGED <<pc, arg, given>>
  BY DEF Serve, Enable, Disable, WipeRoles, WipeTriggers, Patch, threads, history
<1>3. faults' \in Nat
  <2>1. Fault \/ NoFault
    BY DEF Serve, Enable, Disable, WipeRoles, WipeTriggers, Patch, Applied, NoFault
  <2>. QED  BY <1>1, <2>1, FaultTypes DEF TableTypes
<1>4. \E l \in {"idle", "enable", "disable", "wipeRoles", "wipeTriggers"} :
          req' = [req EXCEPT ![q] = l]
  BY DEF Serve, Enable, Disable, WipeRoles, WipeTriggers, Patch, Answer
<1>5. req' \in [Requests -> {"idle", "enable", "disable", "wipeRoles", "wipeTriggers"}]
  BY <1>1, <1>4 DEF TableTypes
<1>6. roles' \subseteq Rows /\ fired' \subseteq Pairs /\ off' \subseteq Requests
  BY <1>1 DEF Serve, Enable, Disable, WipeRoles, WipeTriggers, Patch, TableTypes, db, history
<1>7. rounds' \in [Pairs -> Nat]
  <2>1. rounds' = rounds \/ rounds' = [p \in Pairs |-> 0]
    BY DEF Serve, Enable, Disable, WipeRoles, WipeTriggers, Patch, history
  <2>. QED  BY <1>1, <2>1 DEF TableTypes
<1>8. TableTypes'
  BY <1>1, <1>2, <1>3, <1>5, <1>6, <1>7 DEF TableTypes
<1>9. Switches'
  <2>1. enabled' \in {enabled, TRUE, FALSE}
    BY DEF Serve, Enable, Disable, WipeRoles, WipeTriggers, Patch, db
  <2>2. clean' \in {clean, FALSE, clean \/ q \in off}
    BY DEF Serve, Enable, Disable, WipeRoles, WipeTriggers, Patch, history
  <2>. QED  BY <1>1, <2>1, <2>2 DEF Switches
<1>10. ThreadTypes'
  BY <1>1, <1>2 DEF ThreadTypes
<1>. QED  BY <1>8, <1>9, <1>10, PartsNext

LEMMA CrashTypes == ASSUME TypeOK, Crash PROVE TypeOK'
<1>1. ThreadTypes'
  BY BlankFits DEF Crash, ThreadTypes, Labels
<1>2. TableTypes' /\ Switches'
  BY Parts DEF Crash, Fault, TableTypes, Switches, db, history
<1>. QED  BY <1>1, <1>2, PartsNext

LEMMA NextTypes == TypeOK /\ [Next]_vars => TypeOK'
<1>. SUFFICES ASSUME TypeOK, [Next]_vars PROVE TypeOK'
  OBVIOUS
<1>1. CASE UNCHANGED vars
  BY <1>1 DEF TypeOK, vars, db, threads, history, Pair, Row
<1>. QED  BY <1>1, EventTypes, CommandTypes, HandleTypes, ServeTypes, CrashTypes DEF Next

\* The types, and that a call finds the locals it reads.
THEOREM TypeCorrect == Spec => []TypeOK
BY InitTypes, NextTypes, PTL DEF Spec

-----------------------------------------------------------------------------
(* A recorded trigger.                                                     *)

\* Without a failure, a goroutine that comes to write the row has assigned a
\* role.
ServedFirst == faults = 0 =>
    /\ fired \subseteq given
    /\ \A t \in Handlers : pc[t] = "record" => Pair(t) \in given

LEMMA NextServed == TypeOK /\ ServedFirst /\ [Next]_vars => ServedFirst'
<1>. SUFFICES ASSUME TypeOK, ServedFirst, [Next]_vars, faults' = 0 PROVE ServedFirst'
  BY DEF ServedFirst
<1>0. faults \in Nat /\ ~Fault
  BY DEF TypeOK, Fault
<1>1. ThreadTypes /\ TableTypes
  BY Parts
<1>2. ASSUME NEW t \in Handlers, NEW l \in Labels \ {"record"}, NEW a, Moves(t, l, a),
             NoFault, given \subseteq given', fired' \subseteq fired
      PROVE  ServedFirst'
  <2>1. fired \subseteq given /\ \A s \in Handlers : pc[s] = "record" => Pair(s) \in given
    BY <1>2 DEF ServedFirst, NoFault
  <2>2. \A s \in Handlers : pc'[s] = "record" => pc[s] = "record" /\ arg'[s] = arg[s]
    BY <1>1, <1>2 DEF Moves, ThreadTypes
  <2>. QED  BY <1>2, <2>1, <2>2 DEF ServedFirst, Pair
<1>3. ASSUME UNCHANGED <<pc, arg, given>>, NoFault, fired' \subseteq fired
      PROVE  ServedFirst'
  BY <1>3 DEF ServedFirst, NoFault, Pair
<1>4. ASSUME NEW t \in Handlers, NEW u \in Users, NEW trigger \in Triggers,
             Event(t, u, trigger)
      PROVE  ServedFirst'
  BY <1>2, <1>4 DEF Event, Moves, Labels, NoFault, db, history
<1>5. ASSUME NEW t \in Handlers, NEW l \in Labels, NEW r \in Roles,
             NEW trigger \in Triggers, Command(t, l, r, trigger)
      PROVE  ServedFirst'
  BY <1>2, <1>5 DEF Command, Moves, Labels, NoFault, db, history
<1>6. ASSUME NEW t \in Handlers, Handle(t)
      PROVE  ServedFirst'
  <2>0. NoFault
    BY <1>0, <1>6 DEF Handle, FetchMember, CheckEnabled, CheckTriggered, ListRoles,
        AssignRole, RecordTrigger, CheckCommand, AddExists, AddCreate, RemoveRow
  <2>1. CASE ListRoles(t)
    <3>1. \E l \in {"assign", "idle"}, a \in Args : Moves(t, l, a)
      BY <1>1, <2>1, ListMoves
    <3>2. UNCHANGED <<given, fired>> /\ {"assign", "idle"} \subseteq Labels \ {"record"}
      BY <2>1 DEF ListRoles, db, Labels
    <3>. QED  BY <1>2, <2>0, <3>1, <3>2
  <2>2. CASE AssignRole(t)
    <3>1. PICK l \in {"assign", "record"}, a \in Args :
              Moves(t, l, a) /\ <<a.user, a.trigger>> = Pair(t)
      BY <1>1, <2>2, AssignMoves
    <3>2. given' = given \cup {Pair(t)} /\ fired' = fired
      BY <1>0, <2>2 DEF AssignRole, db
    <3>3. fired \subseteq given /\ \A s \in Handlers : pc[s] = "record" => Pair(s) \in given
      BY <2>0 DEF ServedFirst, NoFault
    <3>4. \A s \in Handlers : pc'[s] = "record" => Pair(s)' \in given'
      <4>1. Pair(t)' = Pair(t)
        BY <1>1, <3>1 DEF Moves, ThreadTypes, Pair
      <4>2. \A s \in Handlers : s # t => pc'[s] = pc[s] /\ Pair(s)' = Pair(s)
        BY <1>1, <3>1 DEF Moves, ThreadTypes, Pair
      <4>. QED  BY <3>2, <3>3, <4>1, <4>2
    <3>. QED  BY <3>2, <3>3, <3>4 DEF ServedFirst
  <2>3. CASE RecordTrigger(t)
    <3>1. pc[t] = "record" /\ fired' = fired \cup {Pair(t)} /\ given' = given
      BY <1>0, <2>3 DEF RecordTrigger, history
    <3>2. pc' = [pc EXCEPT ![t] = "idle"] /\ arg' = [arg EXCEPT ![t] = Blank]
      BY <2>3 DEF RecordTrigger, Goto
    <3>3. fired \subseteq given /\ \A s \in Handlers : pc[s] = "record" => Pair(s) \in given
      BY <2>0 DEF ServedFirst, NoFault
    <3>4. \A s \in Handlers : pc'[s] = "record" => pc[s] = "record" /\ arg'[s] = arg[s]
      BY <1>1, <3>2 DEF ThreadTypes
    <3>. QED  BY <3>1, <3>3, <3>4 DEF ServedFirst, Pair
  <2>4. CASE ~ListRoles(t) /\ ~AssignRole(t) /\ ~RecordTrigger(t)
    <3>1. PICK l \in Labels :
              /\ Goto(t, l)
              /\ \/ l = "idle"
                 \/ pc[t] \in EventLabels /\ l \in EventLabels \ {"assign"}
                 \/ pc[t] \in CommandLabels /\ l \in CommandLabels
      BY <1>6, <2>4, HandleGoto
    <3>2. \E a \in Args : Moves(t, l, a)
      BY <1>1, <3>1, GotoMoves
    <3>3. l # "record"
      <4>1. pc'[t] = l
        BY <1>1, <3>1 DEF Goto, ThreadTypes
      <4>2. pc'[t] # "record"
        BY <1>1, <1>6, <2>4 DEF Handle, FetchMember, CheckEnabled, CheckTriggered,
            CheckCommand, AddExists, AddCreate, RemoveRow, Goto, ThreadTypes
      <4>. QED  BY <4>1, <4>2
    <3>4. UNCHANGED <<given, fired>>
      BY <1>6, <2>4 DEF Handle, FetchMember, CheckEnabled, CheckTriggered,
            CheckCommand, AddExists, AddCreate, RemoveRow, db, history
    <3>. QED  BY <1>2, <2>0, <3>2, <3>3, <3>4
  <2>. QED  BY <2>1, <2>2, <2>3, <2>4
<1>7. ASSUME NEW q \in Requests, Serve(q) \/ \E l \in {"enable", "disable"} : Patch(q, l)
      PROVE  ServedFirst'
  <2>1. UNCHANGED <<pc, arg, given>> /\ NoFault
    BY <1>0, <1>7 DEF Serve, Enable, Disable, WipeRoles, WipeTriggers, Patch, threads,
        history, NoFault, Applied
  <2>2. fired' \subseteq fired
    BY <1>7 DEF Serve, Enable, Disable, WipeRoles, WipeTriggers, Patch, db
  <2>. QED  BY <1>3, <2>1, <2>2
<1>8. ~Crash
  BY <1>0 DEF Crash
<1>9. CASE UNCHANGED vars
  BY <1>3, <1>9 DEF vars, db, threads, history, NoFault
<1>. QED  BY <1>4, <1>5, <1>6, <1>7, <1>8, <1>9 DEF Next

\* The row that keeps a member from ever getting a trigger's roles again is not
\* written for nothing, however handlers, commands and the switch interleave.
THEOREM FiredCorrect == Spec => []FiredWasServed
<1>1. Init => ServedFirst
  BY DEF Init, ServedFirst
<1>2. ServedFirst => FiredWasServed
  BY DEF ServedFirst, FiredWasServed
<1>. QED  BY <1>1, <1>2, NextServed, TypeCorrect, PTL DEF Spec

-----------------------------------------------------------------------------
(* Rounds.                                                                 *)

\* Goroutines that assign roles for a pair, and those that have seen it
\* unrecorded and will.
Assigning(p) == {t \in Handlers : pc[t] \in {"assign", "record"} /\ Pair(t) = p}
Listing(p)   == {t \in Handlers : pc[t] = "list" /\ Pair(t) = p}

H == Cardinality(Handlers)

\* While there is no row, a round has come to its end without one only through
\* a failure, which ends those of all goroutines at most.  Once there is a row,
\* those that had not seen it may still come.
RoundsCounted == \A p \in Pairs :
    /\ p \notin fired => rounds[p] <= Cardinality(Assigning(p)) + H * faults
    /\ p \in fired => rounds[p] + Cardinality(Listing(p)) <= H * faults + H

LEMMA TwoParts ==
    ASSUME NEW A, NEW B, A \subseteq Handlers, B \subseteq Handlers, A \cap B = {}
    PROVE  /\ IsFiniteSet(A) /\ IsFiniteSet(B)
           /\ Cardinality(A) \in Nat /\ Cardinality(B) \in Nat
           /\ H \in Nat /\ Cardinality(A) + Cardinality(B) <= H
<1>1. IsFiniteSet(A) /\ IsFiniteSet(B) /\ A \cup B \subseteq Handlers
  BY FiniteAssumption, FS_Subset
<1>2. Cardinality(A) \in Nat /\ Cardinality(B) \in Nat /\ H \in Nat
  BY <1>1, FiniteAssumption, FS_CardinalityType DEF H
<1>3. Cardinality(A \cup B) = Cardinality(A) + Cardinality(B) - Cardinality(A \cap B)
  BY <1>1, FS_Union
<1>4. Cardinality(A \cap B) = 0
  BY FS_EmptySet
<1>5. Cardinality(A \cup B) <= H
  BY <1>1, FiniteAssumption, FS_Subset DEF H
<1>. QED  BY <1>1, <1>2, <1>3, <1>4, <1>5

LEMMA Sizes ==
    ASSUME NEW p
    PROVE  /\ IsFiniteSet(Assigning(p)) /\ IsFiniteSet(Listing(p))
           /\ Cardinality(Assigning(p)) \in Nat /\ Cardinality(Listing(p)) \in Nat
           /\ H \in Nat /\ Cardinality(Assigning(p)) + Cardinality(Listing(p)) <= H
<1>1. /\ Assigning(p) \subseteq Handlers /\ Listing(p) \subseteq Handlers
      /\ Assigning(p) \cap Listing(p) = {}
  BY DEF Assigning, Listing
<1>. QED  BY <1>1, TwoParts

LEMMA SizesNext ==
    ASSUME NEW p
    PROVE  /\ Cardinality(Assigning(p)') \in Nat /\ Cardinality(Listing(p)') \in Nat
           /\ Cardinality(Assigning(p)') + Cardinality(Listing(p)') <= H
<1>1. /\ Assigning(p)' \subseteq Handlers /\ Listing(p)' \subseteq Handlers
      /\ Assigning(p)' \cap Listing(p)' = {}
  BY DEF Assigning, Listing
<1>. QED  BY <1>1, TwoParts

LEMMA OneMore ==
    ASSUME NEW f \in Nat
    PROVE  H * f \in Nat /\ H * (f + 1) = H * f + H /\ H \in Nat
BY FiniteAssumption, FS_CardinalityType DEF H

\* A failure pays for whatever its step does to the goroutines.
LEMMA FaultRounds ==
    ASSUME TypeOK, RoundsCounted, Fault, rounds' = rounds, fired \subseteq fired'
    PROVE  RoundsCounted'
<1>. SUFFICES ASSUME NEW p \in Pairs
              PROVE  /\ p \notin fired' => rounds[p] <= Cardinality(Assigning(p)') + H * faults'
                     /\ p \in fired' => rounds[p] + Cardinality(Listing(p)') <= H * faults' + H
  BY DEF RoundsCounted, H
<1>1. faults \in Nat /\ faults' = faults + 1 /\ rounds[p] \in Nat
  BY DEF TypeOK, Fault
<1>2. H * faults \in Nat /\ H \in Nat /\ H * faults' = H * faults + H
  BY <1>1, OneMore
<1>3. rounds[p] <= H * faults + H
  BY <1>1, <1>2, Sizes DEF RoundsCounted
<1>. QED  BY <1>1, <1>2, <1>3, SizesNext

\* A step of one goroutine leaves the others where they are.
LEMMA OthersStay ==
    ASSUME ThreadTypes, NEW t \in Handlers, NEW l, NEW a, Moves(t, l, a), NEW p
    PROVE  /\ Assigning(p)' =
                  IF l \in {"assign", "record"} /\ <<a.user, a.trigger>> = p
                  THEN Assigning(p) \cup {t} ELSE Assigning(p) \ {t}
           /\ Listing(p)' =
                  IF l = "list" /\ <<a.user, a.trigger>> = p
                  THEN Listing(p) \cup {t} ELSE Listing(p) \ {t}
<1>1. \A s \in Handlers : /\ pc'[s] = IF s = t THEN l ELSE pc[s]
                          /\ arg'[s] = IF s = t THEN a ELSE arg[s]
  BY DEF Moves, ThreadTypes
<1>2. Pair(t)' = <<a.user, a.trigger>> /\ pc'[t] = l
  BY <1>1 DEF Pair
<1>3. \A s \in Handlers : s # t => Pair(s)' = Pair(s) /\ pc'[s] = pc[s]
  BY <1>1 DEF Pair
<1>. QED  BY <1>2, <1>3 DEF Assigning, Listing

\* The goroutine is not assigning before or after the step, and does not begin
\* to list.
LEMMA AsideRounds ==
    ASSUME TypeOK, RoundsCounted, NoFault, UNCHANGED <<rounds, fired>>,
           NEW t \in Handlers, NEW l, NEW a, Moves(t, l, a),
           pc[t] \notin {"assign", "record"}, l \notin {"assign", "record", "list"}
    PROVE  RoundsCounted'
<1>. SUFFICES ASSUME NEW p \in Pairs
              PROVE  /\ p \notin fired => rounds[p] <= Cardinality(Assigning(p)') + H * faults
                     /\ p \in fired => rounds[p] + Cardinality(Listing(p)') <= H * faults + H
  BY DEF RoundsCounted, H, NoFault
<1>1. ThreadTypes /\ rounds[p] \in Nat /\ faults \in Nat
  BY Parts DEF TypeOK
<1>2. Assigning(p)' = Assigning(p) /\ Listing(p)' = Listing(p) \ {t}
  BY <1>1, OthersStay DEF Assigning
<1>3. Cardinality(Listing(p)') <= Cardinality(Listing(p))
  <2>1. Listing(p)' \subseteq Listing(p)
    BY <1>2
  <2>. QED  BY <2>1, Sizes, FS_Subset
<1>4. H * faults \in Nat /\ H \in Nat
  BY <1>1, OneMore
<1>5. /\ p \notin fired => rounds[p] <= Cardinality(Assigning(p)) + H * faults
      /\ p \in fired => rounds[p] + Cardinality(Listing(p)) <= H * faults + H
  BY DEF RoundsCounted
<1>6. Cardinality(Listing(p)) \in Nat /\ Cardinality(Listing(p)') \in Nat
  BY Sizes, SizesNext
<1>. QED  BY <1>1, <1>2, <1>3, <1>4, <1>5, <1>6

LEMMA TriggeredRounds ==
    ASSUME TypeOK, RoundsCounted, NoFault, NEW t \in Handlers, CheckTriggered(t)
    PROVE  RoundsCounted'
<1>1. pc[t] = "triggered" /\ UNCHANGED <<rounds, fired>> /\ ThreadTypes
  BY Parts DEF CheckTriggered, db, history
<1>2. Pair(t) \in Pairs
  BY <1>1 DEF TypeOK, EventLabels
<1>3. CASE Goto(t, "idle")
  <2>1. Moves(t, "idle", Blank)
    BY <1>3 DEF Goto, Moves
  <2>. QED  BY <1>1, <2>1, AsideRounds
<1>4. CASE Pair(t) \notin fired /\ Goto(t, "list")
  <2>0. Moves(t, "list", arg[t])
    BY <1>1, <1>4 DEF Goto, Moves, ThreadTypes
  <2>. SUFFICES ASSUME NEW p \in Pairs
                PROVE  /\ p \notin fired => rounds[p] <= Cardinality(Assigning(p)') + H * faults
                       /\ p \in fired => rounds[p] + Cardinality(Listing(p)') <= H * faults + H
    BY <1>1 DEF RoundsCounted, H, NoFault
  <2>1. Assigning(p)' = Assigning(p)
    BY <1>1, <2>0, OthersStay DEF Assigning
  <2>2. p \in fired => Listing(p)' = Listing(p)
    BY <1>1, <1>4, <2>0, OthersStay DEF Pair, Listing
  <2>. QED  BY <2>1, <2>2 DEF RoundsCounted
<1>5. CASE Fault
  BY <1>5 DEF NoFault, Fault, TypeOK
<1>. QED  BY <1>3, <1>4, <1>5 DEF CheckTriggered

LEMMA ListRounds ==
    ASSUME TypeOK, RoundsCounted, NoFault, NEW t \in Handlers, ListRoles(t)
    PROVE  RoundsCounted'
<1>1. pc[t] = "list" /\ fired' = fired /\ ThreadTypes /\ faults \in Nat /\ ~Fault
  BY Parts DEF ListRoles, db, TypeOK, NoFault, Fault
<1>2. Pair(t) \in Pairs
  BY <1>1 DEF TypeOK, EventLabels
<1>3. PICK l \in {"assign", "idle"}, a \in Args :
          Moves(t, l, a) /\ (l = "assign" => <<a.user, a.trigger>> = Pair(t))
  BY <1>1, ListMoves
<1>4. CASE l = "idle"
  <2>1. pc'[t] = "idle"
    BY <1>1, <1>3, <1>4 DEF Moves, ThreadTypes
  <2>2. rounds' = rounds
    BY <1>1, <2>1 DEF ListRoles, ThreadTypes
  <2>. QED  BY <1>1, <1>3, <1>4, <2>2, AsideRounds
<1>5. CASE l = "assign"
  <2>1. pc'[t] = "assign"
    BY <1>1, <1>3, <1>5 DEF Moves, ThreadTypes
  <2>2. rounds' = [rounds EXCEPT ![Pair(t)] = @ + 1]
    BY <1>1, <2>1 DEF ListRoles, Goto, ThreadTypes
  <2>. SUFFICES ASSUME NEW p \in Pairs
                PROVE  /\ p \notin fired => rounds'[p] <= Cardinality(Assigning(p)') + H * faults
                       /\ p \in fired => rounds'[p] + Cardinality(Listing(p)') <= H * faults + H
    BY <1>1 DEF RoundsCounted, H, NoFault
  <2>3. rounds \in [Pairs -> Nat] /\ H * faults \in Nat /\ H \in Nat
    BY <1>1, OneMore DEF TypeOK
  <2>4. CASE p = Pair(t)
    <3>1. t \notin Assigning(p) /\ Assigning(p)' = Assigning(p) \cup {t}
      BY <1>1, <1>3, <1>5, <2>4, OthersStay DEF Assigning
    <3>2. t \in Listing(p) /\ Listing(p)' = Listing(p) \ {t}
      BY <1>1, <1>3, <1>5, <2>4, OthersStay DEF Listing
    <3>3. Cardinality(Assigning(p)') = Cardinality(Assigning(p)) + 1
      BY <3>1, Sizes, FS_AddElement
    <3>4. Cardinality(Listing(p)') = Cardinality(Listing(p)) - 1
      BY <3>2, Sizes, FS_RemoveElement
    <3>5. rounds'[p] = rounds[p] + 1
      BY <1>2, <2>2, <2>3, <2>4
    <3>. QED  BY <2>3, <3>3, <3>4, <3>5, Sizes DEF RoundsCounted
  <2>5. CASE p # Pair(t)
    <3>1. Assigning(p)' = Assigning(p)
      BY <1>1, <1>3, <1>5, <2>5, OthersStay DEF Assigning
    <3>2. Listing(p)' = Listing(p)
      BY <1>1, <1>3, <1>5, <2>5, OthersStay DEF Listing
    <3>3. rounds'[p] = rounds[p]
      BY <2>2, <2>3, <2>5
    <3>. QED  BY <3>1, <3>2, <3>3 DEF RoundsCounted
  <2>. QED  BY <2>4, <2>5
<1>. QED  BY <1>3, <1>4, <1>5

LEMMA AssignRounds ==
    ASSUME TypeOK, RoundsCounted, NoFault, NEW t \in Handlers, AssignRole(t)
    PROVE  RoundsCounted'
<1>1. pc[t] = "assign" /\ UNCHANGED <<fired, rounds>> /\ ThreadTypes
  BY Parts DEF AssignRole, db
<1>2. PICK l \in {"assign", "record"}, a \in Args :
          Moves(t, l, a) /\ <<a.user, a.trigger>> = Pair(t)
  BY <1>1, AssignMoves
<1>3. \A p \in Pairs : Assigning(p)' = Assigning(p)
  <2>. SUFFICES ASSUME NEW p \in Pairs PROVE Assigning(p)' = Assigning(p)
    OBVIOUS
  <2>1. t \in Assigning(p) <=> Pair(t) = p
    BY <1>1 DEF Assigning
  <2>. QED  BY <1>1, <1>2, <2>1, OthersStay
<1>4. \A p \in Pairs : Listing(p)' = Listing(p)
  <2>. SUFFICES ASSUME NEW p \in Pairs PROVE Listing(p)' = Listing(p)
    OBVIOUS
  <2>1. t \notin Listing(p)
    BY <1>1 DEF Listing
  <2>. QED  BY <1>1, <1>2, <2>1, OthersStay
<1>. QED  BY <1>1, <1>3, <1>4 DEF RoundsCounted, H, NoFault

LEMMA RecordRounds ==
    ASSUME TypeOK, RoundsCounted, NoFault, NEW t \in Handlers, RecordTrigger(t)
    PROVE  RoundsCounted'
<1>1. /\ pc[t] = "record" /\ rounds' = rounds /\ ThreadTypes /\ faults \in Nat
      /\ fired' = fired \cup {Pair(t)}
  BY Parts DEF RecordTrigger, history, TypeOK, NoFault, Fault
<1>2. Moves(t, "idle", Blank)
  BY DEF RecordTrigger, Goto, Moves
<1>. SUFFICES ASSUME NEW p \in Pairs
              PROVE  /\ p \notin fired' => rounds[p] <= Cardinality(Assigning(p)') + H * faults
                     /\ p \in fired' => rounds[p] + Cardinality(Listing(p)') <= H * faults + H
  BY <1>1 DEF RoundsCounted, H, NoFault
<1>3. Listing(p)' = Listing(p)
  BY <1>1, <1>2, OthersStay DEF Listing
<1>4. p # Pair(t) => Assigning(p)' = Assigning(p)
  BY <1>1, <1>2, OthersStay DEF Assigning
<1>5. rounds[p] \in Nat /\ H * faults \in Nat /\ H \in Nat
  BY <1>1, OneMore DEF TypeOK
<1>6. rounds[p] + Cardinality(Listing(p)) <= H * faults + H
  BY <1>5, Sizes DEF RoundsCounted
<1>. QED  BY <1>1, <1>3, <1>4, <1>5, <1>6 DEF RoundsCounted

LEMMA HandleRounds ==
    ASSUME TypeOK, RoundsCounted, NEW t \in Handlers, Handle(t)
    PROVE  RoundsCounted'
<1>1. ThreadTypes /\ faults \in Nat
  BY Parts DEF TypeOK
<1>2. ASSUME Fault PROVE RoundsCounted'
  <2>1. ~NoFault
    BY <1>1, <1>2 DEF Fault, NoFault
  <2>2. rounds' = rounds
    BY <2>1 DEF Handle, FetchMember, CheckEnabled, CheckTriggered, ListRoles,
        AssignRole, RecordTrigger, CheckCommand, AddExists, AddCreate, RemoveRow, history
  <2>3. fired \subseteq fired'
    BY DEF Handle, FetchMember, CheckEnabled, CheckTriggered, ListRoles,
        AssignRole, RecordTrigger, CheckCommand, AddExists, AddCreate, RemoveRow, db
  <2>. QED  BY <1>2, <2>2, <2>3, FaultRounds
<1>3. CASE ListRoles(t) \/ AssignRole(t) \/ RecordTrigger(t) \/ CheckTriggered(t)
  <2>1. Fault \/ NoFault
    BY <1>3 DEF CheckTriggered, ListRoles, AssignRole, RecordTrigger
  <2>. QED  BY <1>2, <1>3, <2>1, ListRounds, AssignRounds, RecordRounds, TriggeredRounds
<1>4. CASE /\ ~ListRoles(t) /\ ~AssignRole(t) /\ ~RecordTrigger(t)
           /\ ~CheckTriggered(t)
  <2>1. \/ FetchMember(t) \/ CheckEnabled(t) \/ CheckCommand(t) \/ AddExists(t)
        \/ AddCreate(t) \/ RemoveRow(t)
    BY <1>4 DEF Handle
  <2>2. PICK l \in Labels :
            /\ Goto(t, l)
            /\ \/ l = "idle"
               \/ pc[t] \in EventLabels /\ l \in EventLabels \ {"assign"}
               \/ pc[t] \in CommandLabels /\ l \in CommandLabels
    BY <1>4, HandleGoto
  <2>3. PICK a \in Args : Moves(t, l, a)
    BY <1>1, <2>2, GotoMoves
  <2>4. pc[t] \notin {"assign", "record"}
    BY <2>1 DEF FetchMember, CheckEnabled, CheckCommand, AddExists, AddCreate, RemoveRow
  <2>5. pc'[t] = l /\ pc'[t] \notin {"assign", "record", "list"}
    BY <1>1, <2>1, <2>2 DEF FetchMember, CheckEnabled, CheckCommand, AddExists,
        AddCreate, RemoveRow, Goto, ThreadTypes
  <2>6. UNCHANGED <<rounds, fired>> /\ (Fault \/ NoFault)
    BY <2>1 DEF FetchMember, CheckEnabled, CheckCommand, AddExists, AddCreate,
        RemoveRow, db, history
  <2>. QED  BY <1>2, <2>3, <2>4, <2>5, <2>6, AsideRounds
<1>. QED  BY <1>3, <1>4

LEMMA ServeRounds ==
    ASSUME TypeOK, RoundsCounted, NEW q \in Requests,
           Serve(q) \/ \E l \in {"enable", "disable"} : Patch(q, l)
    PROVE  RoundsCounted'
<1>1. UNCHANGED <<pc, arg>> /\ faults \in Nat
  BY DEF Serve, Enable, Disable, WipeRoles, WipeTriggers, Patch, threads, TypeOK
<1>2. \A p : Assigning(p)' = Assigning(p) /\ Listing(p)' = Listing(p)
  BY <1>1 DEF Assigning, Listing, Pair
<1>3. CASE NoFault /\ UNCHANGED <<rounds, fired>>
  BY <1>2, <1>3 DEF RoundsCounted, H, NoFault
<1>4. CASE Fault /\ UNCHANGED <<rounds, fired>>
  BY <1>4, FaultRounds
<1>5. CASE fired' = {} /\ rounds' = [p \in Pairs |-> 0]
  <2>. SUFFICES ASSUME NEW p \in Pairs
                PROVE  0 <= Cardinality(Assigning(p)) + H * faults'
    BY <1>2, <1>5 DEF RoundsCounted, H
  <2>1. faults' \in Nat
    BY ServeTypes DEF TypeOK
  <2>. QED  BY <1>1, <2>1, Sizes, OneMore
<1>6. UNCHANGED <<rounds, fired>> \/ (fired' = {} /\ rounds' = [p \in Pairs |-> 0])
  BY DEF Serve, Enable, Disable, WipeRoles, WipeTriggers, Patch, db, history
<1>7. Fault \/ NoFault
  BY DEF Serve, Enable, Disable, WipeRoles, WipeTriggers, Patch, NoFault, Applied
<1>. QED  BY <1>3, <1>4, <1>5, <1>6, <1>7

LEMMA NextRounds == TypeOK /\ RoundsCounted /\ [Next]_vars => RoundsCounted'
<1>. SUFFICES ASSUME TypeOK, RoundsCounted, [Next]_vars PROVE RoundsCounted'
  OBVIOUS
<1>1. ASSUME NEW t \in Handlers, NEW u \in Users, NEW trigger \in Triggers,
             Event(t, u, trigger)
      PROVE  RoundsCounted'
  BY <1>1, AsideRounds DEF Event, Moves, NoFault, db, history
<1>2. ASSUME NEW t \in Handlers, NEW l \in Labels, NEW r \in Roles,
             NEW trigger \in Triggers, Command(t, l, r, trigger)
      PROVE  RoundsCounted'
  BY <1>2, AsideRounds DEF Command, Moves, NoFault, db, history
<1>3. CASE Crash
  BY <1>3, FaultRounds DEF Crash, db, history
<1>4. CASE UNCHANGED vars
  BY <1>4 DEF vars, db, threads, history, RoundsCounted, Assigning, Listing, Pair, H
<1>. QED  BY <1>1, <1>2, <1>3, <1>4, HandleRounds, ServeRounds DEF Next

LEMMA InitRounds == Init => RoundsCounted
<1>. SUFFICES ASSUME Init, NEW p \in Pairs
              PROVE  0 <= Cardinality(Assigning(p)) + H * faults
  BY DEF Init, RoundsCounted
<1>1. faults = 0
  BY DEF Init
<1>2. H * 0 \in Nat
  BY OneMore
<1>. QED  BY <1>1, <1>2, Sizes

\* The check and the row are four steps apart, and what that costs is one round
\* per goroutine, and as many again per failure.
THEOREM RoundsCorrect == Spec => []RoundsBounded
<1>1. TypeOK /\ RoundsCounted => RoundsBounded
  <2>. SUFFICES ASSUME TypeOK, RoundsCounted, NEW p \in Pairs
                PROVE  rounds[p] <= H * (faults + 1)
    BY DEF RoundsBounded, H
  <2>1. rounds[p] \in Nat /\ faults \in Nat
    BY DEF TypeOK
  <2>2. H * faults \in Nat /\ H * (faults + 1) = H * faults + H /\ H \in Nat
    BY <2>1, OneMore
  <2>3. /\ p \notin fired => rounds[p] <= Cardinality(Assigning(p)) + H * faults
        /\ p \in fired => rounds[p] + Cardinality(Listing(p)) <= H * faults + H
    BY DEF RoundsCounted
  <2>. QED  BY <2>1, <2>2, <2>3, Sizes
<1>. QED  BY <1>1, InitRounds, NextRounds, TypeCorrect, PTL DEF Spec

-----------------------------------------------------------------------------
(* What a disabled module leaves behind.                                   *)

R == Cardinality(roles)
F == Cardinality(fired)
W == Cardinality(Writers)

\* A request that has cleared the switch bounds what is left as it deletes: from
\* then on a goroutine that writes a row is one fewer that may.
LeftCounted ==
    /\ IsFiniteSet(roles) /\ IsFiniteSet(fired)
    /\ off # {} \/ clean => ~enabled
    /\ \A q \in off : req[q] \in {"wipeRoles", "wipeTriggers"}
    /\ \A q \in off : req[q] = "wipeTriggers" => R + W <= H
    /\ clean => R + F + W <= H

LEMMA LeftSizes ==
    ASSUME LeftCounted
    PROVE  R \in Nat /\ F \in Nat /\ W \in Nat /\ W <= H /\ H \in Nat /\ IsFiniteSet(Writers)
<1>1. Writers \subseteq Handlers
  BY DEF Writers
<1>2. IsFiniteSet(Writers) /\ Cardinality(Writers) <= Cardinality(Handlers)
  BY <1>1, FiniteAssumption, FS_Subset
<1>. QED  BY <1>2, FiniteAssumption, FS_CardinalityType DEF LeftCounted, R, F, W, H

LEMMA Shrinks ==
    ASSUME NEW A, NEW B, IsFiniteSet(A), B \subseteq A
    PROVE  IsFiniteSet(B) /\ Cardinality(B) \in Nat /\ Cardinality(B) <= Cardinality(A)
BY FS_Subset, FS_CardinalityType

LEMMA GrowsByOne ==
    ASSUME NEW A, NEW B, NEW x, IsFiniteSet(A), B \subseteq A \cup {x}
    PROVE  /\ IsFiniteSet(B) /\ Cardinality(B) \in Nat
           /\ Cardinality(B) <= Cardinality(A) + 1
<1>1. /\ IsFiniteSet(A \cup {x}) /\ Cardinality(A) \in Nat
      /\ Cardinality(A \cup {x}) <= Cardinality(A) + 1
  <2>1. IsFiniteSet(A \cup {x}) /\ Cardinality(A) \in Nat
    BY FS_AddElement, FS_CardinalityType
  <2>2. Cardinality(A \cup {x}) = IF x \in A THEN Cardinality(A) ELSE Cardinality(A) + 1
    BY FS_AddElement
  <2>. QED  BY <2>1, <2>2
<1>2. IsFiniteSet(B) /\ Cardinality(B) \in Nat /\ Cardinality(B) <= Cardinality(A \cup {x})
  BY <1>1, Shrinks
<1>3. Cardinality(A \cup {x}) \in Nat
  BY <1>1, FS_CardinalityType
<1>. QED  BY <1>1, <1>2, <1>3

\* As long as the module is enabled nothing is counted.
LEMMA EnabledLeft ==
    ASSUME LeftCounted, enabled, UNCHANGED <<enabled, off, clean, req>>,
           IsFiniteSet(roles'), IsFiniteSet(fired')
    PROVE  LeftCounted'
BY DEF LeftCounted

\* Fewer rows, and nobody else who may write one.
LEMMA QuietLeft ==
    ASSUME LeftCounted, UNCHANGED <<enabled, off, clean, req>>,
           Writers' \subseteq Writers, roles' \subseteq roles, fired' \subseteq fired
    PROVE  LeftCounted'
<1>1. IsFiniteSet(roles') /\ R' \in Nat /\ R' <= R
  BY Shrinks DEF LeftCounted, R
<1>2. IsFiniteSet(fired') /\ F' \in Nat /\ F' <= F
  BY Shrinks DEF LeftCounted, F
<1>3. W' \in Nat /\ W' <= W
  BY LeftSizes, Shrinks DEF W
<1>4. H' = H
  BY DEF H
<1>. QED  BY <1>1, <1>2, <1>3, <1>4, LeftSizes DEF LeftCounted

\* A row more, and one fewer who may write one.
LEMMA WriteLeft ==
    ASSUME LeftCounted, UNCHANGED <<enabled, off, clean, req>>,
           NEW t \in Writers, Writers' = Writers \ {t}, NEW x,
           \/ roles' \subseteq roles \cup {x} /\ fired' = fired
           \/ fired' \subseteq fired \cup {x} /\ roles' = roles
    PROVE  LeftCounted'
<1>1. W' = W - 1
  BY LeftSizes, FS_RemoveElement DEF W
<1>2. H' = H
  BY DEF H
<1>3. /\ IsFiniteSet(roles') /\ IsFiniteSet(fired')
      /\ R' \in Nat /\ F' \in Nat /\ R' <= R + 1 /\ R' + F' <= R + F + 1
  <2>1. CASE roles' \subseteq roles \cup {x} /\ fired' = fired
    <3>1. IsFiniteSet(roles') /\ R' \in Nat /\ R' <= R + 1
      BY <2>1, GrowsByOne DEF LeftCounted, R
    <3>2. F' = F
      BY <2>1 DEF F
    <3>. QED  BY <2>1, <3>1, <3>2, LeftSizes DEF LeftCounted
  <2>2. CASE fired' \subseteq fired \cup {x} /\ roles' = roles
    <3>1. IsFiniteSet(fired') /\ F' \in Nat /\ F' <= F + 1
      BY <2>2, GrowsByOne DEF LeftCounted, F
    <3>2. R' = R
      BY <2>2 DEF R
    <3>. QED  BY <2>2, <3>1, <3>2, LeftSizes DEF LeftCounted
  <2>. QED  BY <2>1, <2>2
<1>. QED  BY <1>1, <1>2, <1>3, LeftSizes DEF LeftCounted

WriterLabels == {"triggered", "list", "assign", "record", "addExists", "addCreate"}

LEMMA MovesWriters ==
    ASSUME ThreadTypes, NEW t \in Handlers, NEW l, NEW a, Moves(t, l, a)
    PROVE  /\ pc[t] \in WriterLabels \/ l \notin WriterLabels => Writers' \subseteq Writers
           /\ l \notin WriterLabels => Writers' = Writers \ {t}
           /\ pc[t] \in WriterLabels <=> t \in Writers
<1>1. \A s \in Handlers : pc'[s] = IF s = t THEN l ELSE pc[s]
  BY DEF Moves, ThreadTypes
<1>. QED  BY <1>1 DEF Writers, WriterLabels

LEMMA HandleLeft ==
    ASSUME TypeOK, LeftCounted, NEW t \in Handlers, Handle(t)
    PROVE  LeftCounted'
<1>1. ThreadTypes
  BY Parts
<1>2. UNCHANGED <<enabled, off, clean, req>>
  BY DEF Handle, FetchMember, CheckEnabled, CheckTriggered, ListRoles, AssignRole,
         RecordTrigger, CheckCommand, AddExists, AddCreate, RemoveRow, db, history
<1>3. CASE ListRoles(t)
  <2>1. pc[t] \in WriterLabels /\ UNCHANGED <<roles, fired>>
    BY <1>3 DEF ListRoles, WriterLabels, db
  <2>2. Writers' \subseteq Writers
    BY <1>1, <1>3, <2>1, ListMoves, MovesWriters
  <2>. QED  BY <1>2, <2>1, <2>2, QuietLeft
<1>4. CASE AssignRole(t)
  <2>1. pc[t] \in WriterLabels /\ UNCHANGED <<roles, fired>>
    BY <1>4 DEF AssignRole, WriterLabels, db
  <2>2. Writers' \subseteq Writers
    BY <1>1, <1>4, <2>1, AssignMoves, MovesWriters
  <2>. QED  BY <1>2, <2>1, <2>2, QuietLeft
<1>5. CASE RecordTrigger(t)
  <2>1. /\ pc[t] \in WriterLabels /\ Moves(t, "idle", Blank)
        /\ fired' \subseteq fired \cup {Pair(t)} /\ roles' = roles
    BY <1>5 DEF RecordTrigger, WriterLabels, Goto, Moves
  <2>2. t \in Writers /\ Writers' = Writers \ {t}
    BY <1>1, <2>1, MovesWriters DEF WriterLabels
  <2>. QED  BY <1>2, <2>1, <2>2, WriteLeft
<1>6. CASE AddCreate(t)
  <2>1. /\ pc[t] \in WriterLabels /\ Moves(t, "idle", Blank)
        /\ roles' \subseteq roles \cup {Row(t)} /\ fired' = fired
    BY <1>6 DEF AddCreate, WriterLabels, Goto, Moves
  <2>2. t \in Writers /\ Writers' = Writers \ {t}
    BY <1>1, <2>1, MovesWriters DEF WriterLabels
  <2>. QED  BY <1>2, <2>1, <2>2, WriteLeft
<1>7. CASE \/ FetchMember(t) \/ CheckEnabled(t) \/ CheckTriggered(t) \/ CheckCommand(t)
           \/ AddExists(t) \/ RemoveRow(t)
  <2>0. ~ListRoles(t) /\ ~AssignRole(t)
    BY <1>7 DEF FetchMember, CheckEnabled, CheckTriggered, CheckCommand, AddExists,
        RemoveRow, ListRoles, AssignRole
  <2>1. roles' \subseteq roles /\ fired' \subseteq fired
    BY <1>7 DEF FetchMember, CheckEnabled, CheckTriggered, CheckCommand, AddExists,
        RemoveRow, db
  <2>2. PICK l \in Labels, a \in Args : Goto(t, l) /\ Moves(t, l, a)
    BY <1>1, <2>0, HandleGoto, GotoMoves
  <2>3. pc'[t] = l
    BY <1>1, <2>2 DEF Moves, ThreadTypes
  <2>4. pc[t] \in WriterLabels \/ l \notin WriterLabels \/ enabled
    <3>1. CASE FetchMember(t) \/ CheckEnabled(t) \/ RemoveRow(t)
      BY <1>1, <2>3, <3>1 DEF FetchMember, CheckEnabled, RemoveRow, Goto, WriterLabels, ThreadTypes
    <3>2. CASE CheckTriggered(t) \/ AddExists(t)
      BY <3>2 DEF CheckTriggered, AddExists, WriterLabels
    <3>3. CASE CheckCommand(t)
      BY <1>1, <2>3, <3>3 DEF CheckCommand, Goto, WriterLabels, ThreadTypes
    <3>. QED  BY <1>7, <3>1, <3>2, <3>3
  <2>5. CASE pc[t] \in WriterLabels \/ l \notin WriterLabels
    <3>1. Writers' \subseteq Writers
      BY <1>1, <2>2, <2>5, MovesWriters
    <3>. QED  BY <1>2, <2>1, <3>1, QuietLeft
  <2>6. CASE enabled
    <3>1. IsFiniteSet(roles') /\ IsFiniteSet(fired')
      BY <2>1, FS_Subset DEF LeftCounted
    <3>. QED  BY <1>2, <2>6, <3>1, EnabledLeft
  <2>. QED  BY <2>4, <2>5, <2>6
<1>. QED  BY <1>3, <1>4, <1>5, <1>6, <1>7 DEF Handle

LEMMA ServeLeft ==
    ASSUME TypeOK, LeftCounted, NEW q \in Requests,
           Serve(q) \/ \E l \in {"enable", "disable"} : Patch(q, l)
    PROVE  LeftCounted'
<1>0. /\ req \in [Requests -> {"idle", "enable", "disable", "wipeRoles", "wipeTriggers"}]
      /\ off \subseteq Requests
  BY DEF TypeOK
<1>1. UNCHANGED pc
  BY DEF Serve, Enable, Disable, WipeRoles, WipeTriggers, Patch, threads
<1>2. W' = W /\ H' = H
  BY <1>1 DEF W, Writers, H
<1>3. ASSUME NEW l \in {"enable", "disable"}, Patch(q, l) PROVE LeftCounted'
  <2>1. req[q] = "idle" /\ req' = [req EXCEPT ![q] = l] /\ UNCHANGED <<enabled, roles, fired, off, clean>>
    BY <1>3 DEF Patch, Answer, db, history
  <2>2. q \notin off
    BY <2>1 DEF LeftCounted
  <2>3. \A p \in off : req'[p] = req[p]
    BY <1>0, <2>1, <2>2
  <2>4. R' = R /\ F' = F
    BY <2>1 DEF R, F
  <2>. QED  BY <1>2, <2>1, <2>3, <2>4 DEF LeftCounted
<1>4. CASE Enable(q)
  <2>1. req[q] = "enable" /\ req' = [req EXCEPT ![q] = "idle"] /\ UNCHANGED <<roles, fired>>
    BY <1>4 DEF Enable, Answer
  <2>2. R' = R /\ F' = F
    BY <2>1 DEF R, F
  <2>3. CASE off' = {} /\ clean' = FALSE
    BY <2>1, <2>3 DEF LeftCounted
  <2>4. CASE UNCHANGED <<enabled, off, clean>>
    <3>1. q \notin off
      BY <2>1 DEF LeftCounted
    <3>2. \A p \in off : req'[p] = req[p]
      BY <1>0, <2>1, <3>1
    <3>. QED  BY <1>2, <2>1, <2>2, <2>4, <3>2 DEF LeftCounted
  <2>. QED  BY <1>4, <2>3, <2>4 DEF Enable
<1>5. CASE Disable(q)
  <2>1. req[q] = "disable" /\ UNCHANGED <<roles, fired, clean>>
    BY <1>5 DEF Disable
  <2>2. R' = R /\ F' = F /\ q \notin off
    BY <2>1 DEF R, F, LeftCounted
  <2>3. CASE enabled' = FALSE /\ off' = off \cup {q} /\ req' = [req EXCEPT ![q] = "wipeRoles"]
    <3>1. req'[q] = "wipeRoles" /\ \A p \in off : req'[p] = req[p]
      BY <1>0, <2>2, <2>3
    <3>. QED  BY <1>2, <2>1, <2>2, <2>3, <3>1 DEF LeftCounted
  <2>4. CASE enabled' \in {enabled, FALSE} /\ UNCHANGED off /\ req' = [req EXCEPT ![q] = "idle"]
    <3>1. \A p \in off : req'[p] = req[p]
      BY <1>0, <2>2, <2>4
    <3>2. off # {} \/ clean => ~enabled'
      <4>1. off # {} \/ clean => ~enabled
        BY DEF LeftCounted
      <4>. QED  BY <2>4, <4>1
    <3>. QED  BY <1>2, <2>1, <2>2, <2>4, <3>1, <3>2 DEF LeftCounted
  <2>. QED  BY <1>5, <2>3, <2>4 DEF Disable, Answer
<1>6. CASE WipeRoles(q)
  <2>1. req[q] = "wipeRoles" /\ UNCHANGED <<enabled, fired, clean>>
    BY <1>6 DEF WipeRoles
  <2>2. F' = F
    BY <2>1 DEF F
  <2>3. CASE roles' = {} /\ req' = [req EXCEPT ![q] = "wipeTriggers"] /\ UNCHANGED off
    <3>1. IsFiniteSet(roles') /\ R' = 0
      BY <2>3, FS_EmptySet DEF R
    <3>2. \A p \in off : req'[p] \in {"wipeRoles", "wipeTriggers"}
      BY <1>0, <2>3 DEF LeftCounted
    <3>3. R' + W' <= H
      BY <1>2, <3>1, LeftSizes
    <3>4. clean => R' + F' + W' <= H
      BY <1>2, <2>2, <3>1, LeftSizes DEF LeftCounted
    <3>. QED  BY <1>2, <2>1, <2>3, <3>1, <3>2, <3>3, <3>4 DEF LeftCounted
  <2>4. CASE off' = off \ {q} /\ roles' \in {roles, {}} /\ req' = [req EXCEPT ![q] = "idle"]
    <3>1. \A p \in off' : p \in off /\ req'[p] = req[p]
      BY <1>0, <2>4
    <3>2. CASE roles' = roles
      <4>1. R' = R
        BY <3>2 DEF R
      <4>. QED  BY <1>2, <2>1, <2>2, <2>4, <3>1, <3>2, <4>1 DEF LeftCounted
    <3>3. CASE roles' = {}
      <4>1. IsFiniteSet(roles') /\ R' = 0
        BY <3>3, FS_EmptySet DEF R
      <4>2. R' + W' <= H
        BY <1>2, <4>1, LeftSizes
      <4>3. clean => R' + F' + W' <= H
        BY <1>2, <2>2, <4>1, LeftSizes DEF LeftCounted
      <4>. QED  BY <1>2, <2>1, <2>2, <2>4, <3>1, <4>1, <4>2, <4>3 DEF LeftCounted
    <3>. QED  BY <2>4, <3>2, <3>3
  <2>. QED  BY <1>6, <2>3, <2>4 DEF WipeRoles, Answer
<1>7. CASE WipeTriggers(q)
  <2>1. /\ req[q] = "wipeTriggers" /\ UNCHANGED <<enabled, roles>> /\ off' = off \ {q}
        /\ req' = [req EXCEPT ![q] = "idle"]
    BY <1>7 DEF WipeTriggers, Answer
  <2>2. R' = R /\ \A p \in off' : p \in off /\ req'[p] = req[p]
    BY <1>0, <2>1 DEF R
  <2>3. CASE fired' = {} /\ clean' = (clean \/ q \in off)
    <3>1. IsFiniteSet(fired') /\ F' = 0
      BY <2>3, FS_EmptySet DEF F
    <3>2. CASE clean'
      <4>1. R + W <= H
        <5>1. CASE clean
          BY <5>1, LeftSizes DEF LeftCounted
        <5>2. CASE q \in off
          BY <2>1, <5>2 DEF LeftCounted
        <5>. QED  BY <2>3, <3>2, <5>1, <5>2
      <4>2. ~enabled
        BY <2>3, <3>2 DEF LeftCounted
      <4>. QED  BY <1>2, <2>1, <2>2, <3>1, <4>1, <4>2, LeftSizes DEF LeftCounted
    <3>3. CASE ~clean'
      BY <1>2, <2>1, <2>2, <3>1, <3>3 DEF LeftCounted
    <3>. QED  BY <3>2, <3>3
  <2>4. CASE UNCHANGED <<fired, clean>>
    <3>1. F' = F
      BY <2>4 DEF F
    <3>. QED  BY <1>2, <2>1, <2>2, <2>4, <3>1 DEF LeftCounted
  <2>. QED  BY <1>7, <2>3, <2>4 DEF WipeTriggers
<1>. QED  BY <1>3, <1>4, <1>5, <1>6, <1>7 DEF Serve

LEMMA NextLeft == TypeOK /\ LeftCounted /\ [Next]_vars => LeftCounted'
<1>. SUFFICES ASSUME TypeOK, LeftCounted, [Next]_vars PROVE LeftCounted'
  OBVIOUS
<1>0. ThreadTypes
  BY Parts
<1>1. ASSUME NEW t \in Handlers, NEW l, NEW a, Moves(t, l, a), l \notin WriterLabels,
             UNCHANGED <<enabled, off, clean, req, roles, fired>>
      PROVE  LeftCounted'
  BY <1>0, <1>1, MovesWriters, QuietLeft
<1>2. ASSUME NEW t \in Handlers, NEW u \in Users, NEW trigger \in Triggers,
             Event(t, u, trigger)
      PROVE  LeftCounted'
  BY <1>1, <1>2 DEF Event, Moves, WriterLabels, db, history
<1>3. ASSUME NEW t \in Handlers, NEW l \in Labels, NEW r \in Roles,
             NEW trigger \in Triggers, Command(t, l, r, trigger)
      PROVE  LeftCounted'
  BY <1>1, <1>3 DEF Command, Moves, WriterLabels, db, history
<1>4. CASE Crash
  <2>1. Writers' = {} /\ UNCHANGED <<enabled, off, clean, req, roles, fired>>
    BY <1>4 DEF Crash, Writers, db, history
  <2>. QED  BY <2>1, QuietLeft
<1>5. CASE UNCHANGED vars
  <2>1. Writers' = Writers /\ UNCHANGED <<enabled, off, clean, req, roles, fired>>
    BY <1>5 DEF vars, Writers, db, threads, history
  <2>. QED  BY <2>1, QuietLeft
<1>. QED  BY <1>2, <1>3, <1>4, <1>5, HandleLeft, ServeLeft DEF Next

\* Disabling the module deletes its rows for good, but for those of goroutines
\* that had found it enabled: as many as there are such goroutines, at most.
THEOREM LeftoverCorrect == Spec => []LeftoverBounded
<1>1. Init => LeftCounted
  BY FS_EmptySet DEF Init, LeftCounted
<1>2. LeftCounted => LeftoverBounded
  BY DEF LeftCounted, LeftoverBounded, R, F, W, H
<1>. QED  BY <1>1, <1>2, NextLeft, TypeCorrect, PTL DEF Spec
=============================================================================
