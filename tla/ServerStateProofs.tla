--------------------------- MODULE ServerStateProofs ---------------------------
(***************************************************************************)
(* What the server keeps in memory for its admins, each for any values of  *)
(* its constants: the session budget keeps its caps, whatever they are and *)
(* whatever notionals the hooks ask for, and the control state agrees with *)
(* config.toml, for any number of admin requests, configurations and       *)
(* inodes.  The two share no state; PreToolUse composes them.              *)
(***************************************************************************)
EXTENDS SessionBudget, ControlState, TLAPS

--------------------------------------------------------------------------------
(* The session budget *)

\* try_record never stores a count, a total or a time that is not a natural number:
\* negative notionals are not credited.
THEOREM BudgetTyped == Spec => []TypeOK
<1>1. Init => TypeOK
  <2> SUFFICES ASSUME Init PROVE TypeOK
    OBVIOUS
  <2>1. orders_used \in Nat /\ notional_used \in Nat /\ elapsed \in 0..MaxDuration
    BY BudgetAssumption DEF Init
  <2>2. breached \in BOOLEAN /\ tripped \in Caps \cup {"none"}
    BY Zenon DEF Init
  <2> QED
    BY <2>1, <2>2 DEF TypeOK
<1>2. TypeOK /\ [Next]_vars => TypeOK'
  <2> SUFFICES ASSUME TypeOK, [Next]_vars PROVE TypeOK'
    OBVIOUS
  <2>1. ASSUME NEW n \in Notional, Record(n) PROVE TypeOK'
    BY <2>1, BudgetAssumption DEF TypeOK, Record, WouldBe
  <2>2. ASSUME NEW n \in Notional, Refuse(n) PROVE TypeOK'
    <3>1. Breach(n) \in Caps
      BY DEF Breach, FirstBreach, Caps
    <3> QED
      BY <2>2, <3>1 DEF TypeOK, Refuse
  <2>3. CASE Reset
    <3>1. orders_used' \in Nat /\ notional_used' \in Nat /\ elapsed' \in 0..MaxDuration
      BY <2>3, BudgetAssumption DEF Reset
    <3>2. breached' \in BOOLEAN /\ tripped' \in Caps \cup {"none"}
      BY <2>3, Zenon DEF Reset
    <3> QED
      BY <3>1, <3>2 DEF TypeOK
  <2>4. CASE Tick
    BY <2>4, BudgetAssumption DEF TypeOK, Tick
  <2>5. CASE UNCHANGED vars
    BY <2>5 DEF TypeOK, vars
  <2> QED
    BY <2>1, <2>2, <2>3, <2>4, <2>5 DEF Next, TryRecord
<1> QED
  BY <1>1, <1>2, PTL DEF Spec

\* Recorded orders stay within every cap that is set: try_record checks before it
\* charges, and charges exactly what it checked.
THEOREM CapsHold == Spec => []WithinCaps
<1>1. Init => WithinCaps
  BY BudgetAssumption DEF Init, WithinCaps
<1>2. TypeOK /\ WithinCaps /\ [Next]_vars => WithinCaps'
  <2> SUFFICES ASSUME TypeOK, WithinCaps, [Next]_vars PROVE WithinCaps'
    OBVIOUS
  <2>1. ASSUME NEW n \in Notional, Record(n) PROVE WithinCaps'
    <3>1. MaxOrders > 0 => orders_used < MaxOrders
      BY <2>1, BudgetAssumption DEF TypeOK, Record, Refuses, OrdersSpent
    <3>2. MaxNotional > 0 => WouldBe(n) <= MaxNotional
      BY <2>1, BudgetAssumption DEF TypeOK, Record, Refuses, NotionalSpent, WouldBe
    <3> QED
      BY <2>1, <3>1, <3>2, BudgetAssumption DEF TypeOK, WithinCaps, Record
  <2>2. ASSUME NEW n \in Notional, Refuse(n) PROVE WithinCaps'
    BY <2>2 DEF WithinCaps, Refuse
  <2>3. CASE Reset
    BY <2>3, BudgetAssumption DEF WithinCaps, Reset
  <2>4. CASE Tick
    BY <2>4 DEF WithinCaps, Tick
  <2>5. CASE UNCHANGED vars
    BY <2>5 DEF WithinCaps, vars
  <2> QED
    BY <2>1, <2>2, <2>3, <2>4, <2>5 DEF Next, TryRecord
<1> QED
  BY <1>1, <1>2, BudgetTyped, PTL DEF Spec

\* The latch is what remembers a refusal: without this the next theorem's step could
\* record an order after a refused one.
Latched == tripped # "none" => breached

\* try_record latches breached whenever it refuses, and only reset clears both.
LEMMA LatchHolds == Spec => []Latched
<1>1. Init => Latched
  BY DEF Init, Latched
<1>2. Latched /\ [Next]_vars => Latched'
  BY DEF Latched, Next, TryRecord, Record, Refuse, Reset, Tick, vars
<1> QED
  BY <1>1, <1>2, PTL DEF Spec

\* After a refused order nothing is charged until reset() is called.
THEOREM RefusalIsFinal == Spec => RefusalLatches
<1> DEFINE Step == tripped # "none" => tripped' = "none" \/ UNCHANGED <<orders_used, notional_used>>
<1>1. Latched /\ [Next]_vars => Step \/ UNCHANGED vars
  <2> SUFFICES ASSUME Latched, [Next]_vars, tripped # "none"
               PROVE tripped' = "none" \/ UNCHANGED <<orders_used, notional_used>>
    BY DEF vars
  <2>1. ASSUME NEW n \in Notional, Record(n) PROVE FALSE
    BY <2>1 DEF Latched, Record, Refuses
  <2> QED
    BY <2>1 DEF Next, TryRecord, Refuse, Reset, Tick, vars
<1> QED
  BY <1>1, LatchHolds, PTL DEF Spec, RefusalLatches

\* What a refusal leaves behind: the latch, and the cap that was hit, which stays hit
\* because nothing is given back before a reset.
Hit ==
    /\ breached => tripped # "none"
    /\ tripped = "duration" => DurationSpent
    /\ tripped = "order_count" => OrdersSpent

\* Hit is inductive: counts and time only grow, and a refusal names a cap it found spent.
LEMMA CapStaysHit == Spec => [](TypeOK /\ Latched /\ Hit)
<1>1. Init => Hit
  BY DEF Init, Hit
<1>2. TypeOK /\ Latched /\ Hit /\ [Next]_vars => Hit'
  <2> SUFFICES ASSUME TypeOK, Latched, Hit, [Next]_vars PROVE Hit'
    OBVIOUS
  <2>1. ASSUME NEW n \in Notional, Record(n) PROVE Hit'
    BY <2>1 DEF Latched, Hit, Record, Refuses
  <2>2. ASSUME NEW n \in Notional, Refuse(n) PROVE Hit'
    <3>1. OrdersSpent' = OrdersSpent /\ DurationSpent' = DurationSpent
      BY <2>2 DEF Refuse, OrdersSpent, DurationSpent
    <3>2. CASE breached
      BY <2>2, <3>1, <3>2 DEF Refuse, Hit
    <3>3. CASE ~breached
      <4>1. tripped' = Breach(n)
        BY <2>2, <3>3 DEF Refuse
      <4> QED
        BY <3>1, <3>3, <4>1 DEF Hit, Breach
    <3> QED
      BY <3>2, <3>3
  <2>3. CASE Reset
    BY <2>3 DEF Hit, Reset
  <2>4. CASE Tick
    BY <2>4, BudgetAssumption DEF TypeOK, Hit, Tick, OrdersSpent, DurationSpent
  <2>5. CASE UNCHANGED vars
    BY <2>5 DEF Hit, vars, OrdersSpent, DurationSpent
  <2> QED
    BY <2>1, <2>2, <2>3, <2>4, <2>5 DEF Next, TryRecord
<1> QED
  BY <1>1, <1>2, BudgetTyped, LatchHolds, PTL DEF Spec

\* first_breach recomputes the reason instead of storing it; what it recomputes is
\* still a cap that was hit.
THEOREM ReportIsHonest == Spec => []ReportedCapIsReal
<1>1. TypeOK /\ Latched /\ Hit => ReportedCapIsReal
  <2> SUFFICES ASSUME TypeOK, Hit, breached PROVE ReportedCapIsReal
    BY DEF ReportedCapIsReal
  <2>1. tripped \in Caps
    BY DEF TypeOK, Hit
  <2> QED
    BY <2>1 DEF ReportedCapIsReal, FirstBreach, Hit, Caps
<1> QED
  BY <1>1, CapStaysHit, PTL

--------------------------------------------------------------------------------
(* The control state *)

\* An admin request.
ReqRecord == [pc : {"idle", "open", "write", "rename", "read", "apply", "preflight", "set_mode"},
              cfg : Config, fd : Inode \cup {NoFile}, mode : Mode]

\* Until two requests race, at most one of them handles the configuration.
OneAtOnce == \A a, b \in Admin : InConfig(a) /\ InConfig(b) => a = b

\* The temporary file is not config.toml; its writer has it open, and after the write
\* it holds a whole configuration.
FilesApart ==
    /\ tmp # conf
    /\ \A a \in Admin : /\ At(a, "write") => req[a].fd = tmp /\ tmp \in Inode
                        /\ At(a, "rename") => tmp \in Inode /\ content[tmp] \in Config

\* config.toml is whole, and invalid only by hand.
FileWhole ==
    /\ content[conf] # Empty
    /\ ~edited => content[conf] # Invalid

\* Nobody is between a change of the file and its application, or what is about to be
\* applied is what the file says.
InStep ==
    ~edited =>
        /\ (\A a \in Admin : ~At(a, "read") /\ ~At(a, "apply")) => control.cfg = Parse(content[conf])
        /\ \A a \in Admin : At(a, "apply") => req[a].cfg = Parse(content[conf])

\* What holds while configuration requests do not overlap.
InOrder == OneAtOnce /\ FilesApart /\ FileWhole /\ InStep

\* What a race breaks is not claimed after one; the types always hold.
IInv == ControlTypeOK /\ (~raced => InOrder)

--------------------------------------------------------------------------------

\* Requests are records of the same shape at every step.
LEMMA ReqTypes ==
    ASSUME ControlTypeOK, NEW a \in Admin
    PROVE  /\ req \in [Admin -> ReqRecord] /\ req[a] \in ReqRecord /\ Idle \in ReqRecord
           /\ \A pc \in {"set_mode", "read"} : [req EXCEPT ![a].pc = pc] \in [Admin -> ReqRecord]
<1>1. req \in [Admin -> ReqRecord] /\ req[a] \in ReqRecord
  BY DEF ControlTypeOK, ReqRecord
<1>2. Idle \in ReqRecord
  BY ControlAssumption DEF Idle, ReqRecord, Mode
<1>3. ASSUME NEW pc \in {"set_mode", "read"} PROVE [req EXCEPT ![a].pc = pc] \in [Admin -> ReqRecord]
  <2>1. [req[a] EXCEPT !.pc = pc] \in ReqRecord
    BY <1>1 DEF ReqRecord
  <2> QED
    BY <1>1, <2>1
<1> QED
  BY <1>1, <1>2, <1>3

\* What a step of a request does to the requests.
LEMMA ReqStep ==
    ASSUME ControlTypeOK, NEW a \in Admin, AdminStep(a)
    PROVE  req' \in [Admin -> ReqRecord] /\ \A b \in Admin : b # a => req'[b] = req[b]
<1>0. req \in [Admin -> ReqRecord] /\ req[a] \in ReqRecord /\ Idle \in ReqRecord
  BY ReqTypes
<1>1. ASSUME NEW q \in ReqRecord, req' = [req EXCEPT ![a] = q]
      PROVE  req' \in [Admin -> ReqRecord] /\ \A b \in Admin : b # a => req'[b] = req[b]
  BY <1>0, <1>1
<1>2. ASSUME Done(a)
      PROVE  req' \in [Admin -> ReqRecord] /\ \A b \in Admin : b # a => req'[b] = req[b]
  BY <1>0, <1>1, <1>2 DEF Done
<1>3. ASSUME NEW pc \in {"set_mode", "read"}, Goto(a, pc)
      PROVE  req' \in [Admin -> ReqRecord] /\ \A b \in Admin : b # a => req'[b] = req[b]
  BY <1>0, <1>3, ReqTypes DEF Goto
<1>4. ASSUME NEW engage \in BOOLEAN, PostKill(a, engage)
      PROVE  req' \in [Admin -> ReqRecord] /\ \A b \in Admin : b # a => req'[b] = req[b]
  BY <1>0, <1>4 DEF PostKill
<1>5. ASSUME NEW m \in Mode, PostMode(a, m)
      PROVE  req' \in [Admin -> ReqRecord] /\ \A b \in Admin : b # a => req'[b] = req[b]
  <2> DEFINE q == [req[a] EXCEPT !.pc = IF m = "live" THEN "preflight" ELSE "set_mode", !.mode = m]
  <2>1. q \in ReqRecord
    BY <1>0 DEF ReqRecord
  <2>2. req' = [req EXCEPT ![a] = q]
    BY <1>0, <1>5 DEF PostMode, ReqRecord
  <2> HIDE DEF q
  <2> QED
    BY <1>1, <2>1, <2>2
<1>6. ASSUME NEW c \in Config, PostConfig(a, c)
      PROVE  req' \in [Admin -> ReqRecord] /\ \A b \in Admin : b # a => req'[b] = req[b]
  <2> DEFINE q == [req[a] EXCEPT !.pc = "open", !.cfg = c]
  <2>1. q \in ReqRecord
    BY <1>0 DEF ReqRecord
  <2>2. req' = [req EXCEPT ![a] = q]
    BY <1>0, <1>6 DEF PostConfig, ReqRecord
  <2> HIDE DEF q
  <2> QED
    BY <1>1, <2>1, <2>2
<1>7. CASE OpenTmp(a)
  <2>1. PICK i \in Inode : req' = [req EXCEPT ![a].pc = "write", ![a].fd = i]
    BY <1>7 DEF OpenTmp
  <2> DEFINE q == [req[a] EXCEPT !.pc = "write", !.fd = i]
  <2>2. q \in ReqRecord
    BY <1>0 DEF ReqRecord
  <2>3. req' = [req EXCEPT ![a] = q]
    BY <1>0, <2>1 DEF ReqRecord
  <2> HIDE DEF q
  <2> QED
    BY <1>1, <2>2, <2>3
<1>8. CASE WriteTmp(a)
  <2> DEFINE q == [req[a] EXCEPT !.pc = "rename", !.fd = NoFile]
  <2>1. q \in ReqRecord
    BY <1>0 DEF ReqRecord
  <2>2. req' = [req EXCEPT ![a] = q] \/ Done(a)
    BY <1>0, <1>8 DEF WriteTmp, ReqRecord
  <2> HIDE DEF q
  <2> QED
    BY <1>1, <1>2, <2>1, <2>2
<1>9. CASE ReadFile(a)
  <2>1. CASE content[conf] = Invalid
    BY <1>2, <1>9, <2>1 DEF ReadFile
  <2>2. CASE content[conf] # Invalid
    <3> DEFINE q == [req[a] EXCEPT !.pc = "apply", !.cfg = Parse(content[conf])]
    <3>1. Parse(content[conf]) \in Config
      BY <2>2, ControlAssumption DEF Parse, ControlTypeOK
    <3>2. q \in ReqRecord
      BY <1>0, <3>1 DEF ReqRecord
    <3>3. req' = [req EXCEPT ![a] = q]
      BY <1>0, <1>9, <2>2 DEF ReadFile, ReqRecord
    <3> HIDE DEF q
    <3> QED
      BY <1>1, <3>2, <3>3
  <2> QED
    BY <2>1, <2>2
<1>10. CASE RenameTmp(a) \/ Preflight(a) \/ SetMode(a) \/ PostConfigReload(a) \/ ApplyReload(a)
  BY <1>2, <1>3, <1>10 DEF RenameTmp, Preflight, SetMode, PostConfigReload, ApplyReload
<1> QED
  BY <1>4, <1>5, <1>6, <1>7, <1>8, <1>9, <1>10 DEF AdminStep

\* The server as it starts.
LEMMA Initially == ControlInit => IInv
<1> SUFFICES ASSUME ControlInit PROVE IInv
  OBVIOUS
<1>1. PICK c \in Config, i \in Inode :
          /\ control = Boot(c) /\ conf = i
          /\ content = [j \in Inode |-> IF j = i THEN c ELSE Empty]
  BY DEF ControlInit
<1>2. tmp = NoFile /\ req = [a \in Admin |-> Idle] /\ ~edited /\ ~raced
  BY Zenon DEF ControlInit
<1>3. edited \in BOOLEAN /\ raced \in BOOLEAN
  BY Zenon DEF ControlInit
<1>4. control \in ControlRecord /\ control.cfg = c
  BY <1>1, ConfigAssumption DEF Boot, ControlRecord, Mode
<1>5. content \in [Inode -> Config \cup {Empty, Invalid}] /\ content[conf] = c /\ conf \in Inode
  BY <1>1
<1>6. Idle \in ReqRecord
  BY ControlAssumption DEF Idle, ReqRecord, Mode
<1>7. ControlTypeOK
  BY <1>2, <1>3, <1>4, <1>5, <1>6 DEF ControlTypeOK, ReqRecord
<1>8. \A a \in Admin : req[a].pc = "idle"
  BY <1>2 DEF Idle
<1>9. OneAtOnce /\ FilesApart
  BY <1>2, <1>5, <1>8, ControlAssumption DEF OneAtOnce, FilesApart, InConfig, At
<1>10. FileWhole /\ InStep
  BY <1>4, <1>5, <1>8, ControlAssumption DEF FileWhole, InStep, At, Parse
<1> QED
  BY <1>7, <1>9, <1>10 DEF IInv, InOrder

\* Types are kept.
LEMMA TypesInductive == ControlTypeOK /\ [ControlNext]_controlVars => ControlTypeOK'
<1> SUFFICES ASSUME ControlTypeOK, [ControlNext]_controlVars PROVE ControlTypeOK'
  OBVIOUS
<1>1. ASSUME NEW a \in Admin, AdminStep(a) PROVE ControlTypeOK'
  <2>0. req' \in [Admin -> ReqRecord] /\ req[a] \in ReqRecord
    BY <1>1, ReqStep, ReqTypes
  <2>1. control' \in ControlRecord
    <3>1. ASSUME NEW engage \in BOOLEAN, PostKill(a, engage) PROVE control' \in ControlRecord
      BY <3>1 DEF PostKill, WithKill, ControlTypeOK, ControlRecord
    <3>2. CASE SetMode(a)
      BY <2>0, <3>2 DEF SetMode, WithMode, ControlTypeOK, ControlRecord, ReqRecord
    <3>3. CASE ApplyReload(a)
      <4>1. req[a].cfg \in Config
        BY <2>0 DEF ReqRecord
      <4>2. (control.kill \/ req[a].cfg.kill) \in BOOLEAN
        BY Zenon
      <4>3. control' = [control EXCEPT !.kill = control.kill \/ req[a].cfg.kill, !.cfg = req[a].cfg]
        BY <3>3 DEF ApplyReload, Reloaded, ControlTypeOK, ControlRecord
      <4> QED
        BY <4>1, <4>2, <4>3 DEF ControlTypeOK, ControlRecord
    <3>4. CASE control' = control
      BY <3>4 DEF ControlTypeOK
    <3> QED
      BY <1>1, <3>1, <3>2, <3>3, <3>4 DEF AdminStep, PostMode, Preflight, PostConfig, OpenTmp, WriteTmp,
             RenameTmp, PostConfigReload, ReadFile
  <2>2. conf' \in Inode /\ tmp' \in Inode \cup {NoFile}
    BY <1>1 DEF AdminStep, PostKill, PostMode, Preflight, SetMode, PostConfig, OpenTmp, WriteTmp,
           RenameTmp, PostConfigReload, ReadFile, ApplyReload, ControlTypeOK
  <2>3. content' \in [Inode -> Config \cup {Empty, Invalid}]
    <3>1. req[a].cfg \in Config
      BY <2>0 DEF ReqRecord
    <3> QED
      BY <1>1, <3>1 DEF AdminStep, PostKill, PostMode, Preflight, SetMode, PostConfig, OpenTmp, WriteTmp,
             RenameTmp, PostConfigReload, ReadFile, ApplyReload, ControlTypeOK
  <2>4. edited' \in BOOLEAN
    <3>1. edited' = edited \/ edited' = FALSE
      BY <1>1 DEF AdminStep, PostKill, PostMode, Preflight, SetMode, PostConfig, OpenTmp, WriteTmp,
             RenameTmp, PostConfigReload, ReadFile, ApplyReload
    <3> QED
      BY <3>1, Zenon DEF ControlTypeOK
  <2>5. raced' \in BOOLEAN
    <3>1. raced' = raced \/ raced' = (raced \/ \E b \in Admin : InConfig(b))
      BY <1>1, Zenon DEF AdminStep, PostKill, PostMode, Preflight, SetMode, PostConfig, OpenTmp, WriteTmp,
             RenameTmp, PostConfigReload, ReadFile, ApplyReload
    <3> QED
      BY <3>1, Zenon DEF ControlTypeOK
  <2> QED
    BY <2>0, <2>1, <2>2, <2>3, <2>4, <2>5 DEF ControlTypeOK, ReqRecord
<1>2. ASSUME NEW c \in Config \cup {Invalid}, EditFile(c) PROVE ControlTypeOK'
  <2>1. edited' \in BOOLEAN
    BY <1>2, Zenon DEF EditFile
  <2>2. content' \in [Inode -> Config \cup {Empty, Invalid}]
    BY <1>2 DEF EditFile, ControlTypeOK
  <2> QED
    BY <1>2, <2>1, <2>2 DEF EditFile, ControlTypeOK
<1>3. CASE Restart
  <2>1. Parse(content[conf]) \in Config
    BY <1>3, ControlAssumption DEF Restart, Parse, ControlTypeOK
  <2>2. control' \in ControlRecord
    BY <1>3, <2>1, ConfigAssumption DEF Restart, Boot, ControlRecord, Mode
  <2>3. Idle \in ReqRecord
    BY ControlAssumption DEF Idle, ReqRecord, Mode
  <2>4. edited' \in BOOLEAN
    BY <1>3, Zenon DEF Restart
  <2> QED
    BY <1>3, <2>2, <2>3, <2>4 DEF Restart, ControlTypeOK, ReqRecord
<1>4. CASE UNCHANGED controlVars
  BY <1>4 DEF controlVars, ControlTypeOK
<1> QED
  BY <1>1, <1>2, <1>3, <1>4 DEF ControlNext

--------------------------------------------------------------------------------

\* A request that handles no configuration before its step and none after leaves the
\* files in order: POST /v1/kill, POST /v1/mode.
LEMMA OthersInOrder ==
    ASSUME ControlTypeOK, InOrder, NEW a \in Admin,
           req' \in [Admin -> ReqRecord],
           \A b \in Admin : b # a => req'[b] = req[b],
           ~InConfig(a), req'[a].pc \in {"idle", "preflight", "set_mode"},
           UNCHANGED <<conf, tmp, content, edited>>, control'.cfg = control.cfg
    PROVE  InOrder'
<1>1. \A b \in Admin : InConfig(b)' => InConfig(b) /\ req'[b] = req[b]
  BY DEF InConfig
<1>2. OneAtOnce'
  BY <1>1 DEF OneAtOnce, InOrder
<1>3. FilesApart'
  <2>1. tmp' # conf'
    BY DEF FilesApart, InOrder
  <2>2. \A b \in Admin : At(b, "write")' \/ At(b, "rename")' => InConfig(b)' /\ req'[b] = req[b]
    BY <1>1 DEF At, InConfig
  <2>3. \A b \in Admin : (At(b, "write")' => At(b, "write")) /\ (At(b, "rename")' => At(b, "rename"))
    BY <2>2 DEF At
  <2> QED
    BY <2>1, <2>2, <2>3 DEF FilesApart, InOrder
<1>4. FileWhole'
  BY DEF FileWhole, InOrder
<1>5. InStep'
  <2>1. ASSUME NEW b \in Admin
        PROVE  /\ At(b, "read")' <=> At(b, "read")
               /\ At(b, "apply")' <=> At(b, "apply")
               /\ At(b, "apply")' => req'[b].cfg = req[b].cfg
    BY DEF At, InConfig
  <2> QED
    BY <2>1, Zenon DEF InStep, InOrder, Parse
<1> QED
  BY <1>2, <1>3, <1>4, <1>5 DEF InOrder

\* Nobody else handles the configuration while a does.
LEMMA Alone ==
    ASSUME ControlTypeOK, InOrder, NEW a \in Admin, AdminStep(a), InConfig(a)
    PROVE  /\ \A b \in Admin : b # a => ~InConfig(b) /\ ~InConfig(b)'
           /\ OneAtOnce'
<1>1. \A b \in Admin : b # a => ~InConfig(b)
  BY DEF InOrder, OneAtOnce
<1>2. \A b \in Admin : b # a => ~InConfig(b)'
  BY <1>1, ReqStep DEF InConfig
<1> QED
  BY <1>1, <1>2 DEF OneAtOnce

\* What is left to show of a step of the only request that handles the configuration.
LEMMA AloneInOrder ==
    ASSUME ControlTypeOK, InOrder, NEW a \in Admin, AdminStep(a), InConfig(a),
           tmp' # conf', FileWhole',
           At(a, "write")' => req'[a].fd = tmp' /\ tmp' \in Inode,
           At(a, "rename")' => tmp' \in Inode /\ content'[tmp'] \in Config,
           At(a, "apply")' /\ ~edited' => req'[a].cfg = Parse(content'[conf']),
           ~edited' /\ ~At(a, "read")' /\ ~At(a, "apply")' => control'.cfg = Parse(content'[conf'])
    PROVE  InOrder'
<1>1. OneAtOnce' /\ \A b \in Admin : b # a => ~InConfig(b)'
  BY Alone
<1>2. \A b \in Admin : b # a => ~At(b, "write")' /\ ~At(b, "rename")' /\ ~At(b, "apply")'
  BY <1>1 DEF InConfig, At
<1>3. FilesApart'
  BY <1>2 DEF FilesApart
<1>4. InStep'
  BY <1>2, Zenon DEF InStep, Parse
<1> QED
  BY <1>1, <1>3, <1>4 DEF InOrder

--------------------------------------------------------------------------------

\* POST /v1/config and POST /v1/config/reload begin when nobody handles the
\* configuration, or the race is on record.
LEMMA BeginInOrder ==
    ASSUME ControlTypeOK, InOrder, NEW a \in Admin, ~raced',
           req' \in [Admin -> ReqRecord],
           \A b \in Admin : b # a => req'[b] = req[b],
           raced' = (raced \/ \E b \in Admin : InConfig(b)),
           req'[a].pc \in {"open", "read"},
           UNCHANGED <<control, conf, tmp, content, edited>>
    PROVE  InOrder'
<1>1. \A b \in Admin : ~InConfig(b)
  BY Zenon
<1>2. \A b \in Admin : InConfig(b)' => b = a
  BY <1>1 DEF InConfig
<1>3. OneAtOnce'
  BY <1>2 DEF OneAtOnce
<1>4. \A b \in Admin : ~At(b, "write")' /\ ~At(b, "rename")' /\ ~At(b, "apply")' /\ ~At(b, "apply") /\ ~At(b, "read")
  BY <1>1, <1>2 DEF InConfig, At
<1>5. FilesApart' /\ FileWhole'
  BY <1>4 DEF InOrder, FilesApart, FileWhole
<1>6. InStep'
  BY <1>4, Zenon DEF InOrder, InStep, Parse
<1> QED
  BY <1>3, <1>5, <1>6 DEF InOrder

\* A step of a request, until a race, leaves the files in order.
LEMMA AdminInOrder ==
    ASSUME ControlTypeOK, InOrder, NEW a \in Admin, AdminStep(a), ~raced'
    PROVE  InOrder'
<1>0. /\ req \in [Admin -> ReqRecord] /\ req[a] \in ReqRecord /\ Idle \in ReqRecord
      /\ req' \in [Admin -> ReqRecord] /\ \A b \in Admin : b # a => req'[b] = req[b]
  BY ReqTypes, ReqStep
<1>1. Done(a) => req'[a] = Idle /\ req'[a].pc = "idle" /\ req'[a].pc \in {"idle", "preflight", "set_mode"}
  BY <1>0 DEF Done, Idle
<1>2. ASSUME NEW engage \in BOOLEAN, PostKill(a, engage) PROVE InOrder'
  <2>1. control'.cfg = control.cfg
    BY <1>2 DEF PostKill, WithKill, ControlTypeOK, ControlRecord
  <2> QED
    BY <1>0, <1>2, <2>1, OthersInOrder DEF PostKill, At, InConfig
<1>3. ASSUME NEW m \in Mode, PostMode(a, m) PROVE InOrder'
  <2>1. req'[a].pc \in {"idle", "preflight", "set_mode"}
    BY <1>0, <1>3 DEF PostMode, ReqRecord
  <2> QED
    BY <1>0, <1>3, <2>1, OthersInOrder DEF PostMode, At, InConfig
<1>4. CASE Preflight(a)
  <2>1. req'[a].pc \in {"idle", "preflight", "set_mode"}
    BY <1>0, <1>1, <1>4 DEF Preflight, Goto, ReqRecord
  <2> QED
    BY <1>0, <1>4, <2>1, OthersInOrder DEF Preflight, At, InConfig
<1>5. CASE SetMode(a)
  <2>1. control'.cfg = control.cfg
    BY <1>5 DEF SetMode, WithMode, ControlTypeOK, ControlRecord
  <2> QED
    BY <1>0, <1>1, <1>5, <2>1, OthersInOrder DEF SetMode, At, InConfig
<1>6. ASSUME NEW c \in Config, PostConfig(a, c) PROVE InOrder'
  <2>1. req'[a].pc \in {"open", "read"}
    BY <1>0, <1>6 DEF PostConfig, ReqRecord
  <2> QED
    BY <1>0, <1>6, <2>1, BeginInOrder DEF PostConfig
<1>7. CASE PostConfigReload(a)
  <2>1. req'[a].pc \in {"open", "read"}
    BY <1>0, <1>7 DEF PostConfigReload, Goto, ReqRecord
  <2> QED
    BY <1>0, <1>7, <2>1, BeginInOrder DEF PostConfigReload
<1>8. CASE OpenTmp(a)
  <2>0. InConfig(a) /\ At(a, "open")
    BY <1>8 DEF OpenTmp, At, InConfig
  <2>1. PICK i \in Inode :
            /\ IF tmp = NoFile THEN Free(i) ELSE i = tmp
            /\ tmp' = i
            /\ content' = [content EXCEPT ![i] = Empty]
            /\ req' = [req EXCEPT ![a].pc = "write", ![a].fd = i]
    BY <1>8 DEF OpenTmp
  <2>2. i # conf
    BY <2>1 DEF Free, InOrder, FilesApart
  <2>3. content'[conf] = content[conf] /\ UNCHANGED <<control, conf, edited>>
    BY <1>8, <2>1, <2>2 DEF ControlTypeOK, OpenTmp
  <2>4. FileWhole'
    BY <2>3 DEF FileWhole, InOrder
  <2>5. req'[a].pc = "write" /\ req'[a].fd = i
    BY <1>0, <2>1 DEF ReqRecord
  <2>6. ~edited => control.cfg = Parse(content[conf])
    <3>1. \A b \in Admin : ~At(b, "read") /\ ~At(b, "apply")
      BY <2>0, Alone DEF At, InConfig
    <3> QED
      BY <3>1, Zenon DEF InOrder, InStep
  <2>7. ~edited' => control'.cfg = Parse(content'[conf'])
    BY <2>3, <2>6 DEF Parse
  <2> QED
    BY <2>0, <2>1, <2>2, <2>3, <2>4, <2>5, <2>7, AloneInOrder DEF At
<1>9. CASE WriteTmp(a)
  <2>0. InConfig(a) /\ At(a, "write") /\ UNCHANGED <<control, conf, tmp, edited>>
    BY <1>9 DEF WriteTmp, At, InConfig
  <2>1. req[a].fd = tmp /\ tmp \in Inode /\ tmp # conf
    BY <2>0 DEF InOrder, FilesApart
  <2>2. \/ /\ content' = [content EXCEPT ![tmp] = req[a].cfg]
           /\ req' = [req EXCEPT ![a].pc = "rename", ![a].fd = NoFile]
        \/ Done(a) /\ UNCHANGED content
    BY <1>9, <2>1 DEF WriteTmp
  <2>3. content'[conf] = content[conf]
    BY <2>1, <2>2 DEF ControlTypeOK
  <2>4. FileWhole'
    BY <2>0, <2>3 DEF FileWhole, InOrder
  <2>5. \/ req'[a].pc = "idle"
        \/ req'[a].pc = "rename" /\ content'[tmp] \in Config
    BY <1>0, <1>1, <2>1, <2>2 DEF ReqRecord, ControlTypeOK
  <2>6. ~edited => control.cfg = Parse(content[conf])
    <3>1. \A b \in Admin : ~At(b, "read") /\ ~At(b, "apply")
      BY <2>0, Alone DEF At, InConfig
    <3> QED
      BY <3>1, Zenon DEF InOrder, InStep
  <2>7. ~edited' => control'.cfg = Parse(content'[conf'])
    BY <2>0, <2>3, <2>6 DEF Parse
  <2> QED
    BY <2>0, <2>1, <2>4, <2>5, <2>7, AloneInOrder DEF At
<1>10. CASE RenameTmp(a)
  <2>0. InConfig(a) /\ At(a, "rename") /\ tmp \in Inode /\ content[tmp] \in Config /\ tmp # conf
    BY <1>10 DEF RenameTmp, At, InConfig, InOrder, FilesApart
  <2>1. /\ conf' = tmp /\ tmp' = NoFile /\ content' = [content EXCEPT ![conf] = Empty]
        /\ Goto(a, "read") /\ UNCHANGED <<control, edited>>
    BY <1>10, <2>0, ControlAssumption DEF RenameTmp
  <2>2. content'[conf'] \in Config /\ tmp' # conf'
    BY <2>0, <2>1, ControlAssumption DEF ControlTypeOK
  <2>3. FileWhole'
    BY <2>2, ControlAssumption DEF FileWhole
  <2>4. req'[a].pc = "read"
    BY <1>0, <2>1 DEF Goto, ReqRecord
  <2> QED
    BY <2>0, <2>2, <2>3, <2>4, AloneInOrder DEF At
<1>11. CASE ReadFile(a)
  <2>0. InConfig(a) /\ At(a, "read") /\ UNCHANGED <<control, conf, tmp, content>>
    BY <1>11 DEF ReadFile, At, InConfig
  <2>1. tmp' # conf'
    BY <2>0 DEF InOrder, FilesApart
  <2>2. CASE content[conf] # Invalid
    <3>1. req' = [req EXCEPT ![a].pc = "apply", ![a].cfg = Parse(content[conf])]
      BY <1>11, <2>2 DEF ReadFile
    <3>2. req'[a].pc = "apply" /\ req'[a].cfg = Parse(content[conf])
      BY <1>0, <3>1 DEF ReqRecord
    <3>3. FileWhole'
      BY <2>0, <2>2 DEF FileWhole, InOrder
    <3>4. req'[a].cfg = Parse(content'[conf'])
      BY <2>0, <3>2 DEF Parse
    <3> QED
      BY <2>0, <2>1, <3>2, <3>3, <3>4, AloneInOrder DEF At
  <2>3. CASE content[conf] = Invalid
    <3>1. Done(a) /\ UNCHANGED edited /\ edited
      BY <1>11, <2>3 DEF ReadFile, InOrder, FileWhole
    <3>2. FileWhole' /\ edited' /\ req'[a].pc = "idle"
      BY <1>1, <2>0, <3>1 DEF FileWhole, InOrder
    <3> QED
      BY <2>0, <2>1, <3>2, AloneInOrder DEF At
  <2> QED
    BY <2>2, <2>3
<1>12. CASE ApplyReload(a)
  <2>0. InConfig(a) /\ At(a, "apply") /\ UNCHANGED <<conf, tmp, content, edited>> /\ req'[a].pc = "idle"
    BY <1>1, <1>12 DEF ApplyReload, At, InConfig
  <2>1. tmp' # conf' /\ FileWhole'
    BY <2>0 DEF InOrder, FilesApart, FileWhole
  <2>2. control'.cfg = req[a].cfg
    BY <1>12 DEF ApplyReload, Reloaded, ControlTypeOK, ControlRecord
  <2>3. ~edited' => control'.cfg = Parse(content'[conf'])
    BY <2>0, <2>2 DEF InOrder, InStep, Parse
  <2> QED
    BY <2>0, <2>1, <2>3, AloneInOrder DEF At
<1> QED
  BY <1>2, <1>3, <1>4, <1>5, <1>6, <1>7, <1>8, <1>9, <1>10, <1>11, <1>12 DEF AdminStep

\* Hand edits and restarts leave the files in order too.
LEMMA EnvironmentInOrder ==
    ASSUME ControlTypeOK, InOrder,
           (\E c \in Config \cup {Invalid} : EditFile(c)) \/ Restart
    PROVE  InOrder'
<1>1. ASSUME NEW c \in Config \cup {Invalid}, EditFile(c) PROVE InOrder'
  <2>1. UNCHANGED <<control, conf, tmp, req>> /\ edited' /\ content' = [content EXCEPT ![conf] = c]
    BY <1>1 DEF EditFile
  <2>2. OneAtOnce' /\ InStep'
    BY <2>1 DEF InOrder, OneAtOnce, InConfig, InStep
  <2>3. c # Empty /\ content'[conf] = c
    BY <2>1, ControlAssumption DEF ControlTypeOK, Empty, Invalid
  <2>4. FileWhole'
    BY <2>1, <2>3 DEF FileWhole
  <2>5. FilesApart'
    BY <2>1 DEF InOrder, FilesApart, At, ControlTypeOK
  <2> QED
    BY <2>2, <2>4, <2>5 DEF InOrder
<1>2. CASE Restart
  <2>1. UNCHANGED <<conf, tmp, content>> /\ content[conf] # Invalid
    BY <1>2 DEF Restart
  <2>2. \A a \in Admin : req'[a].pc = "idle"
    BY <1>2 DEF Restart, Idle
  <2>3. OneAtOnce' /\ FilesApart' /\ FileWhole'
    BY <2>1, <2>2 DEF InOrder, OneAtOnce, FilesApart, FileWhole, InConfig, At
  <2>4. control'.cfg = Parse(content'[conf'])
    BY <1>2, <2>1 DEF Restart, Boot, Parse
  <2>5. InStep'
    BY <2>2, <2>4, Zenon DEF InStep, At
  <2> QED
    BY <2>3, <2>5 DEF InOrder
<1> QED
  BY <1>1, <1>2

\* IInv is inductive.
LEMMA Inductive == IInv /\ [ControlNext]_controlVars => IInv'
<1> SUFFICES ASSUME IInv, [ControlNext]_controlVars PROVE IInv'
  OBVIOUS
<1>1. ControlTypeOK'
  BY TypesInductive DEF IInv
<1>2. ASSUME ~raced' PROVE InOrder'
  <2>1. ~raced
    BY <1>2, Zenon DEF ControlNext, controlVars, AdminStep, PostKill, PostMode, Preflight, SetMode, PostConfig,
           OpenTmp, WriteTmp, RenameTmp, PostConfigReload, ReadFile, ApplyReload, EditFile, Restart
  <2>2. CASE UNCHANGED controlVars
    BY <2>1, <2>2 DEF IInv, controlVars, InOrder, OneAtOnce, FilesApart, FileWhole, InStep, InConfig, At, Parse
  <2>3. CASE \E a \in Admin : AdminStep(a)
    BY <1>2, <2>1, <2>3, AdminInOrder DEF IInv
  <2>4. CASE (\E c \in Config \cup {Invalid} : EditFile(c)) \/ Restart
    BY <2>1, <2>4, EnvironmentInOrder DEF IInv
  <2> QED
    BY <2>2, <2>3, <2>4 DEF ControlNext
<1> QED
  BY <1>1, <1>2 DEF IInv

--------------------------------------------------------------------------------

\* The control record, the files and the handlers stay well formed through every
\* interleaving of admin requests, hand edits and restarts.
THEOREM ControlTyped == ControlSpec => []ControlTypeOK
<1>1. IInv => ControlTypeOK
  BY DEF IInv
<1> QED
  BY <1>1, Initially, Inductive, PTL DEF ControlSpec

\* FileConfigStore::write (config_store.rs) leaves no truncated config.toml behind as
\* long as one request writes at a time, wherever in the write the process dies.
THEOREM NeverTruncated == ControlSpec => []TruncatedOnlyByRace
<1>1. IInv => TruncatedOnlyByRace
  BY DEF IInv, InOrder, FileWhole, TruncatedOnlyByRace
<1> QED
  BY <1>1, Initially, Inductive, PTL DEF ControlSpec

\* apply_reload (routes.rs) leaves the server running what config.toml says, unless
\* requests raced or the file was edited since.
THEOREM RunningIsFile == ControlSpec => []RunningMatchesFile
<1>1. IInv => RunningMatchesFile
  <2> SUFFICES ASSUME IInv, ~raced, ~edited, \A a \in Admin : At(a, "idle")
               PROVE  control.cfg = Parse(content[conf])
    BY DEF RunningMatchesFile
  <2>1. \A a \in Admin : ~At(a, "read") /\ ~At(a, "apply")
    BY DEF At
  <2> QED
    BY <2>1 DEF IInv, InOrder, InStep
<1> QED
  BY <1>1, Initially, Inductive, PTL DEF ControlSpec

\* Only POST /v1/kill and a restart release the kill switch: apply_reload keeps it,
\* however old the configuration is that it applies.
THEOREM KillKept == ControlSpec => KillReleasedByAdmin
<1> DEFINE Step == control.kill /\ ~control'.kill => Restart \/ \E a \in Admin : PostKill(a, FALSE)
<1>1. ControlTypeOK /\ [ControlNext]_controlVars => Step \/ UNCHANGED controlVars
  <2> SUFFICES ASSUME ControlTypeOK, [ControlNext]_controlVars, control.kill, ~control'.kill
               PROVE  Restart \/ \E a \in Admin : PostKill(a, FALSE)
    BY DEF controlVars
  <2>1. control # control'
    OBVIOUS
  <2>2. ASSUME NEW a \in Admin, AdminStep(a) PROVE PostKill(a, FALSE)
    <3>1. ASSUME NEW engage \in BOOLEAN, PostKill(a, engage) PROVE PostKill(a, FALSE)
      <4>1. control'.kill = engage
        BY <3>1 DEF PostKill, WithKill, ControlTypeOK, ControlRecord
      <4>2. engage = FALSE
        BY <4>1
      <4> QED
        BY <3>1, <4>2
    <3>2. ~SetMode(a)
      BY DEF SetMode, WithMode, ControlTypeOK, ControlRecord
    <3>3. ASSUME ApplyReload(a) PROVE FALSE
      <4>1. control'.kill = (control.kill \/ req[a].cfg.kill)
        BY <3>3 DEF ApplyReload, Reloaded, ControlTypeOK, ControlRecord
      <4> QED
        BY <4>1, Zenon
    <3> QED
      BY <2>1, <2>2, <3>1, <3>2, <3>3 DEF AdminStep, PostMode, Preflight, PostConfig, OpenTmp, WriteTmp,
             RenameTmp, PostConfigReload, ReadFile
  <2> QED
    BY <2>1, <2>2 DEF ControlNext, EditFile, controlVars
<1> QED
  BY <1>1, ControlTyped, PTL DEF ControlSpec, KillReleasedByAdmin
================================================================================
