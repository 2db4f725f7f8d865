-------------------------- MODULE PhaseConfig_proofs --------------------------
(* The copy of the configuration is stale only after a load that failed or a  *)
(* commit that crossed another reload, and a dialog changes only what its     *)
(* user has changed, for any number of requests, lanes, fields and values.    *)
EXTENDS PhaseConfig, TLAPS

\* What a request has read is current as long as no commit has crossed it.
LoadedIsCurrent ==
    ~crossed => \A e \in Editors : pc[e] = "swap" => loaded[e] = rows

\* A stale copy is about to be replaced.
CacheIsCurrent ==
    ~crossed /\ ~unseen => cache = rows \/ \E e \in Editors : Reloading(e)

\* A form says what the rows say but for what is excused, an answer that is not
\* outdated does so too, and a save sends that without blanks.
SaysTheRows(a, b) ==
    b[1] \in DOMAIN a => a[b[1]][b[2]] = FormOf(rows)[b[1]][b[2]]

CleansTheRows(a, b) ==
    b[1] \in DOMAIN a => a[b[1]][b[2]] = Cleaned[FormOf(rows)[b[1]][b[2]]]

FormInv ==
    \A e \in Pages :
        /\ \A b \in Blanks \ excused[e] : SaysTheRows(form[e], b)
        /\ \A s \in Slots \ outdated[e], b \in Blanks : SaysTheRows(answer[e][s], b)
        /\ pc[e] = "upsert" =>
               \A b \in Blanks \ granted[e] : CleansTheRows(request[e], b)

ConfigInv == TypeOK /\ LoadedIsCurrent /\ CacheIsCurrent /\ FormInv

\* A form is a function on some lanes.
LEMMA FormType ==
    ASSUME NEW r, NEW lanes \in SUBSET Lanes, r \in [lanes -> Partial]
    PROVE  r \in Forms
<1> QED  BY DEF Forms

LEMMA FormLanes ==
    ASSUME NEW r \in Forms
    PROVE  DOMAIN r \subseteq Lanes /\ r \in [DOMAIN r -> Partial]
<1>1. PICK lanes \in SUBSET Lanes : r \in [lanes -> Partial]  BY DEF Forms
<1> QED  BY <1>1

\* The empty table and the empty form have their types.
LEMMA EmptyTypes == NoRows \in Overrides /\ NoForm \in Forms /\ DOMAIN NoForm = {}
<1>1. NoRows \in Overrides  BY DEF NoRows, Overrides, Partial
<1>2. NoForm \in [{} -> Partial]  BY DEF NoForm
<1>3. NoForm \in Forms  BY <1>2, FormType
<1>4. DOMAIN NoForm = {}  BY DEF NoForm
<1> QED  BY <1>1, <1>3, <1>4

\* What the server is started with has a value for every field of every lane.
LEMMA BaselineTypes == Baselines \subseteq [Lanes -> Configs]
<1> SUFFICES ASSUME NEW env \in Environments
             PROVE  BuildPhaseConfigs(env) \in [Lanes -> Configs]
    BY DEF Baselines
<1>1. env.general \in Configs /\ env.special \in Overrides
      BY DEF Environments
<1> QED  BY <1>1 DEF BuildPhaseConfigs, Configs, Overrides, Partial

\* Replacing the rows of some lanes gives a table of overrides again.
LEMMA UpsertedType ==
    ASSUME rows \in Overrides, NEW r \in Forms
    PROVE  Upserted(r) \in Overrides
<1> QED  BY FormLanes DEF Upserted, Overrides

\* Field by field: what is in force, and what the form shows of it.
LEMMA MergedAt ==
    ASSUME NEW o, NEW b \in Blanks
    PROVE  Merged(o)[b[1]][b[2]] = IF o[b[1]][b[2]] = Inherit
                                   THEN defaults[b[1]][b[2]] ELSE o[b[1]][b[2]]
<1> QED  BY DEF Merged, Blanks

LEMMA FormOfAt ==
    ASSUME NEW o, NEW b \in Blanks
    PROVE  FormOf(o)[b[1]][b[2]] =
               IF o[b[1]][b[2]] \in {Inherit, defaults[b[1]][b[2]]}
               THEN Inherit ELSE o[b[1]][b[2]]
<1>1. FormOf(o)[b[1]][b[2]] =
          IF Merged(o)[b[1]][b[2]] = defaults[b[1]][b[2]]
          THEN Inherit ELSE Merged(o)[b[1]][b[2]]
      BY DEF FormOf, Blanks
<1> QED  BY <1>1, MergedAt

LEMMA FormOfType ==
    ASSUME NEW o \in Overrides
    PROVE  FormOf(o) \in Overrides
<1> SUFFICES ASSUME NEW l \in Lanes, NEW f \in Fields
             PROVE  FormOf(o)[l][f] \in Values \cup {Inherit}
    BY DEF FormOf, Overrides, Partial
<1>1. << l, f >> \in Blanks  BY DEF Blanks
<1>2. FormOf(o)[l][f] \in {Inherit, o[l][f]}  BY <1>1, FormOfAt
<1> QED  BY <1>2 DEF Overrides, Partial

\* The lane that Snapshot adds to an answer.
LEMMA AnswerType ==
    ASSUME cache \in Overrides, NEW a \in Forms, NEW l \in Lanes
    PROVE  WithLane(a, l) \in Forms /\ DOMAIN WithLane(a, l) = DOMAIN a \cup {l}
<1>1. FormOf(cache)[l] \in Partial  BY FormOfType DEF Overrides
<1>2. DOMAIN a \cup {l} \subseteq Lanes /\ \A k \in DOMAIN a : a[k] \in Partial
      BY FormLanes
<1>3. WithLane(a, l) \in [DOMAIN a \cup {l} -> Partial]
      BY <1>1, <1>2 DEF WithLane
<1> QED  BY <1>2, <1>3, FormType

\* The field that Edit changes.
LEMMA EditType ==
    ASSUME NEW a \in Forms, NEW l \in DOMAIN a, NEW f \in Fields,
           NEW v \in Values \cup {Inherit}
    PROVE  /\ WithField(a, l, f, v) \in Forms
           /\ DOMAIN WithField(a, l, f, v) = DOMAIN a
           /\ << l, f >> \in Blanks
           /\ \A b \in Blanks \ {<< l, f >>} : b[1] \in DOMAIN a =>
                  WithField(a, l, f, v)[b[1]][b[2]] = a[b[1]][b[2]]
<1>1. DOMAIN a \subseteq Lanes /\ a \in [DOMAIN a -> Partial]  BY FormLanes
<1>2. WithField(a, l, f, v) \in [DOMAIN a -> Partial]  BY <1>1 DEF Partial, WithField
<1>3. WithField(a, l, f, v) \in Forms  BY <1>1, <1>2, FormType
<1>4. << l, f >> \in Blanks  BY <1>1 DEF Blanks
<1>5. ASSUME NEW b \in Blanks \ {<< l, f >>}, b[1] \in DOMAIN a
      PROVE  WithField(a, l, f, v)[b[1]][b[2]] = a[b[1]][b[2]]
  <2>1. b[1] # l \/ b[2] # f  BY DEF Blanks
  <2>2. a[l] \in Partial  BY <1>1
  <2> QED  BY <1>1, <1>5, <2>1, <2>2 DEF Partial, Blanks, WithField
<1> QED  BY <1>2, <1>3, <1>4, <1>5

\* The form, without the blanks around its values.
LEMMA CleanedType ==
    ASSUME NEW a \in Forms
    PROVE  [l \in DOMAIN a |-> [f \in Fields |-> Cleaned[a[l][f]]]] \in Forms
<1>1. DOMAIN a \subseteq Lanes /\ a \in [DOMAIN a -> Partial]  BY FormLanes
<1> DEFINE r == [l \in DOMAIN a |-> [f \in Fields |-> Cleaned[a[l][f]]]]
<1>2. r \in [DOMAIN a -> Partial]  BY <1>1, ValuesAssumption DEF Partial
<1> QED  BY <1>1, <1>2, FormType

\* What the end of an answer leaves behind.
LEMMA OverTypes ==
    ASSUME TypeOK, NEW e \in Pages, NEW s \in Slots, Over(e, s)
    PROVE  /\ fetching' \in [Pages -> SUBSET Loads]
           /\ loading' \in [Pages -> BOOLEAN]
           /\ answer' \in [Pages -> [Slots -> Forms]]
           /\ outdated' \in [Pages -> SUBSET Slots]
           /\ pc' \in [Editors -> {"idle", "upsert", "load", "swap", "reply"}]
<1> USE DEF TypeOK, Over
<1>1. NoForm \in Forms  BY EmptyTypes
<1>2. answer' \in [Pages -> [Slots -> Forms]]  BY <1>1
<1>3. loading' \in [Pages -> BOOLEAN]  OBVIOUS
<1>4. pc' \in [Editors -> {"idle", "upsert", "load", "swap", "reply"}]
      OBVIOUS
<1>5. fetching' \in [Pages -> SUBSET Loads] /\ outdated' \in [Pages -> SUBSET Slots]
      OBVIOUS
<1> QED  BY <1>2, <1>3, <1>4, <1>5

\* The types are inductive by themselves: the dialogs, and the saves.
LEMMA DialogTypes == ASSUME TypeOK, NEW e \in Pages, Dialog(e) PROVE TypeOK'
<1> USE DEF TypeOK
<1>p. Pages \subseteq Editors  BY DEF Editors
<1>1. CASE Open(e)  BY <1>1 DEF Open, history
<1>2. CASE Edit(e)
  <2>1. PICK l \in DOMAIN form[e], f \in Fields, v \in Values \cup {Inherit} :
            /\ form' = [form EXCEPT ![e] = WithField(@, l, f, v)]
            /\ excused' = [excused EXCEPT ![e] = @ \cup {<< l, f >>}]
        BY <1>2 DEF Edit
  <2>2. WithField(form[e], l, f, v) \in Forms /\ << l, f >> \in Blanks
        BY EditType
  <2>3. form' \in [Pages -> Forms]  BY <2>1, <2>2
  <2>4. excused' \in [Pages -> SUBSET Blanks]  BY <2>1, <2>2
  <2> QED  BY <1>2, <2>3, <2>4 DEF Edit, history
<1>3. CASE Cancel(e)  BY <1>3 DEF Cancel, history
<1>4. CASE Save(e)
  <2>1. form[e] \in Forms  OBVIOUS
  <2>2. request' \in [Editors -> Forms]  BY <1>4, <2>1, CleanedType DEF Save
  <2> QED  BY <1>p, <1>4, <2>2 DEF Save, Goto, dialog, history
<1>5. ASSUME NEW s \in Slots, Snapshot(e, s) PROVE TypeOK'
  <2>1. PICK l \in Lanes \ DOMAIN answer[e][s] :
            answer' = [answer EXCEPT ![e][s] = WithLane(@, l)]
        BY <1>5 DEF Snapshot
  <2>a. answer[e][s] \in Forms /\ cache \in Overrides  OBVIOUS
  <2>2. WithLane(answer[e][s], l) \in Forms  BY <2>a, AnswerType
  <2>3. answer' \in [Pages -> [Slots -> Forms]]  BY <2>1, <2>2
  <2>4. outdated' \in [Pages -> SUBSET Slots]  BY <1>5 DEF Snapshot
  <2> QED  BY <1>5, <2>3, <2>4 DEF Snapshot, history
<1>6. ASSUME NEW s \in Slots, Show(e, s) PROVE TypeOK'
  <2>1. Over(e, s)  BY <1>6 DEF Show
  <2>2. form' \in [Pages -> Forms] /\ open' \in [Pages -> BOOLEAN]
        BY <1>6 DEF Show
  <2>3. excused' \in [Pages -> SUBSET Blanks]  BY <1>6 DEF Show
  <2>4. UNCHANGED << defaults, rows, cache, request, loaded, granted, history >>
        BY <2>1 DEF Over
  <2> QED  BY <2>1, <2>2, <2>3, <2>4, OverTypes DEF history
<1>7. ASSUME NEW s \in Slots, AnswerLost(e, s) PROVE TypeOK'
  <2>1. Over(e, s) /\ UNCHANGED << open, form, excused >>
        BY <1>7 DEF AnswerLost
  <2>2. UNCHANGED << defaults, rows, cache, request, loaded, granted, history >>
        BY <2>1 DEF Over
  <2> QED  BY <2>1, <2>2, OverTypes DEF history
<1> QED  BY <1>1, <1>2, <1>3, <1>4, <1>5, <1>6, <1>7 DEF Dialog

LEMMA TypeInductive == TypeOK /\ [Next]_vars => TypeOK'
<1> SUFFICES ASSUME TypeOK, [Next]_vars PROVE TypeOK'  OBVIOUS
<1> USE DEF TypeOK
<1>0. NoRows \in Overrides /\ NoForm \in Forms  BY EmptyTypes
<1>p. Pages \subseteq Editors  BY DEF Editors
<1>1. CASE Restart
  <2>1. defaults' \in [Lanes -> Configs]  BY <1>1, BaselineTypes DEF Restart
  <2>2. answer' \in [Pages -> [Slots -> Forms]]  BY <1>0, <1>1 DEF Restart
  <2>3. outdated' \in [Pages -> SUBSET Slots] /\ excused' \in [Pages -> SUBSET Blanks]
        BY <1>1 DEF Restart
  <2>4. pc' \in [Editors -> {"idle", "upsert", "load", "swap", "reply"}]
        BY <1>1 DEF Restart
  <2> QED  BY <1>0, <1>1, <2>1, <2>2, <2>3, <2>4 DEF Restart
<1>2. ASSUME NEW e \in Pages, Dialog(e) PROVE TypeOK'
      BY <1>2, DialogTypes
<1>3. ASSUME NEW e \in Editors, Put(e) PROVE TypeOK'
      BY <1>3 DEF Put, Goto, dialog, history
<1>4. ASSUME NEW e \in Editors, Upsert(e) PROVE TypeOK'
  <2>1. rows' \in Overrides  BY <1>4, UpsertedType DEF Upsert, Committed
  <2>2. /\ granted' \in [Editors -> SUBSET Blanks]
        /\ excused' \in [Pages -> SUBSET Blanks]
        /\ outdated' \in [Pages -> SUBSET Slots]
        BY <1>4 DEF Upsert, Committed
  <2> QED  BY <1>0, <1>4, <2>1, <2>2 DEF Upsert, Committed, Goto
<1>5. ASSUME NEW e \in Editors, UpsertFails(e) PROVE TypeOK'
      BY <1>0, <1>5 DEF UpsertFails, Refuse, Goto, Forget, dialog, history
<1>6. ASSUME NEW e \in Editors, Load(e) PROVE TypeOK'
      BY <1>6 DEF Load, Goto, dialog, history
<1>7. ASSUME NEW e \in Editors, LoadFails(e) PROVE TypeOK'
      BY <1>0, <1>7 DEF LoadFails, Refuse, Goto, Forget, dialog
<1>8. ASSUME NEW e \in Editors, Swap(e) PROVE TypeOK'
      BY <1>0, <1>8 DEF Swap, Goto, Forget, dialog, history
<1>9. CASE UNCHANGED vars  BY <1>9 DEF vars, dialog, history
<1> QED  BY <1>1, <1>2, <1>3, <1>4, <1>5, <1>6, <1>7, <1>8, <1>9 DEF Next

\* What a dialog does concerns no reload.
LEMMA DialogIsApart ==
    ASSUME TypeOK, NEW e \in Pages, Dialog(e)
    PROVE  /\ UNCHANGED << defaults, rows, cache, loaded, crossed, unseen >>
           /\ \A x \in Editors : pc[x] \in {"load", "swap"} => pc'[x] = pc[x]
           /\ \A x \in Editors : pc'[x] = pc[x] \/ pc'[x] \in {"idle", "upsert"}
<1> USE DEF TypeOK
<1>p. Pages \subseteq Editors  BY DEF Editors
<1>1. CASE Open(e) \/ Edit(e) \/ Cancel(e)
      BY <1>1 DEF Open, Edit, Cancel, history
<1>2. CASE Save(e)  BY <1>2 DEF Save, Goto, history
<1>3. ASSUME NEW s \in Slots, Snapshot(e, s)
      PROVE  UNCHANGED << defaults, rows, cache, loaded, crossed, unseen, pc >>
      BY <1>3 DEF Snapshot, history
<1>4. ASSUME NEW s \in Slots, Show(e, s) \/ AnswerLost(e, s)
      PROVE  /\ UNCHANGED << defaults, rows, cache, loaded, crossed, unseen >>
             /\ \/ pc' = pc
                \/ pc[e] = "reply" /\ pc' = [pc EXCEPT ![e] = "idle"]
  <2>1. Over(e, s) /\ s \in Awaited(e)  BY <1>4 DEF Show, AnswerLost
  <2>2. s = "reply" => pc[e] = "reply"
        BY <2>1, LoadsAssumption DEF Awaited
  <2>3. pc' = IF s = "reply" THEN [pc EXCEPT ![e] = "idle"] ELSE pc
        BY <2>1 DEF Over
  <2>4. UNCHANGED << defaults, rows, cache, loaded, crossed, unseen >>
        BY <2>1 DEF Over, history
  <2> QED  BY <2>2, <2>3, <2>4
<1> QED  BY <1>1, <1>2, <1>3, <1>4 DEF Dialog

\* No step makes the copy stale without leaving a trace in the history.
LEMMA CopyStep ==
    TypeOK /\ LoadedIsCurrent /\ CacheIsCurrent /\ [Next]_vars
        => LoadedIsCurrent' /\ CacheIsCurrent'
<1> SUFFICES ASSUME TypeOK, LoadedIsCurrent, CacheIsCurrent, [Next]_vars
             PROVE  LoadedIsCurrent' /\ CacheIsCurrent'
    OBVIOUS
<1> USE DEF LoadedIsCurrent, CacheIsCurrent, Reloading, TypeOK
<1>1. CASE Restart  BY <1>1 DEF Restart
<1>2. ASSUME NEW e \in Pages, Dialog(e)
      PROVE  LoadedIsCurrent' /\ CacheIsCurrent'
  <2>1. /\ UNCHANGED << rows, cache, loaded, crossed, unseen >>
        /\ \A x \in Editors : pc[x] \in {"load", "swap"} => pc'[x] = pc[x]
        /\ \A x \in Editors : pc'[x] = pc[x] \/ pc'[x] \in {"idle", "upsert"}
        BY <1>2, DialogIsApart
  <2>2. LoadedIsCurrent'  BY <2>1
  <2>3. CacheIsCurrent'  BY <2>1
  <2> QED  BY <2>2, <2>3
<1>3. ASSUME NEW e \in Editors, Put(e)
      PROVE  LoadedIsCurrent' /\ CacheIsCurrent'
      BY <1>3 DEF Put, Goto, history
<1>4. ASSUME NEW e \in Editors, Upsert(e)
      PROVE  LoadedIsCurrent' /\ CacheIsCurrent'
  <2>1. pc'[e] = "load" /\ \A x \in Editors \ {e} : pc'[x] = pc[x]
        BY <1>4 DEF Upsert, Goto
  <2>2. LoadedIsCurrent'  BY <1>4, <2>1 DEF Upsert, Committed
  <2>3. CacheIsCurrent'  BY <2>1
  <2> QED  BY <2>2, <2>3
<1>5. ASSUME NEW e \in Editors, UpsertFails(e)
      PROVE  LoadedIsCurrent' /\ CacheIsCurrent'
      BY <1>5 DEF UpsertFails, Refuse, Goto, Forget, history
<1>6. ASSUME NEW e \in Editors, Load(e)
      PROVE  LoadedIsCurrent' /\ CacheIsCurrent'
      BY <1>6 DEF Load, Goto, history
<1>7. ASSUME NEW e \in Editors, LoadFails(e)
      PROVE  LoadedIsCurrent' /\ CacheIsCurrent'
      BY <1>7 DEF LoadFails, Refuse, Goto, Forget
<1>8. ASSUME NEW e \in Editors, Swap(e)
      PROVE  LoadedIsCurrent' /\ CacheIsCurrent'
      BY <1>8 DEF Swap, Goto, Forget, history
<1>9. CASE UNCHANGED vars  BY <1>9 DEF vars, history
<1> QED  BY <1>1, <1>2, <1>3, <1>4, <1>5, <1>6, <1>7, <1>8, <1>9 DEF Next

\* The form depends on the rows and the environment only.
LEMMA FormOfSame ==
    ASSUME defaults' = defaults, rows' = rows
    PROVE  FormOf(rows)' = FormOf(rows)
<1> QED  BY DEF FormOf, Merged

\* The empty form says nothing of any field.
LEMMA EmptySays == ASSUME NEW b PROVE SaysTheRows(NoForm, b)
<1> QED  BY EmptyTypes DEF SaysTheRows

\* The answers to the dialogs: each lane is read from a copy that says what the
\* rows say, or marks the answer.
LEMMA SnapshotStep ==
    ASSUME TypeOK, FormInv, NEW e \in Pages, NEW s \in Slots, Snapshot(e, s)
    PROVE  FormInv'
<1> USE DEF TypeOK
<1>s. UNCHANGED << defaults, rows, cache, pc, request, granted, form, excused >>
      BY DEF Snapshot
<1>f. FormOf(rows)' = FormOf(rows)  BY <1>s, FormOfSame
<1>1. PICK l \in Lanes \ DOMAIN answer[e][s] :
          answer' = [answer EXCEPT ![e][s] = WithLane(@, l)]
      BY DEF Snapshot
<1>a. answer[e][s] \in Forms /\ cache \in Overrides  OBVIOUS
<1>2. DOMAIN WithLane(answer[e][s], l) = DOMAIN answer[e][s] \cup {l}
      BY <1>a, AnswerType
<1>3. ASSUME NEW x \in Pages, NEW t \in Slots \ outdated'[x], NEW b \in Blanks
      PROVE  SaysTheRows(answer'[x][t], b)
  <2>1. t \notin outdated[x]  BY <1>3 DEF Snapshot
  <2>2. SaysTheRows(answer[x][t], b)  BY <2>1 DEF FormInv
  <2>3. CASE x # e \/ t # s
    <3>1. answer'[x][t] = answer[x][t]  BY <1>1, <2>3
    <3> QED  BY <2>2, <3>1
  <2>4. CASE x = e /\ t = s
    <3>1. cache = rows  BY <1>3, <2>4 DEF Snapshot
    <3>2. answer'[x][t] = WithLane(answer[e][s], l)  BY <1>1, <2>4
    <3> QED  BY <1>2, <2>2, <2>4, <3>1, <3>2 DEF WithLane, SaysTheRows
  <2> QED  BY <2>3, <2>4
<1> QED  BY <1>s, <1>f, <1>3 DEF FormInv, SaysTheRows, CleansTheRows

\* An answer that is shown becomes the form, and its mark an excuse.
LEMMA OverStep ==
    ASSUME TypeOK, FormInv, NEW e \in Pages, NEW s \in Slots,
           Show(e, s) \/ AnswerLost(e, s)
    PROVE  FormInv'
<1> USE DEF TypeOK
<1>p. Pages \subseteq Editors  BY DEF Editors
<1>o. Over(e, s)  BY DEF Show, AnswerLost
<1>s. UNCHANGED << defaults, rows, request, granted >>  BY <1>o DEF Over
<1>f. FormOf(rows)' = FormOf(rows)  BY <1>s, FormOfSame
<1>1. ASSUME NEW x \in Pages, NEW t \in Slots \ outdated'[x], NEW b \in Blanks
      PROVE  SaysTheRows(answer'[x][t], b)
  <2>1. CASE x # e \/ t # s
    <3>1. answer'[x][t] = answer[x][t] /\ t \notin outdated[x]
          BY <1>o, <1>1, <2>1 DEF Over
    <3> QED  BY <3>1 DEF FormInv
  <2>2. CASE x = e /\ t = s
    <3>1. answer'[x][t] = NoForm  BY <1>o, <2>2 DEF Over
    <3> QED  BY <3>1, EmptySays
  <2> QED  BY <2>1, <2>2
<1>2. ASSUME NEW x \in Pages, NEW b \in Blanks \ excused'[x]
      PROVE  SaysTheRows(form'[x], b)
  <2>1. CASE form'[x] = form[x] /\ excused'[x] = excused[x]
        BY <1>2, <2>1 DEF FormInv
  <2>2. CASE x = e /\ Show(e, s)
    <3>1. form'[x] = answer[e][s]  BY <2>2 DEF Show
    <3>2. s \notin outdated[e]  BY <1>2, <2>2 DEF Show
    <3> QED  BY <3>1, <3>2 DEF FormInv
  <2>3. x # e \/ AnswerLost(e, s) => form'[x] = form[x] /\ excused'[x] = excused[x]
        BY DEF Show, AnswerLost
  <2> QED  BY <2>1, <2>2, <2>3
<1>3. ASSUME NEW x \in Pages, pc'[x] = "upsert" PROVE pc[x] = "upsert"
      BY <1>o, <1>p, <1>3 DEF Over
<1> QED  BY <1>s, <1>f, <1>1, <1>2, <1>3 DEF FormInv, SaysTheRows, CleansTheRows

\* A field that its user changes is excused, and a save sends what the form
\* says.
LEMMA DialogStep ==
    ASSUME TypeOK, FormInv, NEW e \in Pages, Dialog(e)
    PROVE  FormInv'
<1> USE DEF TypeOK
<1>p. Pages \subseteq Editors  BY DEF Editors
<1>s. defaults' = defaults /\ rows' = rows  BY DialogIsApart
<1>f. FormOf(rows)' = FormOf(rows)  BY <1>s, FormOfSame
<1>1. CASE Open(e) \/ Cancel(e)
  <2>1. UNCHANGED << pc, request, granted, form, excused, answer, outdated >>
        BY <1>1 DEF Open, Cancel
  <2> QED  BY <1>f, <2>1 DEF FormInv, SaysTheRows, CleansTheRows
<1>2. CASE Edit(e)
  <2>1. PICK l \in DOMAIN form[e], f \in Fields, v \in Values \cup {Inherit} :
            /\ form' = [form EXCEPT ![e] = WithField(@, l, f, v)]
            /\ excused' = [excused EXCEPT ![e] = @ \cup {<< l, f >>}]
        BY <1>2 DEF Edit
  <2>2. /\ DOMAIN WithField(form[e], l, f, v) = DOMAIN form[e]
        /\ \A b \in Blanks \ {<< l, f >>} : b[1] \in DOMAIN form[e] =>
               WithField(form[e], l, f, v)[b[1]][b[2]] = form[e][b[1]][b[2]]
    <3>1. form[e] \in Forms  OBVIOUS
    <3> HIDE DEF TypeOK
    <3> QED  BY <3>1, EditType
  <2>3. UNCHANGED << pc, request, granted, answer, outdated >>
        BY <1>2 DEF Edit
  <2>4. ASSUME NEW x \in Pages, NEW b \in Blanks \ excused'[x]
        PROVE  SaysTheRows(form'[x], b)
    <3>1. b \notin excused[x]  BY <2>1, <2>4
    <3>2. SaysTheRows(form[x], b)  BY <3>1 DEF FormInv
    <3>3. CASE x # e  BY <2>1, <3>2, <3>3
    <3>4. CASE x = e
      <4>1. b # << l, f >> /\ form'[x] = WithField(form[e], l, f, v)
            BY <2>1, <2>4, <3>4
      <4> QED  BY <2>2, <3>2, <3>4, <4>1 DEF SaysTheRows
    <3> QED  BY <3>3, <3>4
  <2> QED  BY <1>f, <2>3, <2>4 DEF FormInv, SaysTheRows, CleansTheRows
<1>3. CASE Save(e)
  <2>1. UNCHANGED << form, excused, answer, outdated >>
        BY <1>3 DEF Save, dialog
  <2>2. ASSUME NEW x \in Pages, pc'[x] = "upsert", NEW b \in Blanks \ granted'[x]
        PROVE  CleansTheRows(request'[x], b)
    <3>1. CASE x # e
      <4>1. pc[x] = "upsert" /\ request'[x] = request[x] /\ granted'[x] = granted[x]
            BY <1>3, <1>p, <2>2, <3>1 DEF Save, Goto
      <4> QED  BY <2>2, <4>1 DEF FormInv
    <3>2. CASE x = e
      <4>1. b \notin excused[e]  BY <1>3, <1>p, <2>2, <3>2 DEF Save
      <4>2. request'[e] = [l \in DOMAIN form[e] |->
                              [f \in Fields |-> Cleaned[form[e][l][f]]]]
            BY <1>3, <1>p DEF Save
      <4>3. SaysTheRows(form[e], b)  BY <4>1 DEF FormInv
      <4> QED  BY <3>2, <4>2, <4>3 DEF SaysTheRows, CleansTheRows, Blanks
    <3> QED  BY <3>1, <3>2
  <2> QED  BY <1>f, <2>1, <2>2 DEF FormInv, SaysTheRows, CleansTheRows
<1> QED  BY <1>1, <1>2, <1>3, SnapshotStep, OverStep DEF Dialog

\* A commit leaves nothing current but the rows.
LEMMA CommitStep ==
    ASSUME TypeOK, NEW e \in Editors, Upsert(e)
    PROVE  FormInv'
<1> USE DEF TypeOK
<1>p. Pages \subseteq Editors  BY DEF Editors
<1>1. ASSUME NEW x \in Pages, NEW s \in Slots \ outdated'[x], NEW b \in Blanks
      PROVE  SaysTheRows(answer[x][s], b)'
  <2>1. DOMAIN answer'[x][s] = {}  BY <1>1 DEF Upsert, Committed
  <2> QED  BY <2>1 DEF SaysTheRows
<1>2. \A x \in Pages : excused'[x] = Blanks  BY DEF Upsert, Committed
<1>3. \A x \in Pages : pc'[x] = "upsert" => granted'[x] = Blanks
      BY <1>p DEF Upsert, Committed, Goto
<1> QED  BY <1>1, <1>2, <1>3 DEF FormInv

\* A save writes the form: what its user left alone is the same afterwards, but
\* for blanks around it.
LEMMA SaveStep ==
    ASSUME TypeOK, FormInv, NEW e \in Pages, Upsert(e), NEW b \in Blanks \ granted[e]
    PROVE  \/ Merged(rows')[b[1]][b[2]] = Merged(rows)[b[1]][b[2]]
           \/ /\ rows'[b[1]][b[2]] = Cleaned[rows[b[1]][b[2]]]
              /\ rows'[b[1]][b[2]] # rows[b[1]][b[2]]
<1> USE DEF TypeOK
<1> DEFINE old == rows[b[1]][b[2]]
           set == defaults[b[1]][b[2]]
           new == rows'[b[1]][b[2]]
<1>1. b[1] \in Lanes /\ pc[e] = "upsert" /\ rows' = Upserted(request[e])
      BY DEF Blanks, Upsert, Committed
<1>2. CleansTheRows(request[e], b)  BY <1>1 DEF FormInv
<1>3. rows'[b[1]] = IF b[1] \in DOMAIN request[e] THEN request[e][b[1]]
                                                  ELSE rows[b[1]]
      BY <1>1 DEF Upserted
<1>4. FormOf(rows)[b[1]][b[2]] = IF old \in {Inherit, set} THEN Inherit ELSE old
      BY FormOfAt
<1>5. \/ new = old
      \/ old \in {Inherit, set} /\ new = Inherit
      \/ new = Cleaned[old]
      BY <1>2, <1>3, <1>4, ValuesAssumption DEF CleansTheRows
<1>6. /\ Merged(rows)[b[1]][b[2]] = IF old = Inherit THEN set ELSE old
      /\ Merged(rows')[b[1]][b[2]] = IF new = Inherit THEN set ELSE new
      BY MergedAt
<1> QED  BY <1>5, <1>6

\* The dialogs throughout.
LEMMA FormStep == TypeOK /\ FormInv /\ [Next]_vars => FormInv'
<1> SUFFICES ASSUME TypeOK, FormInv, [Next]_vars PROVE FormInv'  OBVIOUS
<1> USE DEF TypeOK
<1>p. Pages \subseteq Editors  BY DEF Editors
<1>1. CASE Restart
  <2>1. \A x \in Pages : pc'[x] # "upsert"  BY <1>p, <1>1 DEF Restart
  <2>2. CASE defaults' = defaults
    <3>1. FormOf(rows)' = FormOf(rows)  BY <1>1, <2>2, FormOfSame DEF Restart
    <3>2. ASSUME NEW x \in Pages, NEW s \in Slots \ outdated'[x], NEW b \in Blanks
          PROVE  SaysTheRows(answer'[x][s], b)
      <4>1. CASE DOMAIN answer'[x][s] = {}  BY <4>1 DEF SaysTheRows
      <4>2. CASE DOMAIN answer'[x][s] # {}
        <5>1. answer'[x][s] = answer[x][s]
              BY <1>1, <4>2, EmptyTypes DEF Restart
        <5>2. s \notin outdated[x]  BY <1>1, <3>2, <4>2 DEF Restart
        <5> QED  BY <5>1, <5>2 DEF FormInv
      <4> QED  BY <4>1, <4>2
    <3>3. \A x \in Pages : form'[x] = form[x] /\ excused'[x] = excused[x]
          BY <1>1, <2>2 DEF Restart
    <3> QED  BY <2>1, <3>1, <3>2, <3>3 DEF FormInv, SaysTheRows
  <2>3. CASE defaults' # defaults
    <3>1. \A x \in Pages : excused'[x] = Blanks  BY <1>1, <2>3 DEF Restart
    <3>2. \A x \in Pages : \A s \in Slots \ outdated'[x] : DOMAIN answer'[x][s] = {}
          BY <1>1, <2>3 DEF Restart
    <3> QED  BY <2>1, <3>1, <3>2 DEF FormInv, SaysTheRows
  <2> QED  BY <2>2, <2>3
<1>2. ASSUME NEW e \in Pages, Dialog(e) PROVE FormInv'
      BY <1>2, DialogStep
<1>3. ASSUME NEW e \in Editors, Upsert(e) PROVE FormInv'
      BY <1>3, CommitStep
<1>4. ASSUME NEW e \in Editors,
             \/ Put(e) \/ UpsertFails(e) \/ Load(e) \/ LoadFails(e) \/ Swap(e)
      PROVE  FormInv'
  <2>1. UNCHANGED << defaults, rows, form, excused, answer, outdated >>
        BY <1>4 DEF Put, UpsertFails, Load, LoadFails, Swap, dialog
  <2>2. FormOf(rows)' = FormOf(rows)  BY <2>1, FormOfSame
  <2>3. ASSUME NEW x \in Pages, pc'[x] = "upsert"
        PROVE  /\ pc[x] = "upsert" /\ request'[x] = request[x]
               /\ granted'[x] = granted[x]
        BY <1>p, <1>4, <2>3, EditorsAssumption
        DEF Put, UpsertFails, Load, LoadFails, Swap, Goto, Refuse, Forget
  <2> QED  BY <2>1, <2>2, <2>3 DEF FormInv, SaysTheRows, CleansTheRows
<1>5. CASE UNCHANGED vars
  <2>1. FormOf(rows)' = FormOf(rows)  BY <1>5, FormOfSame DEF vars
  <2> QED  BY <1>5, <2>1 DEF vars, dialog, FormInv, SaysTheRows, CleansTheRows
<1> QED  BY <1>1, <1>2, <1>3, <1>4, <1>5 DEF Next

\* The invariant is inductive, and holds when the server first starts.
LEMMA ConfigInvStep == ConfigInv /\ [Next]_vars => ConfigInv'
<1> QED  BY TypeInductive, CopyStep, FormStep DEF ConfigInv

LEMMA ConfigInvInit == Init => ConfigInv
<1> SUFFICES ASSUME Init PROVE ConfigInv  OBVIOUS
<1>1. TypeOK  BY EmptyTypes, BaselineTypes DEF Init, TypeOK
<1>2. LoadedIsCurrent /\ CacheIsCurrent
      BY DEF Init, LoadedIsCurrent, CacheIsCurrent
<1>3. FormInv
      BY EmptyTypes DEF Init, FormInv, SaysTheRows, Editors
<1> QED  BY <1>1, <1>2, <1>3 DEF ConfigInv

\* The invariant holds throughout.
THEOREM ConfigInvariance == Spec => []ConfigInv
<1> QED  BY ConfigInvInit, ConfigInvStep, PTL DEF Spec

\* The table, the copy and what requests and dialogs hold are always overrides
\* of lanes.
THEOREM ConfigTypeCorrect == Spec => []TypeOK
<1>1. ConfigInv => TypeOK  BY DEF ConfigInv
<1> QED  BY <1>1, ConfigInvariance, PTL

\* Without failed loads and crossing commits the dispatches use the rows.
THEOREM StaleForTwoCauses == Spec => []StaleOnlyIfCrossed
<1>1. ConfigInv => StaleOnlyIfCrossed
  <2> SUFFICES ASSUME ConfigInv, Settled, ~crossed, ~unseen
               PROVE  Merged(cache) = Merged(rows)
      BY DEF StaleOnlyIfCrossed
  <2>1. cache = rows  BY DEF ConfigInv, CacheIsCurrent, Settled
  <2> QED  BY <2>1
<1> QED  BY <1>1, ConfigInvariance, PTL

\* A dialog whose form says what the rows say changes what is in force only in
\* the fields that its user has changed, or to drop blanks, whatever loads and
\* saves of it are under way.
THEOREM DialogsSaveTheirEdits == Spec => SavesWhatWasEdited
<1> DEFINE Kept(b) ==
               LET old == rows[b[1]][b[2]]
                   new == rows'[b[1]][b[2]]
               IN  \/ Merged(rows')[b[1]][b[2]] = Merged(rows)[b[1]][b[2]]
                   \/ new = Cleaned[old] /\ new # old
           Saves == \A e \in Pages : pc[e] = "upsert" /\ pc'[e] = "load" =>
                       \A b \in Blanks \ granted[e] : Kept(b)
<1>1. ConfigInv /\ [Next]_vars => [Saves]_vars
  <2> SUFFICES ASSUME ConfigInv, Next, NEW e \in Pages, pc[e] = "upsert",
                      pc'[e] = "load", NEW b \in Blanks \ granted[e]
               PROVE  Kept(b)
      OBVIOUS
  <2>1. Upsert(e)
    <3>p. Pages \subseteq Editors  BY DEF Editors
    <3> USE DEF ConfigInv, TypeOK
    <3>1. ~Restart  BY <3>p DEF Restart
    <3>2. ASSUME NEW x \in Pages, Dialog(x) PROVE FALSE
      <4>1. pc'[e] = pc[e] \/ pc'[e] \in {"idle", "upsert"}
            BY <3>p, <3>2, DialogIsApart
      <4> QED  BY <4>1
    <3>3. PICK x \in Editors : Put(x) \/ Upsert(x) \/ UpsertFails(x)
                               \/ Load(x) \/ LoadFails(x) \/ Swap(x)
          BY <3>1, <3>2 DEF Next
    <3>4. x = e
          BY <3>p, <3>3 DEF Put, Upsert, UpsertFails, Load, LoadFails, Swap,
                            Goto, Refuse
    <3>5. Upsert(e)
          BY <3>p, <3>3, <3>4, EditorsAssumption
          DEF Put, UpsertFails, Load, LoadFails, Swap, Goto, Refuse
    <3> QED  BY <3>5
  <2>2. TypeOK /\ FormInv  BY DEF ConfigInv
  <2> QED  BY <2>1, <2>2, SaveStep
<1> QED  BY <1>1, ConfigInvariance, PTL DEF Spec, SavesWhatWasEdited
=============================================================================
