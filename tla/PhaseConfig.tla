----------------------------- MODULE PhaseConfig -----------------------------
(* The configuration of the lanes: the environment, rows of overrides in the  *)
(* database, the copy of them that PhaseConfigProviderMemory keeps for the    *)
(* dispatches, and the form in which a user edits them.  Saving commits the   *)
(* overrides of a request and then, in two more steps, loads all rows and     *)
(* puts them in the place of the copy; several requests may be at it          *)
(* together.  A row whose fields are empty and a missing row mean the same,   *)
(* to inherit, and are not told apart.                                        *)
CONSTANTS Pages,     \* browsers with the dialog
          Clients,   \* programs that use the REST interface
          Lanes,     \* the lanes that can be configured
          Loads,     \* of one dialog that may be under way together (a bound)
          Fields,    \* of a configuration: model, command, retries, timeout
          Values,    \* of a field
          Inherit,   \* the empty field
          Cleaned    \* what a dialog sends for a value: no blanks around it

Editors == Pages \cup Clients
Configs == [Fields -> Values]
Partial == [Fields -> Values \cup {Inherit}]
Overrides == [Lanes -> Partial]

Slots == Loads \cup {"reply"}

ASSUME ValuesAssumption == /\ Inherit \notin Values
                           /\ Cleaned \in [Values \cup {Inherit} ->
                                             Values \cup {Inherit}]
                           /\ Cleaned[Inherit] = Inherit
ASSUME LoadsAssumption == "reply" \notin Loads
ASSUME EditorsAssumption == Pages \cap Clients = {}

VARIABLES defaults,   \* what the environment says of each lane
          rows,       \* the table phase_configs
          cache,      \* the copy of it in memory
          pc,         \* where each request is that saves
          request,    \* the lanes it sets, and their overrides
          loaded,     \* the rows it has read
          open,       \* each dialog is open
          loading,    \* it waits for a load, so that it cannot save
          fetching,   \* its loads under way: one for each time it opened
          answer,     \* the lanes that the answers to them hold so far
          form,       \* what a dialog shows: no lane before the first load
          excused,    \* (history) where the form may differ from the rows: its
                      \*   user has changed the field, or the form is outdated
          granted,    \* (history) what was excused when a save was sent
          outdated,   \* (history) the answers that are not what the rows say
          crossed,    \* (history) a commit fell between a load and its swap
          unseen      \* (history) a load failed after its commit

dialog == << open, loading, fetching, answer, form, excused, outdated >>
history == << crossed, unseen >>
vars == << defaults, rows, cache, pc, request, loaded, granted, dialog, history >>

Forms == UNION { [lanes -> Partial] : lanes \in SUBSET Lanes }
NoRows == [l \in Lanes |-> [f \in Fields |-> Inherit]]
NoForm == [l \in {} |-> Inherit]
Blanks == Lanes \X Fields

\* loadPhaseConfigs: values for every lane, and some for single lanes.
Environments == [general : Configs, special : Overrides]

\* BuildPhaseConfigs: what is set for a lane takes the place of the general.
BuildPhaseConfigs(env) ==
    [l \in Lanes |-> [f \in Fields |->
        IF env.special[l][f] = Inherit THEN env.general[f]
                                       ELSE env.special[l][f]]]

\* What the server may be started with.
Baselines == { BuildPhaseConfigs(env) : env \in Environments }

\* merge: an override field that is set takes the place of the default.
Merged(overrides) ==
    [l \in Lanes |-> [f \in Fields |->
        IF overrides[l][f] = Inherit THEN defaults[l][f] ELSE overrides[l][f]]]

\* formFromConfig: a field shows what is in force, or nothing if that is the
\* default.
FormOf(overrides) ==
    [l \in Lanes |-> [f \in Fields |->
        IF Merged(overrides)[l][f] = defaults[l][f] THEN Inherit
                                                    ELSE Merged(overrides)[l][f]]]

Init ==
    /\ defaults \in Baselines
    /\ rows = NoRows /\ cache = NoRows
    /\ pc = [e \in Editors |-> "idle"]
    /\ request = [e \in Editors |-> NoForm]
    /\ loaded = [e \in Editors |-> NoRows]
    /\ open = [e \in Pages |-> FALSE] /\ loading = [e \in Pages |-> FALSE]
    /\ fetching = [e \in Pages |-> {}]
    /\ answer = [e \in Pages |-> [s \in Slots |-> NoForm]]
    /\ form = [e \in Pages |-> NoForm]
    /\ excused = [e \in Pages |-> {}] /\ granted = [e \in Editors |-> {}]
    /\ outdated = [e \in Pages |-> {}]
    /\ crossed = FALSE /\ unseen = FALSE

Goto(e, label) == pc' = [pc EXCEPT ![e] = label]

\* What the request of e held is gone.
Forget(e) ==
    /\ request' = [request EXCEPT ![e] = NoForm]
    /\ loaded' = [loaded EXCEPT ![e] = NoRows]
    /\ granted' = [granted EXCEPT ![e] = {}]

\* The request of e is answered with an error; a dialog stays as it is.
Refuse(e) == Goto(e, "idle") /\ Forget(e)

-----------------------------------------------------------------------------
(* The dialog                                                                *)

\* The dialog opens and asks for the configuration, even if earlier loads and
\* a save of its own are still under way.
Open(e) ==
    /\ ~open[e]
    /\ open' = [open EXCEPT ![e] = TRUE]
    /\ loading' = [loading EXCEPT ![e] = TRUE]
    /\ \E s \in Loads \ fetching[e] :
          fetching' = [fetching EXCEPT ![e] = @ \cup {s}]
    /\ UNCHANGED << defaults, rows, cache, pc, request, loaded, granted, answer,
                    form, excused, outdated, history >>

\* The answers that a dialog waits for.
Awaited(e) == fetching[e] \cup { s \in {"reply"} : pc[e] = "reply" }

\* An answer, and one lane more.
WithLane(a, l) == [k \in DOMAIN a \cup {l} |-> IF k = l THEN FormOf(cache)[l]
                                                       ELSE a[k]]

\* Snapshot takes the lock lane by lane.
Snapshot(e, s) ==
    /\ s \in Awaited(e)
    /\ \E l \in Lanes \ DOMAIN answer[e][s] :
          answer' = [answer EXCEPT ![e][s] = WithLane(@, l)]
    /\ outdated' = [outdated EXCEPT
                       ![e] = @ \cup { a \in {s} : cache # rows }]
    /\ UNCHANGED << defaults, rows, cache, pc, request, loaded, granted, open,
                    loading, fetching, form, excused, history >>

\* A dialog no longer waits for an answer; loading and saving are over.
Over(e, s) ==
    /\ fetching' = [fetching EXCEPT ![e] = @ \ {s}]
    /\ answer' = [answer EXCEPT ![e][s] = NoForm]
    /\ outdated' = [outdated EXCEPT ![e] = @ \ {s}]
    /\ loading' = IF s = "reply" THEN loading ELSE [loading EXCEPT ![e] = FALSE]
    /\ pc' = IF s = "reply" THEN [pc EXCEPT ![e] = "idle"] ELSE pc
    /\ UNCHANGED << defaults, rows, cache, request, loaded, granted, history >>

\* An answer is shown, whichever load it belongs to and even in a closed
\* dialog; that to a save closes the dialog.
Show(e, s) ==
    /\ s \in Awaited(e) /\ DOMAIN answer[e][s] = Lanes
    /\ Over(e, s)
    /\ form' = [form EXCEPT ![e] = answer[e][s]]
    /\ excused' = [excused EXCEPT ![e] = IF s \in outdated[e] THEN Blanks ELSE {}]
    /\ open' = [open EXCEPT ![e] = @ /\ s # "reply"]

\* An answer does not arrive: the dialog says so and keeps its form.
AnswerLost(e, s) ==
    /\ s \in Awaited(e)
    /\ Over(e, s)
    /\ UNCHANGED << open, form, excused >>

\* A form, with another value in one field.
WithField(a, l, f, v) == [a EXCEPT ![l][f] = v]

\* updateField; resetPhase and resetAll empty several fields.  The fields can
\* be changed while an answer is awaited, which overwrites them.
Edit(e) ==
    /\ open[e]
    /\ \E l \in DOMAIN form[e], f \in Fields, v \in Values \cup {Inherit} :
          /\ form' = [form EXCEPT ![e] = WithField(@, l, f, v)]
          /\ excused' = [excused EXCEPT ![e] = @ \cup {<< l, f >>}]
    /\ UNCHANGED << defaults, rows, cache, pc, request, loaded, granted, open,
                    loading, fetching, answer, outdated, history >>

\* Defect: a dialog that is closed empties its fields, which are then shown and
\* sent if the next load fails.
CancelAndClear(e) ==
    /\ open[e]
    /\ open' = [open EXCEPT ![e] = FALSE]
    /\ form' = [form EXCEPT ![e] = [l \in DOMAIN @ |-> NoRows[l]]]
    /\ UNCHANGED << defaults, rows, cache, pc, request, loaded, granted, loading,
                    fetching, answer, excused, outdated, history >>

\* The dialog is closed, whatever is under way; it keeps its form.
Cancel(e) ==
    /\ open[e]
    /\ open' = [open EXCEPT ![e] = FALSE]
    /\ UNCHANGED << defaults, rows, cache, pc, request, loaded, granted, loading,
                    fetching, answer, form, excused, outdated, history >>

-----------------------------------------------------------------------------
(* The requests that save                                                    *)

\* handleSave: all lanes of the form, whether they were changed or not, without
\* the blanks around their values.
Save(e) ==
    /\ open[e] /\ ~loading[e] /\ pc[e] = "idle"
    /\ Goto(e, "upsert")
    /\ request' = [request EXCEPT ![e] =
           [l \in DOMAIN form[e] |-> [f \in Fields |-> Cleaned[form[e][l][f]]]]]
    /\ granted' = [granted EXCEPT ![e] = excused[e]]
    /\ UNCHANGED << defaults, rows, cache, loaded, dialog, history >>

\* A program sends overrides of its own; each lane at most once.
Put(e) ==
    /\ e \in Clients /\ pc[e] = "idle"
    /\ Goto(e, "upsert")
    /\ \E r \in Forms : request' = [request EXCEPT ![e] = r]
    /\ UNCHANGED << defaults, rows, cache, loaded, granted, dialog, history >>

\* The rows of the request's lanes are replaced.
Upserted(r) == [l \in Lanes |-> IF l \in DOMAIN r THEN r[l] ELSE rows[l]]

\* A commit, also one's own, is later than all that was read or sent before.
Committed(e) ==
    /\ rows' = Upserted(request[e])
    /\ crossed' = (crossed \/ \E other \in Editors : pc[other] = "swap")
    /\ granted' = [d \in Editors |-> IF d # e /\ d \in Pages /\ pc[d] = "upsert"
                                      THEN Blanks ELSE {}]
    /\ request' = [request EXCEPT ![e] = NoForm]
    /\ excused' = [d \in Pages |-> Blanks]
    /\ outdated' = [d \in Pages |-> { s \in Slots : DOMAIN answer[d][s] # {} }]
    /\ UNCHANGED << defaults, cache, loaded, open, loading, fetching, answer,
                    form, unseen >>

\* Defect: Replace forgets to reload.
UpsertOnly(e) ==
    /\ pc[e] = "upsert"
    /\ Goto(e, IF e \in Pages THEN "reply" ELSE "idle")
    /\ Committed(e)

\* UpsertAll commits its transaction.
Upsert(e) ==
    /\ pc[e] = "upsert"
    /\ Goto(e, "load")
    /\ Committed(e)

\* UpsertAll fails and has changed nothing.
UpsertFails(e) ==
    /\ pc[e] = "upsert"
    /\ Refuse(e)
    /\ UNCHANGED << defaults, rows, cache, dialog, history >>

\* Reload reads the rows.
Load(e) ==
    /\ pc[e] = "load"
    /\ Goto(e, "swap")
    /\ loaded' = [loaded EXCEPT ![e] = rows]
    /\ UNCHANGED << defaults, rows, cache, request, granted, dialog, history >>

\* Reload cannot read them: the copy stays, the request is answered an error.
LoadFails(e) ==
    /\ pc[e] = "load"
    /\ Refuse(e)
    /\ unseen' = TRUE
    /\ UNCHANGED << defaults, rows, cache, dialog, crossed >>

\* Reload puts the rows it has read in the place of the copy, under the mutex;
\* a dialog is answered with the new configuration.
Swap(e) ==
    /\ pc[e] = "swap"
    /\ Goto(e, IF e \in Pages THEN "reply" ELSE "idle")
    /\ Forget(e)
    /\ cache' = loaded[e]
    /\ UNCHANGED << defaults, rows, dialog, history >>

\* The server is started again, maybe in another environment, and loads the
\* rows before it serves.  The dialogs are still there, and so are the answers
\* on their way to them; a load may yet reach the new server.
Restart ==
    /\ defaults' \in Baselines
    /\ cache' = rows
    /\ answer' = [e \in Pages |-> [s \in Slots |->
                      IF DOMAIN answer[e][s] = Lanes THEN answer[e][s] ELSE NoForm]]
    /\ pc' = [e \in Editors |->
                  IF e \in Pages /\ pc[e] = "reply" /\ DOMAIN answer[e]["reply"] = Lanes
                  THEN "reply" ELSE "idle"]
    /\ request' = [e \in Editors |-> NoForm]
    /\ loaded' = [e \in Editors |-> NoRows]
    /\ granted' = [e \in Editors |-> {}]
    /\ excused' = [e \in Pages |-> IF defaults' = defaults THEN excused[e] ELSE Blanks]
    /\ outdated' = [e \in Pages |-> { s \in Slots :
                        /\ DOMAIN answer'[e][s] # {}
                        /\ s \in outdated[e] \/ defaults' # defaults }]
    /\ crossed' = FALSE /\ unseen' = FALSE
    /\ UNCHANGED << rows, open, loading, fetching, form >>

Dialog(e) == \/ Open(e) \/ Edit(e) \/ Cancel(e) \/ Save(e)
             \/ \E s \in Slots : Snapshot(e, s) \/ Show(e, s) \/ AnswerLost(e, s)

Next == \/ Restart
        \/ \E e \in Pages : Dialog(e)
        \/ \E e \in Editors : \/ Put(e) \/ Upsert(e) \/ UpsertFails(e)
                              \/ Load(e) \/ LoadFails(e) \/ Swap(e)

Spec == Init /\ [][Next]_vars
-----------------------------------------------------------------------------
\* The types of the variables.
TypeOK ==
    /\ defaults \in [Lanes -> Configs]
    /\ rows \in Overrides /\ cache \in Overrides
    /\ pc \in [Editors -> {"idle", "upsert", "load", "swap", "reply"}]
    /\ request \in [Editors -> Forms]
    /\ loaded \in [Editors -> Overrides]
    /\ open \in [Pages -> BOOLEAN] /\ loading \in [Pages -> BOOLEAN]
    /\ fetching \in [Pages -> SUBSET Loads]
    /\ answer \in [Pages -> [Slots -> Forms]] /\ form \in [Pages -> Forms]
    /\ excused \in [Pages -> SUBSET Blanks]
    /\ granted \in [Editors -> SUBSET Blanks]
    /\ outdated \in [Pages -> SUBSET Slots]
    /\ crossed \in BOOLEAN /\ unseen \in BOOLEAN

Reloading(e) == pc[e] \in {"load", "swap"}
Settled == \A e \in Editors : ~Reloading(e)

\* When no save is under way the dispatches use what the database says, unless
\* a load failed or a commit came between the load and the swap of another
\* save: nothing else makes the copy stale.
StaleOnlyIfCrossed ==
    Settled /\ ~crossed /\ ~unseen => Merged(cache) = Merged(rows)

\* A dialog sends the whole form, in which a field is empty if what is in force
\* is the default, which was put together lane by lane, and which the answer to
\* an older load may have replaced.  Still a save changes what is in force only
\* where the user had changed the form, unless that did not say what the rows
\* say: a commit since it was read, a copy that was stale then, or another
\* environment.  Blanks around the value of an override are dropped, though.
SavesWhatWasEdited ==
    [][\A e \in Pages : pc[e] = "upsert" /\ pc'[e] = "load" =>
           \A b \in Blanks \ granted[e] :
               LET old == rows[b[1]][b[2]]
                   new == rows'[b[1]][b[2]]
               IN  \/ Merged(rows')[b[1]][b[2]] = Merged(rows)[b[1]][b[2]]
                   \/ new = Cleaned[old] /\ new # old]_vars

\* phase_config_provider.go: "UI edits take effect on the next phase dispatch
\* without a server restart", so after saves that all succeeded the dispatches
\* use what was saved.
EditsTakeEffect == Settled /\ ~unseen => Merged(cache) = Merged(rows)

\* phase_config_repository_sqlite.go: "UpsertAll replaces the full set of
\* overrides", so that lanes outside the request have none.
ReplacesAll ==
    [][\A e \in Editors : pc[e] = "upsert" /\ pc'[e] = "load" =>
           \A l \in Lanes \ DOMAIN request[e] : rows'[l] = NoRows[l]]_vars

\* README: "typing a value creates a DB override", and overrides "survive
\* restarts", so a save drops none that its user has not emptied.
OverridesAreKept ==
    [][\A e \in Pages : pc[e] = "upsert" /\ pc'[e] = "load" =>
           \A b \in Blanks \ granted[e] :
               rows[b[1]][b[2]] # Inherit => rows'[b[1]][b[2]] # Inherit]_vars
=============================================================================
