--------------------------- MODULE Services_proofs ---------------------------
(***************************************************************************)
(* Proofs about the services of ServicesMC, for every value of their       *)
(* constants that meets the assumptions made there: settings, panels and   *)
(* what the operator did to them, join requests, what must not be written  *)
(* twice, and the roster.  What flows through the other services is the    *)
(* subject of Flow_proofs.                                                 *)
(***************************************************************************)
EXTENDS Flow_proofs, ExtensionLedger_proofs

-----------------------------------------------------------------------------
(* Every service runs by itself.                                           *)

LEMMA SettingsStays == UNCHANGED settingsVars => UNCHANGED Settings!vars
BY DEF settingsVars, Settings!vars, Settings!row

LEMMA SettingsSteps == [ServicesNext]_allVars => [Settings!Next]_(Settings!vars)
BY SettingsStays
   DEF ServicesNext, LedgerStep, BusStep, StreamStep, FenceStep, MediaStep, NetStep, SettingsStep,
       PanelStep, JoinStep, GroupStep, allVars

-----------------------------------------------------------------------------
(* Settings.                                                               *)

SettingsShaped ==
    /\ Settings!TypeOK
    /\ wrote \in [0..MaxRevision -> SUBSET Settings!Drafts]
    /\ local \in [Instances -> SUBSET Settings!Drafts]
    /\ seen \in [Pages -> [rev : 0..MaxRevision, draft : Settings!Drafts,
                            applied : Settings!Drafts]]

\* A page is as far as it has read: at the revision there is it shows the draft there is.
PagesTrue ==
    \A p \in Pages : seen[p].rev <= revision /\ (seen[p].rev = revision => seen[p].draft = draft)

\* The history of drafts, of which versions are the newest.
HistoryTrue ==
    /\ wrote[revision] = {draft} /\ wrote[appliedRevision] = {applied}
    /\ \A v \in versions : v[1] <= revision /\ wrote[v[1]] = {v[2]}
    /\ IsFiniteSet(versions) /\ Cardinality(versions) <= Keep
    /\ revision > 0 => <<revision, draft>> \in versions

CopiesTrue == bindings = applied /\ \A i \in Instances : local[i] \subseteq {applied}

SettingsInv == SettingsShaped /\ PagesTrue /\ HistoryTrue /\ CopiesTrue

LEMMA SettingsCounts == ASSUME NEW S PROVE Settings!Cardinality(S) = Cardinality(S)
BY DEF Settings!Cardinality, Cardinality

\* What stays of the versions after one of revision r was written.
LEMMA RetainedNewest ==
    ASSUME SettingsInv, NEW r \in 0..MaxRevision, NEW body \in Settings!Drafts, revision <= r
    PROVE  LET new == Settings!Retained(r, body) IN
           /\ new \subseteq {v \in versions : v[1] # r} \cup {<<r, body>>}
           /\ <<r, body>> \in new
           /\ IsFiniteSet(new) /\ Cardinality(new) <= Keep
<1> DEFINE all == {v \in versions : v[1] # r} \cup {<<r, body>>}
           new == {v \in all : Cardinality({w \in all : w[1] > v[1]}) < Keep}
           key == [v \in all |-> v[1]]
<1>1. Settings!Retained(r, body) = new
  BY SettingsCounts DEF Settings!Retained
<1>2. \A v \in all : v[1] \in 0..r
  BY DEF SettingsInv, SettingsShaped, HistoryTrue, Settings!TypeOK
<1>3. \A v, w \in all : v[1] = w[1] => v = w
  <2>1. ASSUME NEW v \in versions, NEW w \in versions, v[1] = w[1] PROVE v = w
    <3>1. {v[2]} = {w[2]}
      BY <2>1 DEF SettingsInv, HistoryTrue
    <3>2. v = <<v[1], v[2]>> /\ w = <<w[1], w[2]>>
      BY DEF SettingsInv, SettingsShaped, Settings!TypeOK
    <3> QED BY <2>1, <3>1, <3>2
  <2> QED BY <2>1
<1>4. IsFiniteSet(all)
  <2>1. IsFiniteSet({v \in versions : v[1] # r})
    BY FS_Subset DEF SettingsInv, HistoryTrue
  <2> QED BY <2>1, FS_AddElement
<1>5. <<r, body>> \in new
  <2>1. {w \in all : w[1] > r} = {}
    BY <1>2
  <2> QED BY <2>1, FS_EmptySet, SettingsAssumption
<1>6. IsFiniteSet(new) /\ Cardinality(new) <= Keep
  <2>1. \A v \in all : key[v] = v[1]
    OBVIOUS
  <2>2. \A v \in all : {w \in all : w[1] > v[1]} = {w \in all : key[w] > key[v]}
    BY <2>1
  <2>3. new = Top(all, key, Keep)
    BY <2>2 DEF Top
  <2>4. \A v \in all : key[v] \in Nat
    BY <1>2, <2>1
  <2>5. \A v, w \in all : key[v] = key[w] => v = w
    BY <1>3, <2>1
  <2>6. Keep \in Nat
    BY SettingsAssumption
  <2> HIDE DEF all, key, new
  <2> QED BY <1>4, <2>3, <2>4, <2>5, <2>6, Ranked
<1>7. new \subseteq all
  OBVIOUS
<1> HIDE DEF new
<1> QED BY <1>1, <1>5, <1>6, <1>7

\* save, discard, defaults and restore.
LEMMA DraftKeeps ==
    ASSUME SettingsInv, NEW p \in Pages, NEW body \in Settings!Drafts, Settings!NewDraft(p, body)
    PROVE  SettingsInv'
<1> USE DEF Settings!NewDraft
<1>1. revision \in Nat /\ revision + 1 \in 0..MaxRevision /\ revision < revision + 1
  BY SettingsAssumption DEF SettingsInv, SettingsShaped, Settings!TypeOK
<1>2. /\ versions' \subseteq {v \in versions : v[1] # revision + 1} \cup {<<revision + 1, body>>}
      /\ <<revision + 1, body>> \in versions'
      /\ IsFiniteSet(versions') /\ Cardinality(versions') <= Keep
  BY <1>1, RetainedNewest
<1>3. SettingsShaped'
  BY <1>1, <1>2 DEF SettingsInv, SettingsShaped, Settings!TypeOK
<1>4. PagesTrue'
  BY <1>1 DEF SettingsInv, SettingsShaped, PagesTrue
<1>5. HistoryTrue'
  <2>1. wrote'[revision + 1] = {body} /\ \A r \in 0..revision : wrote'[r] = wrote[r]
    BY <1>1 DEF SettingsInv, SettingsShaped
  <2>2. ASSUME NEW v \in versions' PROVE v[1] <= revision + 1 /\ wrote'[v[1]] = {v[2]}
    <3>1. CASE v \in versions
      <4>1. v[1] <= revision /\ v[1] \in 0..MaxRevision /\ wrote[v[1]] = {v[2]}
        BY <3>1 DEF SettingsInv, SettingsShaped, HistoryTrue, Settings!TypeOK
      <4> QED BY <1>1, <2>1, <4>1
    <3>2. CASE v = <<revision + 1, body>>
      BY <1>1, <2>1, <3>2
    <3> QED BY <1>2, <3>1, <3>2
  <2>3. wrote'[appliedRevision] = {applied}
    BY <2>1 DEF SettingsInv, SettingsShaped, HistoryTrue, Settings!TypeOK
  <2> QED BY <1>2, <2>1, <2>2, <2>3 DEF HistoryTrue
<1>6. CopiesTrue'
  BY DEF SettingsInv, CopiesTrue
<1> QED BY <1>3, <1>4, <1>5, <1>6 DEF SettingsInv

LEMMA ApplyKeeps == ASSUME SettingsInv, NEW p \in Pages, Settings!Apply(p) PROVE SettingsInv'
<1> USE DEF Settings!Apply
<1>1. revision \in 0..MaxRevision /\ draft \in Settings!Drafts /\ wrote[revision] = {draft}
  BY DEF SettingsInv, SettingsShaped, HistoryTrue, Settings!TypeOK
<1>2. /\ versions' \subseteq {v \in versions : v[1] # revision} \cup {<<revision, draft>>}
      /\ <<revision, draft>> \in versions'
      /\ IsFiniteSet(versions') /\ Cardinality(versions') <= Keep
  BY <1>1, RetainedNewest
<1>3. wrote' = wrote
  BY <1>1 DEF SettingsInv, SettingsShaped
<1>4. SettingsShaped'
  BY <1>1, <1>2, <1>3 DEF SettingsInv, SettingsShaped, Settings!TypeOK
<1>5. PagesTrue'
  BY <1>1 DEF SettingsInv, SettingsShaped, PagesTrue
<1>6. HistoryTrue'
  BY <1>1, <1>2, <1>3 DEF SettingsInv, HistoryTrue
<1>7. CopiesTrue'
  BY DEF SettingsInv, CopiesTrue
<1> QED BY <1>4, <1>5, <1>6, <1>7 DEF SettingsInv

LEMMA SettingsKeep == ASSUME SettingsInv, [Settings!Next]_(Settings!vars) PROVE SettingsInv'
<1> USE DEF SettingsInv, SettingsShaped, PagesTrue, HistoryTrue, CopiesTrue, Settings!TypeOK
<1>1. ASSUME NEW p \in Pages, Settings!Read(p) PROVE SettingsInv'
  BY <1>1 DEF Settings!Read, Settings!row, Settings!View
<1>2. ASSUME NEW i \in Instances, Settings!Load(i) \/ Settings!Unload(i) PROVE SettingsInv'
  <2>1. /\ local' \in [Instances -> SUBSET Settings!Drafts]
        /\ \A j \in Instances : local'[j] \subseteq {applied}
    BY <1>2 DEF Settings!Load, Settings!Unload
  <2>2. UNCHANGED <<Settings!row, seen>>
    BY <1>2 DEF Settings!Load, Settings!Unload
  <2> QED BY <2>1, <2>2 DEF Settings!row
<1>3. CASE UNCHANGED Settings!vars
  BY <1>3 DEF Settings!vars, Settings!row
<1>4. ASSUME NEW p \in Pages, NEW k \in Keys, NEW v \in Values, Settings!Save(p, k, v)
      PROVE  SettingsInv'
  <2>1. [draft EXCEPT ![k] = v] \in Settings!Drafts
    BY DEF Settings!Drafts
  <2> HIDE DEF SettingsInv
  <2> QED BY <1>4, <2>1, DraftKeeps DEF Settings!Save
<1>5. ASSUME NEW p \in Pages,
             Settings!Discard(p) \/ Settings!ToDefaults(p)
               \/ \E v \in versions : Settings!Restore(p, v)
      PROVE  SettingsInv'
  <2>1. applied \in Settings!Drafts /\ Settings!Defaults \in Settings!Drafts
    BY SettingsAssumption DEF Settings!Drafts, Settings!Defaults
  <2>2. \A v \in versions : v[2] \in Settings!Drafts
    OBVIOUS
  <2> HIDE DEF SettingsInv
  <2> QED BY <1>5, <2>1, <2>2, DraftKeeps
        DEF Settings!Discard, Settings!ToDefaults, Settings!Restore
<1>6. ASSUME NEW p \in Pages, Settings!Apply(p) PROVE SettingsInv'
  BY <1>6, ApplyKeeps
<1> QED BY <1>1, <1>2, <1>3, <1>4, <1>5, <1>6 DEF Settings!Next

LEMMA SettingsBegin == Settings!Init => SettingsInv
<1> SUFFICES ASSUME Settings!Init PROVE SettingsInv
  OBVIOUS
<1>1. Settings!Defaults \in Settings!Drafts
  BY SettingsAssumption DEF Settings!Drafts, Settings!Defaults
<1>2. 0 \in 0..MaxRevision /\ Keep \in Nat
  BY SettingsAssumption
<1>3. SettingsShaped
  BY <1>1, <1>2 DEF Settings!Init, Settings!View, SettingsShaped, Settings!TypeOK
<1> QED BY <1>2, <1>3, FS_EmptySet
      DEF Settings!Init, Settings!View, SettingsInv, PagesTrue, HistoryTrue, CopiesTrue

LEMMA SettingsAlways == ServicesSpec => []SettingsInv
<1>1. ServicesInit => SettingsInv
  BY SettingsBegin DEF ServicesInit
<1>2. SettingsInv /\ [ServicesNext]_allVars => SettingsInv'
  BY SettingsKeep, SettingsSteps
<1> QED BY <1>1, <1>2, PTL DEF ServicesSpec

\* A settings page never overwrites what its reader has not seen: of two pages that read one draft,
\* the change of the first is not lost in the change of the second.
THEOREM DraftsAreNotLost == ServicesSpec => NothingOverwritten
<1>1. ASSUME SettingsInv, [ServicesNext]_allVars
      PROVE  [service = "settings" => Settings!OverwritesNothing]_allVars
  <2>1. [Settings!Next]_(Settings!vars)
    BY <1>1, SettingsSteps
  <2>2. ASSUME NEW p \in Pages, Settings!Current(p) PROVE seen[p].draft = draft
    BY <1>1, <2>2 DEF SettingsInv, PagesTrue, Settings!Current
  <2>3. ASSUME NEW q \in Pages, NEW body, Settings!NewDraft(q, body)
        PROVE  Settings!OverwritesNothing
    BY <1>1, <2>2, <2>3
       DEF Settings!NewDraft, Settings!OverwritesNothing, SettingsInv, SettingsShaped
  <2>4. ASSUME NEW q \in Pages, Settings!Apply(q) PROVE Settings!OverwritesNothing
    BY <1>1, <2>2, <2>4
       DEF Settings!Apply, Settings!OverwritesNothing, SettingsInv, SettingsShaped
  <2>5. ASSUME UNCHANGED <<draft, appliedRevision>> PROVE Settings!OverwritesNothing
    BY <2>5 DEF Settings!OverwritesNothing
  <2> QED BY <2>1, <2>3, <2>4, <2>5
        DEF Settings!Next, Settings!vars, Settings!row, Settings!Read, Settings!Save,
            Settings!Discard, Settings!ToDefaults, Settings!Restore, Settings!Load, Settings!Unload
<1> QED BY <1>1, SettingsAlways, PTL DEF ServicesSpec, NothingOverwritten

-----------------------------------------------------------------------------
(* A panel.                                                                *)

LEMMA PanelSteps == [ServicesNext]_allVars => [Panel!Next]_(Panel!vars)
<1>1. UNCHANGED panelVars => UNCHANGED Panel!vars
  BY DEF panelVars, Panel!vars
<1> QED BY <1>1
      DEF ServicesNext, LedgerStep, BusStep, StreamStep, FenceStep, MediaStep, NetStep,
          SettingsStep, PanelStep, JoinStep, GroupStep, allVars

PanelStates == {"not_managed", "synced", "writing", "unknown", "failed", "paused"}
WritesOf(kinds) == [kind : kinds, body : Bodies, op : Nat]
PanelRows == [state : PanelStates, enabled : BOOLEAN, panel : Nat, prev : Panel!Contents,
              pending : WritesOf({"none", "create", "update"}),
              manual : WritesOf({"none", "update", "delete", "target"}), cv : 0..MaxControl]

\* What the ledger says of a write that QQ has not carried out, or of one it may have.
Undone == {"reserved", "in_flight", "not_sent", "rejected"}
Perhaps == {"succeeded", "unknown", "evicted", "missing"}

\* A write noted in the row has a row in the ledger, younger than the panel's.
Noted(w) == IF w.kind = "none" THEN w = Panel!NoPending
            ELSE w.op \in DOMAIN writes /\ panelRow.panel < w.op

PanelShaped ==
    /\ panelRow \in PanelRows /\ val \in PanelRows /\ ~panelRow.prev.moved
    /\ panelAt \in Panel!Places /\ plan \in Bodies /\ want \in Bodies /\ wants \in BOOLEAN
    /\ writes \in Seq(Undone \cup Perhaps)
    /\ DOMAIN remote \subseteq DOMAIN writes /\ remote \in [DOMAIN remote -> Panel!Contents]
    /\ panelRow.panel \in {Panel!NoPanel} \cup DOMAIN writes
    /\ Noted(panelRow.pending) /\ Noted(panelRow.manual)

\* The only panel at QQ is the one the row names, or the one a pending write may have created.
\* Its content is what the row says, unless somebody else changed it or a write may have.
Idle(w) == w.kind = "none" \/ (w.kind # "create" /\ writes[w.op] \in Undone)
PanelKnown ==
    /\ \A p \in DOMAIN remote : writes[p] \in Perhaps
    /\ panelRow.pending.kind = "create" =>
          panelRow.panel = Panel!NoPanel /\ DOMAIN remote \subseteq {panelRow.pending.op}
    /\ panelRow.pending.kind # "create" => DOMAIN remote \subseteq {panelRow.panel}
    /\ Idle(panelRow.pending) /\ Idle(panelRow.manual) =>
          \A p \in DOMAIN remote \ touched : remote[p] = panelRow.prev
    /\ panelRow.manual.kind # "none" =>
          panelRow.pending.kind = "none" /\ panelRow.panel # Panel!NoPanel /\ ~panelRow.enabled

\* The holder of the lock works on the row there is; only the operator's switch may have moved.
Syncing == {"list", "detail", "readback", "send", "wire"}
PanelHeld ==
    /\ panelAt \in Syncing =>
          /\ panelRow.state = val.state /\ panelRow.panel = val.panel /\ panelRow.prev = val.prev
          /\ panelRow.pending = val.pending /\ panelRow.manual = val.manual
          /\ val.manual.kind = "none"
          /\ panelAt \in {"list", "detail"} <=> val.pending.kind = "none"
    /\ panelAt = "list" => val.panel = Panel!NoPanel
    /\ panelAt = "send" => writes[val.pending.op] \in {"reserved", "in_flight"}
    /\ panelAt = "wire" => writes[val.pending.op] = "in_flight"
    /\ panelRow.state = "writing" => panelAt \in {"send", "wire"}
    /\ panelAt \in {"msend", "mwire"} =>
          /\ panelRow.manual.kind # "none"
          /\ writes[panelRow.manual.op] \in {"reserved", "in_flight"}
          /\ val.state # "writing"
    /\ panelAt = "confirm" => val.cv < MaxControl /\ val.manual.kind # "none"

\* The operator's last word, which the end of a plugin's write may only bring back.
SwitchTrue ==
    /\ panelRow.enabled => wants
    /\ panelAt \in {"msend", "mwire"} =>
          val.cv <= panelRow.cv /\ (val.cv = panelRow.cv /\ val.enabled => wants)

PanelInv == PanelShaped /\ PanelKnown /\ PanelHeld /\ SwitchTrue

LEMMA PanelFacts ==
    /\ Panel!NoBody \in Bodies
    /\ Panel!NoPending \in WritesOf({"none"}) /\ Panel!NoManual = Panel!NoPending
    /\ Panel!NoPending.kind = "none"
BY PanelAssumption DEF Panel!NoBody, Panel!NoPending, Panel!NoManual, WritesOf

\* What a row becomes.
RowIs(st, en, pa, pr, pe, ma) ==
    /\ panelRow' \in PanelRows
    /\ panelRow'.state = st /\ panelRow'.enabled = en /\ panelRow'.panel = pa
    /\ panelRow'.prev = pr /\ panelRow'.pending = pe /\ panelRow'.manual = ma

LEMMA Fields ==
    ASSUME NEW v \in PanelRows
    PROVE  /\ v.state \in PanelStates /\ v.enabled \in BOOLEAN /\ v.panel \in Nat
           /\ v.prev \in Panel!Contents /\ v.cv \in 0..MaxControl
           /\ v.pending \in WritesOf({"none", "create", "update"})
           /\ v.manual \in WritesOf({"none", "update", "delete", "target"})
BY DEF PanelRows

LEMMA SavedFailed ==
    ASSUME NEW v \in PanelRows, panelRow \in PanelRows, Panel!Save(Panel!Failed(v))
    PROVE  RowIs("failed", panelRow.enabled, v.panel, v.prev, Panel!NoPending, v.manual)
BY Fields, PanelFacts DEF Panel!Save, Panel!Failed, RowIs, PanelRows, PanelStates, WritesOf

LEMMA SavedUnknown ==
    ASSUME NEW v \in PanelRows, panelRow \in PanelRows, Panel!Save(Panel!Unknown(v))
    PROVE  RowIs("unknown", panelRow.enabled, v.panel, v.prev, v.pending, v.manual)
BY Fields DEF Panel!Save, Panel!Unknown, RowIs, PanelRows, PanelStates

LEMMA SavedPaused ==
    ASSUME NEW v \in PanelRows, panelRow \in PanelRows, Panel!Save([v EXCEPT !.state = "paused"])
    PROVE  RowIs("paused", panelRow.enabled, v.panel, v.prev, v.pending, v.manual)
BY Fields DEF Panel!Save, RowIs, PanelRows, PanelStates

LEMMA SavedSynced ==
    ASSUME NEW v \in PanelRows, panelRow \in PanelRows, NEW p \in Nat, NEW c \in Panel!Contents,
           Panel!Save(Panel!Synced(v, p, c))
    PROVE  RowIs("synced", panelRow.enabled, p, c, Panel!NoPending, v.manual)
BY Fields, PanelFacts DEF Panel!Save, Panel!Synced, RowIs, PanelRows, PanelStates, WritesOf

\* The ledger and QQ go on: no panel is there that the ledger says was not made.
WorldFits ==
    /\ writes' \in Seq(Undone \cup Perhaps) /\ DOMAIN writes' = DOMAIN writes
    /\ remote' \in [DOMAIN remote' -> Panel!Contents] /\ DOMAIN remote' \subseteq DOMAIN writes
    /\ \A p \in DOMAIN remote' : writes'[p] \in Perhaps

\* A synchronization ends, with or without the write that was pending.
SyncOver ==
    /\ panelRow' \in PanelRows /\ panelRow'.state # "writing" /\ ~panelRow'.prev.moved
    /\ panelRow'.enabled = panelRow.enabled /\ panelRow'.manual = panelRow.manual
    /\ panelRow.manual.kind = "none" /\ panelRow'.panel \in {Panel!NoPanel} \cup DOMAIN writes
    /\ \/ panelRow'.pending = Panel!NoPending
       \/ panelRow'.pending = panelRow.pending /\ panelRow'.panel = panelRow.panel
    /\ panelAt' = "idle" /\ val' \in PanelRows /\ want' \in Bodies
    /\ UNCHANGED <<plan, wants, touched>>
    /\ WorldFits

\* QQ's panel is the one the row now knows or may have created.
SyncLearns ==
    /\ panelRow'.pending.kind = "create" => DOMAIN remote' \subseteq {panelRow'.pending.op}
    /\ panelRow'.pending.kind # "create" => DOMAIN remote' \subseteq {panelRow'.panel}
    /\ Idle(panelRow.pending)' => \A p \in DOMAIN remote' \ touched : remote'[p] = panelRow'.prev

LEMMA SyncEnds == ASSUME PanelInv, SyncOver, SyncLearns PROVE PanelInv'
<1> USE DEF SyncOver
<1>1. Noted(panelRow.pending) /\ panelRow.manual = Panel!NoPending
  BY DEF PanelInv, PanelShaped, Noted
<1>2. Noted(panelRow.pending)' /\ Noted(panelRow.manual)'
  BY <1>1, PanelFacts DEF Noted, WorldFits
<1>3. PanelShaped'
  BY <1>2 DEF PanelInv, PanelShaped, WorldFits, Panel!Places
<1>4. panelRow'.pending.kind = "create" => panelRow'.panel = Panel!NoPanel
  BY PanelFacts DEF PanelInv, PanelKnown
<1>5. PanelKnown'
  BY <1>1, <1>4, PanelFacts DEF PanelKnown, WorldFits, SyncLearns
<1>6. PanelHeld'
  BY DEF PanelHeld, Syncing
<1>7. SwitchTrue'
  BY DEF PanelInv, SwitchTrue
<1> QED BY <1>3, <1>5, <1>6, <1>7 DEF PanelInv

LEMMA SyncKeeps == ASSUME PanelInv, Panel!Sync PROVE PanelInv'
<1>1. /\ panelAt = "idle" /\ panelRow.enabled /\ val' = panelRow /\ want' = plan
      /\ UNCHANGED <<plan, wants, writes, remote, touched, panelFaults>>
  BY DEF Panel!Sync, Panel!Operator
<1>2. /\ panelRow \in PanelRows /\ val' \in PanelRows /\ want' \in Bodies
      /\ panelRow.manual.kind = "none" /\ panelRow.state # "writing" /\ ~panelRow.prev.moved
  BY <1>1 DEF PanelInv, PanelShaped, PanelKnown, PanelHeld
<1>3. WorldFits
  BY <1>1 DEF WorldFits, PanelInv, PanelShaped, PanelKnown
<1>4a. /\ panelRow.panel \in {Panel!NoPanel} \cup DOMAIN writes
       /\ writes' = writes /\ remote' = remote
  BY <1>1 DEF PanelInv, PanelShaped
<1>5a. /\ panelRow.pending.kind = "create" => DOMAIN remote \subseteq {panelRow.pending.op}
       /\ panelRow.pending.kind # "create" => DOMAIN remote \subseteq {panelRow.panel}
       /\ panelRow.pending.kind = "none" \/ (panelRow.pending.kind # "create"
                                              /\ writes[panelRow.pending.op] \in Undone) =>
             \A p \in DOMAIN remote \ touched : remote[p] = panelRow.prev
  BY <1>2 DEF PanelInv, PanelShaped, PanelKnown, Idle
<1>4. CASE panelRow' = panelRow /\ panelAt' = "readback" /\ panelRow.pending.kind # "none"
  <2>1. PanelShaped' /\ PanelKnown'
    BY <1>1, <1>2, <1>4
       DEF PanelInv, PanelShaped, PanelKnown, Noted, Idle, Panel!Places
  <2>2. PanelHeld' /\ SwitchTrue'
    BY <1>1, <1>2, <1>4 DEF PanelInv, PanelHeld, SwitchTrue, Syncing
  <2> QED BY <2>1, <2>2 DEF PanelInv
<1>5. CASE /\ panelRow' = panelRow /\ panelRow.pending.kind = "none"
           /\ panelAt' = IF panelRow.panel # Panel!NoPanel THEN "detail" ELSE "list"
  <2>1. PanelShaped' /\ PanelKnown'
    BY <1>1, <1>2, <1>5
       DEF PanelInv, PanelShaped, PanelKnown, Noted, Idle, Panel!Places
  <2>2. PanelHeld' /\ SwitchTrue'
    BY <1>1, <1>2, <1>5 DEF PanelInv, PanelHeld, SwitchTrue, Syncing
  <2> QED BY <2>1, <2>2 DEF PanelInv
<1>6. CASE panelAt' = "idle" /\ Panel!Save(Panel!Unknown(panelRow))
  <2>1. RowIs("unknown", panelRow.enabled, panelRow.panel, panelRow.prev, panelRow.pending,
              panelRow.manual)
    BY <1>2, <1>6, SavedUnknown
  <2>2. SyncOver
    BY <1>1, <1>2, <1>3, <1>4a, <1>6, <2>1 DEF SyncOver, RowIs
  <2>3. SyncLearns
    BY <1>4a, <1>5a, <2>1 DEF SyncLearns, RowIs, Idle
  <2> QED BY <2>2, <2>3, SyncEnds
<1>7. CASE /\ panelAt' = "idle" /\ Panel!Save(Panel!Failed(panelRow))
           /\ panelRow.pending.kind # "none" => writes[panelRow.pending.op] \in Panel!Refuted
  <2>1. RowIs("failed", panelRow.enabled, panelRow.panel, panelRow.prev, Panel!NoPending,
              panelRow.manual)
    BY <1>2, <1>7, SavedFailed
  <2>2. SyncOver
    BY <1>1, <1>2, <1>3, <1>4a, <1>7, <2>1 DEF SyncOver, RowIs
  <2>3. /\ DOMAIN remote \subseteq {panelRow.panel}
        /\ \A p \in DOMAIN remote \ touched : remote[p] = panelRow.prev
    BY <1>2, <1>7 DEF PanelInv, PanelShaped, PanelKnown, Idle, Noted, Undone, Perhaps, Panel!Refuted
  <2>4. SyncLearns
    BY <1>4a, <2>1, <2>3, PanelFacts DEF SyncLearns, RowIs
  <2> QED BY <2>2, <2>4, SyncEnds
<1> QED BY <1>1, <1>4, <1>5, <1>6, <1>7 DEF Panel!Sync, Panel!Reconcile, Panel!Outcome

\* What the holder of the lock knows while it synchronizes.
LEMMA Holding ==
    ASSUME PanelInv, panelAt \in Syncing
    PROVE  /\ panelRow \in PanelRows /\ val \in PanelRows /\ want \in Bodies
           /\ panelRow.manual.kind = "none" /\ panelRow.manual = Panel!NoPending
           /\ panelRow.manual = val.manual /\ panelRow.state = val.state
           /\ panelRow.panel = val.panel /\ panelRow.prev = val.prev /\ ~val.prev.moved
           /\ panelRow.pending = val.pending
           /\ panelRow.panel \in {Panel!NoPanel} \cup DOMAIN writes
BY DEF PanelInv, PanelShaped, PanelHeld, Noted

LEMMA EndsFailed ==
    ASSUME PanelInv, panelAt \in Syncing, Panel!Save(Panel!Failed(val)), Panel!Releases,
           Panel!Operator, UNCHANGED touched, WorldFits, DOMAIN remote' \subseteq {val.panel},
           \A p \in DOMAIN remote' \ touched : remote'[p] = val.prev
    PROVE  PanelInv'
<1>1. RowIs("failed", panelRow.enabled, val.panel, val.prev, Panel!NoPending, val.manual)
  BY Holding, SavedFailed
<1>2. SyncOver
  BY <1>1, Holding DEF SyncOver, RowIs, Panel!Releases, Panel!Operator
<1>3. SyncLearns
  BY <1>1, PanelFacts DEF SyncLearns, RowIs
<1> QED BY <1>2, <1>3, SyncEnds

LEMMA EndsUnknown ==
    ASSUME PanelInv, panelAt \in Syncing, Panel!Save(Panel!Unknown(val)), Panel!Releases,
           Panel!Operator, UNCHANGED touched, WorldFits,
           val.pending.kind = "create" => DOMAIN remote' \subseteq {val.pending.op},
           val.pending.kind # "create" => DOMAIN remote' \subseteq {val.panel},
           val.pending.kind = "none" \/ (val.pending.kind # "create"
                                          /\ writes'[val.pending.op] \in Undone) =>
               \A p \in DOMAIN remote' \ touched : remote'[p] = val.prev
    PROVE  PanelInv'
<1>1. RowIs("unknown", panelRow.enabled, val.panel, val.prev, val.pending, val.manual)
  BY Holding, SavedUnknown
<1>2. SyncOver
  BY <1>1, Holding DEF SyncOver, RowIs, Panel!Releases, Panel!Operator
<1>3. SyncLearns
  BY <1>1 DEF SyncLearns, RowIs, Idle
<1> QED BY <1>2, <1>3, SyncEnds

LEMMA EndsPaused ==
    ASSUME PanelInv, panelAt \in Syncing, Panel!Save([val EXCEPT !.state = "paused"]),
           Panel!Releases, Panel!Operator, UNCHANGED touched, WorldFits,
           val.pending.kind = "none", DOMAIN remote' \subseteq {val.panel},
           \A p \in DOMAIN remote' \ touched : remote'[p] = val.prev
    PROVE  PanelInv'
<1>1. RowIs("paused", panelRow.enabled, val.panel, val.prev, val.pending, val.manual)
  BY Holding, SavedPaused
<1>2. SyncOver
  BY <1>1, Holding DEF SyncOver, RowIs, Panel!Releases, Panel!Operator
<1>3. SyncLearns
  BY <1>1 DEF SyncLearns, RowIs
<1> QED BY <1>2, <1>3, SyncEnds

LEMMA EndsSynced ==
    ASSUME PanelInv, panelAt \in Syncing, NEW p \in Nat, NEW c \in Panel!Contents,
           Panel!Save(Panel!Synced(val, p, c)), Panel!Releases, Panel!Operator,
           UNCHANGED touched, WorldFits, p \in DOMAIN writes, ~c.moved,
           DOMAIN remote' \subseteq {p},
           \A q \in DOMAIN remote' \ touched : remote'[q] = c
    PROVE  PanelInv'
<1>1. RowIs("synced", panelRow.enabled, p, c, Panel!NoPending, val.manual)
  BY Holding, SavedSynced
<1>2. SyncOver
  BY <1>1, Holding DEF SyncOver, RowIs, Panel!Releases, Panel!Operator
<1>3. SyncLearns
  BY <1>1, PanelFacts DEF SyncLearns, RowIs
<1> QED BY <1>2, <1>3, SyncEnds

\* The panels QQ has, as the holder of the lock knows them.
LEMMA WorldKnown ==
    ASSUME PanelInv, panelAt \in Syncing
    PROVE  /\ writes \in Seq(Undone \cup Perhaps) /\ DOMAIN remote \subseteq DOMAIN writes
           /\ remote \in [DOMAIN remote -> Panel!Contents]
           /\ \A p \in DOMAIN remote : writes[p] \in Perhaps
           /\ val.pending.kind # "none" => val.pending.op \in DOMAIN writes
           /\ val.pending.kind = "create" => DOMAIN remote \subseteq {val.pending.op}
           /\ val.pending.kind # "create" => DOMAIN remote \subseteq {val.panel}
           /\ val.pending.kind = "none" \/ (val.pending.kind # "create"
                                             /\ writes[val.pending.op] \in Undone) =>
                 \A p \in DOMAIN remote \ touched : remote[p] = val.prev
           /\ panelAt \in {"send", "wire"} =>
                 val.pending.kind # "none" /\ writes[val.pending.op] \in {"reserved", "in_flight"}
BY Holding DEF PanelInv, PanelShaped, PanelKnown, PanelHeld, Idle, Noted, Syncing

LEMMA WorldStays ==
    ASSUME PanelInv, panelAt \in Syncing, writes' = writes, remote' = remote PROVE WorldFits
BY WorldKnown DEF WorldFits

\* The pending write was not carried out: nothing has changed at QQ.
LEMMA WorldSpared ==
    ASSUME PanelInv, panelAt \in {"send", "wire"}, NEW o \in {"not_sent", "rejected"},
           Panel!Settled(val.pending.op, o), remote' = remote
    PROVE  /\ WorldFits /\ DOMAIN remote' \subseteq {val.panel}
           /\ \A p \in DOMAIN remote' \ touched : remote'[p] = val.prev
<1>1. panelAt \in Syncing
  BY DEF Syncing
<1>2. writes[val.pending.op] \in Undone \ Perhaps /\ val.pending.op \notin DOMAIN remote
  BY <1>1, WorldKnown DEF Undone, Perhaps
<1>3. WorldFits
  BY <1>1, <1>2, WorldKnown DEF WorldFits, Panel!Settled, Undone
<1> QED BY <1>1, <1>2, <1>3, WorldKnown

\* The pending write may have been carried out.
LEMMA WorldMoves ==
    ASSUME PanelInv, panelAt = "wire", NEW o \in Perhaps, Panel!Settled(val.pending.op, o),
           remote' = remote \/ (Panel!Possible /\ remote' = Panel!Applied)
    PROVE  /\ WorldFits
           /\ val.pending.kind = "create" => DOMAIN remote' \subseteq {val.pending.op}
           /\ val.pending.kind # "create" => DOMAIN remote' \subseteq {val.panel}
           /\ val.pending.kind # "none" /\ writes'[val.pending.op] = o
<1>1. panelAt \in Syncing
  BY DEF Syncing
<1>2. val.pending.body \in Bodies
  BY <1>1, Holding DEF PanelRows, WritesOf
<1>3. /\ DOMAIN writes' = DOMAIN writes /\ writes' \in Seq(Undone \cup Perhaps)
      /\ writes'[val.pending.op] = o
      /\ \A p \in DOMAIN writes : p # val.pending.op => writes'[p] = writes[p]
  BY <1>1, WorldKnown DEF Panel!Settled
<1>4. CASE remote' = remote
  BY <1>1, <1>3, <1>4, WorldKnown DEF WorldFits
<1>5. CASE Panel!Possible /\ remote' = Panel!Applied
  <2>1. DOMAIN remote' = DOMAIN remote \cup {Panel!Written}
    BY <1>5 DEF Panel!Applied
  <2>2. Panel!Written \in DOMAIN writes /\ writes'[Panel!Written] \in Perhaps
    BY <1>1, <1>3, <1>5, WorldKnown DEF Panel!Written, Panel!Possible
  <2>3. \A p \in DOMAIN remote' : remote'[p] \in Panel!Contents
    BY <1>1, <1>2, <1>5, WorldKnown DEF Panel!Applied, Panel!Content, Panel!Contents
  <2>4. remote' = [q \in DOMAIN remote' |-> remote'[q]]
    BY <1>5 DEF Panel!Applied
  <2>5. remote' \in [DOMAIN remote' -> Panel!Contents]
    BY <2>3, <2>4
  <2>6. DOMAIN remote \subseteq DOMAIN writes /\ \A p \in DOMAIN remote : writes'[p] \in Perhaps
    BY <1>1, <1>3, WorldKnown
  <2>7. WorldFits
    BY <1>3, <2>1, <2>2, <2>5, <2>6 DEF WorldFits
  <2> QED BY <1>1, <1>3, <2>1, <2>7, WorldKnown DEF Panel!Written
<1> QED BY <1>4, <1>5

LEMMA PersistKeeps ==
    ASSUME PanelInv, NEW kind \in {"create", "update"},
           panelAt = IF kind = "create" THEN "list" ELSE "detail",
           Panel!Persist(kind), Panel!Operator, UNCHANGED <<remote, touched>>,
           kind = "update" => panelRow.panel # Panel!NoPanel
    PROVE  PanelInv'
<1> DEFINE op == Len(writes) + 1
           w == [kind |-> kind, body |-> want, op |-> op]
<1>1. panelAt \in Syncing /\ panelAt \notin {"send", "wire", "readback"}
  BY DEF Syncing
<1>2. val.pending.kind = "none" /\ (kind = "create" => val.panel = Panel!NoPanel)
  BY <1>1 DEF PanelInv, PanelHeld
<1>3. writes \in Seq(Undone \cup Perhaps) /\ op \in Nat /\ op \notin DOMAIN writes /\ op # 0
      /\ \A i \in DOMAIN writes : i < op
  BY <1>1, WorldKnown
<1>4. /\ writes' = Append(writes, "reserved") /\ writes' \in Seq(Undone \cup Perhaps)
      /\ DOMAIN writes' = DOMAIN writes \cup {op} /\ writes'[op] = "reserved"
      /\ \A i \in DOMAIN writes : writes'[i] = writes[i]
  BY <1>3 DEF Panel!Persist, Undone
<1>5. w \in WritesOf({kind}) /\ w.kind = kind /\ w.op = op
  BY <1>1, <1>3, Holding DEF WritesOf
<1>6. /\ val' \in PanelRows /\ val'.state = "writing" /\ val'.pending = w
      /\ val'.panel = val.panel /\ val'.prev = val.prev /\ val'.manual = val.manual
  BY <1>1, <1>5, Holding, Fields DEF Panel!Persist, PanelRows, PanelStates, WritesOf
<1>7. RowIs("writing", panelRow.enabled, val.panel, val.prev, w, val.manual)
  BY <1>1, <1>6, Holding, Fields DEF Panel!Persist, Panel!Save, RowIs, PanelRows
<1>8. panelAt' = "send" /\ want' = want
  BY DEF Panel!Persist
<1> HIDE DEF w, op
<1>9. Noted(panelRow.pending)' /\ Noted(panelRow.manual)'
  BY <1>1, <1>3, <1>4, <1>5, <1>7, Holding, PanelFacts DEF Noted, RowIs, Panel!NoPanel
<1>10. DOMAIN remote \subseteq DOMAIN writes'
  BY <1>1, <1>4, WorldKnown
<1>11. PanelShaped'
  BY <1>1, <1>4, <1>6, <1>7, <1>8, <1>9, <1>10, Holding, WorldKnown
     DEF PanelInv, PanelShaped, RowIs, Panel!Operator, Panel!Places
<1>12. kind = "create" => DOMAIN remote = {}
  BY <1>1, <1>2, <1>3, WorldKnown DEF Panel!NoPanel
<1>13. PanelKnown'
  BY <1>1, <1>2, <1>4, <1>5, <1>7, <1>12, Holding, WorldKnown, PanelFacts
     DEF PanelKnown, RowIs, Idle
<1>14. PanelHeld'
  BY <1>1, <1>4, <1>5, <1>6, <1>7, <1>8, Holding, PanelFacts DEF PanelHeld, Syncing, RowIs
<1>15. SwitchTrue'
  BY <1>7, <1>8 DEF PanelInv, SwitchTrue, RowIs, Panel!Operator
<1> QED BY <1>11, <1>13, <1>14, <1>15 DEF PanelInv

LEMMA ListKeeps == ASSUME PanelInv, Panel!List PROVE PanelInv'
BY PersistKeeps DEF Panel!List

LEMMA DetailKeeps == ASSUME PanelInv, Panel!Detail PROVE PanelInv'
<1>1. panelAt = "detail" /\ panelAt \in Syncing /\ Panel!Operator /\ UNCHANGED <<remote, touched>>
  BY DEF Panel!Detail, Syncing
<1>2. val.pending.kind = "none"
  BY <1>1 DEF PanelInv, PanelHeld, Syncing
<1>3. /\ DOMAIN remote \subseteq {val.panel} /\ val.panel \in Nat /\ val.prev \in Panel!Contents
      /\ \A p \in DOMAIN remote \ touched : remote[p] = val.prev
      /\ val.panel \in DOMAIN remote => val.panel \in DOMAIN writes /\ val.panel # Panel!NoPanel
  BY <1>1, <1>2, Holding, WorldKnown, Fields DEF Panel!NoPanel
<1>4. CASE val.panel \in DOMAIN remote /\ Panel!Persist("update")
  BY <1>1, <1>3, <1>4, Holding, PersistKeeps
<1>5. CASE Panel!Releases /\ UNCHANGED writes
  <2>1. WorldFits
    BY <1>1, <1>5, WorldStays
  <2>2. CASE Panel!Save(Panel!Failed(val))
    BY <1>1, <1>3, <1>5, <2>1, <2>2, EndsFailed
  <2>3. CASE Panel!Save([val EXCEPT !.state = "paused"])
    BY <1>1, <1>2, <1>3, <1>5, <2>1, <2>3, EndsPaused
  <2>4. CASE val.panel \in DOMAIN remote /\ Panel!Save(Panel!Synced(val, val.panel, val.prev))
    BY <1>1, <1>3, <1>5, <2>1, <2>4, EndsSynced, Holding
  <2> QED BY <1>5, <2>2, <2>3, <2>4, <1>4 DEF Panel!Detail
<1> QED BY <1>4, <1>5 DEF Panel!Detail

\* A read that settles nothing.
LEMMA HarmlessKeeps ==
    ASSUME PanelInv, panelAt \in {"list", "detail", "readback"}, Panel!Releases, Panel!Operator,
           UNCHANGED <<writes, remote, touched>>,
           Panel!Save(Panel!Harmless(val)) \/ Panel!Save(Panel!Unknown(val))
    PROVE  PanelInv'
<1>1. panelAt \in Syncing /\ panelAt \notin {"send", "wire"}
  BY DEF Syncing
<1>2. WorldFits
  BY <1>1, WorldStays
<1>3. val.state # "writing"
  BY <1>1, Holding DEF PanelInv, PanelHeld
<1>4. CASE Panel!Save(Panel!Unknown(val))
  BY <1>1, <1>2, <1>4, WorldKnown, EndsUnknown
<1>5. CASE val.pending.kind = "none" /\ Panel!Save(Panel!Failed(val))
  BY <1>1, <1>2, <1>5, WorldKnown, EndsFailed
<1> QED BY <1>3, <1>4, <1>5 DEF Panel!Harmless

LEMMA ReadBackKeeps == ASSUME PanelInv, Panel!ReadBack PROVE PanelInv'
<1> DEFINE p == IF val.pending.kind = "create" THEN val.pending.op ELSE val.panel
<1>1. /\ panelAt = "readback" /\ panelAt \in Syncing /\ Panel!Releases /\ Panel!Operator
      /\ UNCHANGED <<writes, remote, touched>>
  BY DEF Panel!ReadBack, Syncing
<1>2. WorldFits
  BY <1>1, WorldStays
<1>3. CASE /\ p \in DOMAIN remote /\ remote[p] = Panel!Content(val.pending.body)
           /\ Panel!Save(Panel!Synced(val, p, remote[p]))
  <2>1. DOMAIN remote \subseteq {p} /\ p \in DOMAIN writes /\ p \in Nat
        /\ remote[p] \in Panel!Contents /\ ~remote[p].moved
    BY <1>1, <1>3, WorldKnown DEF Panel!Content
  <2> HIDE DEF p
  <2> QED BY <1>1, <1>2, <1>3, <2>1, EndsSynced
<1>4. CASE Panel!Save(Panel!Harmless(val)) \/ Panel!Save(Panel!Unknown(val))
  BY <1>1, <1>4, HarmlessKeeps
<1> QED BY <1>3, <1>4 DEF Panel!ReadBack

LEMMA ReadFailsKeeps == ASSUME PanelInv, Panel!ReadFails PROVE PanelInv'
BY HarmlessKeeps DEF Panel!ReadFails

LEMMA SpareKeeps ==
    ASSUME PanelInv, panelAt \in {"send", "wire"}, NEW o \in {"not_sent", "rejected"},
           Panel!Settled(val.pending.op, o), Panel!Save(Panel!Failed(val)), Panel!Releases,
           Panel!Operator, UNCHANGED <<remote, touched>>
    PROVE  PanelInv'
<1>1. panelAt \in Syncing
  BY DEF Syncing
<1> QED BY <1>1, WorldSpared, EndsFailed

LEMMA SendKeeps == ASSUME PanelInv, Panel!Send PROVE PanelInv'
<1>1. CASE /\ Panel!Settled(val.pending.op, "in_flight") /\ panelAt' = "wire"
           /\ UNCHANGED <<panelRow, val, want>>
  <2>1. panelAt = "send" /\ Panel!Operator /\ UNCHANGED <<remote, touched>> /\ panelAt \in Syncing
    BY DEF Panel!Send, Syncing
  <2>2. /\ writes' \in Seq(Undone \cup Perhaps) /\ DOMAIN writes' = DOMAIN writes
        /\ writes'[val.pending.op] = "in_flight" /\ val.pending.op \in DOMAIN writes
        /\ writes[val.pending.op] \in Undone \ Perhaps
        /\ \A i \in DOMAIN writes : i # val.pending.op => writes'[i] = writes[i]
    BY <1>1, <2>1, WorldKnown DEF Panel!Settled, Undone, Perhaps
  <2>3. PanelShaped'
    BY <1>1, <2>1, <2>2 DEF PanelInv, PanelShaped, Panel!Operator, Panel!Places, Noted
  <2>4. PanelKnown'
    BY <1>1, <2>1, <2>2, WorldKnown, Holding, PanelFacts
       DEF PanelInv, PanelKnown, Idle, Panel!Operator, Undone
  <2>5. PanelHeld'
    BY <1>1, <2>1, <2>2 DEF PanelInv, PanelHeld, Syncing
  <2>6. SwitchTrue'
    BY <1>1, <2>1 DEF PanelInv, SwitchTrue, Panel!Operator
  <2> QED BY <2>3, <2>4, <2>5, <2>6 DEF PanelInv
<1>2. CASE /\ Panel!Settled(val.pending.op, "not_sent")
           /\ Panel!Save(Panel!Failed(val)) /\ Panel!Releases
  BY <1>2, SpareKeeps DEF Panel!Send
<1> QED BY <1>1, <1>2 DEF Panel!Send

LEMMA SendFailsKeeps == ASSUME PanelInv, Panel!SendFails PROVE PanelInv'
BY SpareKeeps DEF Panel!SendFails

LEMMA RejectedKeeps == ASSUME PanelInv, Panel!Rejected PROVE PanelInv'
BY SpareKeeps DEF Panel!Rejected

LEMMA AnsweredKeeps == ASSUME PanelInv, Panel!Answered PROVE PanelInv'
<1>1. /\ panelAt = "wire" /\ panelAt \in Syncing /\ Panel!Possible /\ remote' = Panel!Applied
      /\ Panel!Settled(val.pending.op, "succeeded") /\ Panel!Releases /\ Panel!Operator
      /\ UNCHANGED touched
      /\ Panel!Save(Panel!Synced(val, Panel!Written, Panel!Content(val.pending.body)))
  BY DEF Panel!Answered, Syncing
<1>2. "succeeded" \in Perhaps
  BY DEF Perhaps
<1>3. WorldFits /\ DOMAIN remote' \subseteq {Panel!Written} /\ val.pending.kind # "none"
  BY <1>1, <1>2, WorldMoves DEF Panel!Written
<1>4. Panel!Written \in DOMAIN writes /\ Panel!Written \in Nat
  BY <1>1, WorldKnown DEF Panel!Written, Panel!Possible
<1>5. val.pending.body \in Bodies
  BY <1>1, Holding DEF PanelRows, WritesOf
<1>6. Panel!Content(val.pending.body) \in Panel!Contents /\ ~Panel!Content(val.pending.body).moved
  BY <1>5 DEF Panel!Content, Panel!Contents
<1>7. \A q \in DOMAIN remote' \ touched : remote'[q] = Panel!Content(val.pending.body)
  <2> SUFFICES ASSUME NEW q \in DOMAIN remote' \ touched
               PROVE  remote'[q] = Panel!Content(val.pending.body)
    OBVIOUS
  <2>1. q = Panel!Written
    BY <1>3
  <2>2. CASE q \notin DOMAIN remote
    BY <1>1, <2>1, <2>2 DEF Panel!Applied
  <2>3. CASE q \in DOMAIN remote
    <3>1. writes[val.pending.op] = "in_flight"
      BY <1>1 DEF PanelInv, PanelHeld
    <3>2. val.pending.kind # "create"
      BY <1>1, <2>1, <2>3, <3>1, WorldKnown DEF Panel!Written, Perhaps
    <3>3. remote[q] = val.prev
      BY <1>1, <2>3, <3>1, <3>2, WorldKnown DEF Undone
    <3>4. val.prev \in Panel!Contents /\ ~val.prev.moved
      BY <1>1, Holding, Fields
    <3>5. val.prev.moved = FALSE
      BY <3>4 DEF Panel!Contents
    <3>6. PICK b \in Bodies, m \in BOOLEAN : val.prev = [body |-> b, moved |-> m]
      BY <3>4 DEF Panel!Contents
    <3>7. [val.prev EXCEPT !.body = val.pending.body] = [body |-> val.pending.body, moved |-> m]
      BY <3>6
    <3>8. m = FALSE
      BY <3>5, <3>6
    <3> QED BY <1>1, <2>1, <2>3, <3>3, <3>7, <3>8 DEF Panel!Applied, Panel!Content
  <2> QED BY <2>2, <2>3
<1> HIDE DEF Panel!Written
<1> QED BY <1>1, <1>3, <1>4, <1>6, <1>7, EndsSynced

LEMMA UnansweredKeeps ==
    ASSUME PanelInv, panelAt = "wire", Panel!Settled(val.pending.op, "unknown"),
           remote' = remote \/ (Panel!Possible /\ remote' = Panel!Applied),
           Panel!Save(Panel!Unknown(val)), Panel!Releases, Panel!Operator, UNCHANGED touched
    PROVE  PanelInv'
<1>1. panelAt \in Syncing /\ "unknown" \in Perhaps /\ "unknown" \notin Undone
  BY DEF Syncing, Perhaps, Undone
<1> QED BY <1>1, WorldMoves, EndsUnknown

LEMMA UncertainKeeps == ASSUME PanelInv, Panel!Uncertain PROVE PanelInv'
BY UnansweredKeeps DEF Panel!Uncertain

LEMMA PanelUnauthorized == ASSUME PanelInv, Panel!Unauthorized PROVE PanelInv'
<1>1. PanelShaped' /\ PanelKnown'
  BY DEF Panel!Unauthorized, Panel!Operator, PanelInv, PanelShaped, PanelKnown, Noted, Idle,
         Panel!Places
<1>2. PanelHeld' /\ SwitchTrue'
  BY DEF Panel!Unauthorized, Panel!Operator, PanelInv, PanelHeld, SwitchTrue, Syncing
<1> QED BY <1>1, <1>2 DEF PanelInv

\* The lock is given back and nothing else has changed.
LEMMA DropKeeps ==
    ASSUME PanelInv, panelAt \in {"list", "detail", "confirm"}, Panel!Releases, Panel!Operator,
           UNCHANGED <<panelRow, writes, remote, touched>>
    PROVE  PanelInv'
<1>1. PanelShaped' /\ PanelKnown'
  BY DEF Panel!Releases, Panel!Operator, PanelInv, PanelShaped, PanelKnown, Noted, Idle,
         Panel!Places
<1>2. PanelHeld' /\ SwitchTrue'
  BY DEF Panel!Releases, Panel!Operator, PanelInv, PanelHeld, SwitchTrue, Syncing
<1> QED BY <1>1, <1>2 DEF PanelInv

-----------------------------------------------------------------------------
(* A plugin's own write, and the operator.                                 *)

LEMMA ManualStartKeeps == ASSUME PanelInv, Panel!ManualStart PROVE PanelInv'
<1> DEFINE op == Len(writes) + 1
<1>1. /\ panelAt = "idle" /\ panelRow.panel # Panel!NoPanel /\ panelRow.pending = Panel!NoPending
      /\ panelRow.manual = Panel!NoPending /\ writes' = Append(writes, "reserved")
      /\ val' = panelRow /\ panelAt' = "msend" /\ want' = want
      /\ UNCHANGED <<plan, wants, remote, touched>>
  BY PanelFacts DEF Panel!ManualStart, Panel!Operator
<1>2. PICK kind \in {"update", "delete", "target"}, b \in Bodies :
         panelRow' = [panelRow EXCEPT !.enabled = FALSE, !.state = "paused",
                         !.manual = [kind |-> kind, body |-> b, op |-> op]]
  BY DEF Panel!ManualStart
<1> DEFINE w == [kind |-> kind, body |-> b, op |-> op]
<1>3. /\ panelRow \in PanelRows /\ ~panelRow.prev.moved /\ panelRow.panel \in DOMAIN writes
      /\ writes \in Seq(Undone \cup Perhaps) /\ panelRow.state # "writing"
  BY <1>1 DEF PanelInv, PanelShaped, PanelHeld
<1>4. op \in Nat /\ op \notin DOMAIN writes /\ \A i \in DOMAIN writes : i < op
  BY <1>3
<1>5. w \in WritesOf({"none", "update", "delete", "target"}) /\ w.kind # "none" /\ w.kind # "create"
      /\ w.op = op
  BY <1>4 DEF WritesOf
<1>6. /\ writes' \in Seq(Undone \cup Perhaps) /\ DOMAIN writes' = DOMAIN writes \cup {op}
      /\ writes'[op] = "reserved" /\ \A i \in DOMAIN writes : writes'[i] = writes[i]
  BY <1>1, <1>3 DEF Undone
<1> HIDE DEF w, op
<1>7. RowIs("paused", FALSE, panelRow.panel, panelRow.prev, Panel!NoPending, w)
  BY <1>1, <1>2, <1>3, <1>5 DEF RowIs, PanelRows, PanelStates, w
<1>8. PanelShaped'
  BY <1>1, <1>3, <1>4, <1>5, <1>6, <1>7, PanelFacts
     DEF PanelInv, PanelShaped, RowIs, Noted, Panel!Places
<1>9. PanelKnown'
  BY <1>1, <1>3, <1>5, <1>6, <1>7, PanelFacts
     DEF PanelInv, PanelShaped, PanelKnown, RowIs, Idle
<1>10. PanelHeld'
  BY <1>1, <1>3, <1>5, <1>6, <1>7 DEF PanelHeld, RowIs, Syncing
<1>11. SwitchTrue'
  <2>1. panelRow'.cv = panelRow.cv /\ panelRow.cv \in Nat
    BY <1>2, <1>3, PanelAssumption DEF PanelRows
  <2> QED BY <1>1, <1>7, <2>1 DEF PanelInv, SwitchTrue, RowIs
<1> QED BY <1>8, <1>9, <1>10, <1>11 DEF PanelInv

\* What the lock's holder knows while the override is written.
LEMMA Overriding ==
    ASSUME PanelInv, panelAt \in {"msend", "mwire"}
    PROVE  /\ panelRow \in PanelRows /\ val \in PanelRows /\ want \in Bodies /\ plan \in Bodies
           /\ wants \in BOOLEAN /\ ~panelRow.prev.moved
           /\ writes \in Seq(Undone \cup Perhaps) /\ DOMAIN remote \subseteq DOMAIN writes
           /\ remote \in [DOMAIN remote -> Panel!Contents]
           /\ \A p \in DOMAIN remote : writes[p] \in Perhaps
           /\ panelRow.panel \in DOMAIN writes /\ panelRow.panel # Panel!NoPanel
           /\ DOMAIN remote \subseteq {panelRow.panel} /\ panelRow.pending = Panel!NoPending
           /\ panelRow.manual.kind \notin {"none", "create"} /\ panelRow.manual.op \in DOMAIN writes
           /\ panelRow.manual.op # panelRow.panel /\ ~panelRow.enabled
           /\ writes[panelRow.manual.op] \in {"reserved", "in_flight"}
           /\ \A p \in DOMAIN remote \ touched : remote[p] = panelRow.prev
           /\ panelRow.state # "writing" /\ val.state # "writing"
           /\ val.cv <= panelRow.cv /\ (val.cv = panelRow.cv /\ val.enabled => wants)
<1>1. panelRow \in PanelRows /\ val \in PanelRows
  BY DEF PanelInv, PanelShaped
<1>2. panelRow.manual.kind # "none" /\ writes[panelRow.manual.op] \in {"reserved", "in_flight"}
  BY DEF PanelInv, PanelHeld
<1>3. panelRow.manual.kind # "create" /\ panelRow.panel \in Nat /\ panelRow.manual.op \in Nat
  BY <1>1 DEF PanelRows, WritesOf
<1>4. /\ panelRow.pending.kind = "none" /\ panelRow.panel # Panel!NoPanel /\ ~panelRow.enabled
      /\ DOMAIN remote \subseteq {panelRow.panel}
  BY <1>2 DEF PanelInv, PanelKnown
<1>5. panelRow.manual.op \in DOMAIN writes /\ panelRow.panel < panelRow.manual.op
      /\ panelRow.pending = Panel!NoPending
  BY <1>2, <1>4 DEF PanelInv, PanelShaped, Noted
<1>6. \A p \in DOMAIN remote \ touched : remote[p] = panelRow.prev
  BY <1>2, <1>3, <1>4 DEF PanelInv, PanelKnown, Idle, Undone
<1>7. panelRow.manual.op # panelRow.panel
  BY <1>3, <1>5
<1>8. panelRow.state # "writing" /\ val.state # "writing"
  BY DEF PanelInv, PanelHeld
<1> QED BY <1>1, <1>2, <1>3, <1>4, <1>5, <1>6, <1>7, <1>8
        DEF PanelInv, PanelShaped, PanelKnown, SwitchTrue

\* The ledger of an override that goes on or ends.
LEMMA OverrideFits ==
    ASSUME PanelInv, panelAt \in {"msend", "mwire"}, NEW o \in Undone \cup Perhaps,
           Panel!Settled(panelRow.manual.op, o),
           remote' = remote \/ (panelRow.panel \in DOMAIN remote /\ remote' = Panel!Overridden)
    PROVE  /\ WorldFits /\ DOMAIN remote' \subseteq {panelRow.panel}
           /\ writes'[panelRow.manual.op] = o
<1>1. /\ writes' \in Seq(Undone \cup Perhaps) /\ DOMAIN writes' = DOMAIN writes
      /\ writes'[panelRow.manual.op] = o
      /\ \A i \in DOMAIN writes : i # panelRow.manual.op => writes'[i] = writes[i]
  BY Overriding DEF Panel!Settled
<1>2. \A p \in DOMAIN remote : writes'[p] \in Perhaps
  BY <1>1, Overriding
<1>3. CASE remote' = remote
  BY <1>1, <1>2, <1>3, Overriding DEF WorldFits
<1>4. CASE panelRow.panel \in DOMAIN remote /\ remote' = Panel!Overridden
  <2>1. panelRow.manual.body \in Bodies /\ remote[panelRow.panel] \in Panel!Contents
    BY <1>4, Overriding DEF PanelRows, WritesOf
  <2>2. DOMAIN remote' \subseteq DOMAIN remote /\ remote' \in [DOMAIN remote' -> Panel!Contents]
    <3>1. CASE remote' = [remote EXCEPT ![panelRow.panel].body = panelRow.manual.body]
      BY <2>1, <3>1, Overriding DEF Panel!Contents
    <3>2. CASE remote' = [remote EXCEPT ![panelRow.panel].moved = TRUE]
      BY <2>1, <3>2, Overriding DEF Panel!Contents
    <3>3. CASE remote' = [q \in DOMAIN remote \ {panelRow.panel} |-> remote[q]]
      BY <3>3, Overriding
    <3> QED BY <1>4, <3>1, <3>2, <3>3 DEF Panel!Overridden
  <2> QED BY <1>1, <1>2, <2>2, Overriding DEF WorldFits
<1> QED BY <1>3, <1>4

LEMMA OverrideGoes ==
    ASSUME PanelInv, panelAt \in {"msend", "mwire"}, NEW o \in Undone \cup Perhaps,
           Panel!Settled(panelRow.manual.op, o), UNCHANGED <<panelRow, val, want, touched>>,
           Panel!Operator, panelAt' = "idle" \/ (panelAt' = "mwire" /\ o = "in_flight"),
           \/ remote' = remote
           \/ o \in Perhaps /\ panelRow.panel \in DOMAIN remote /\ remote' = Panel!Overridden
    PROVE  PanelInv'
<1>1. WorldFits /\ DOMAIN remote' \subseteq {panelRow.panel} /\ writes'[panelRow.manual.op] = o
  BY OverrideFits
<1>2. o \in Perhaps => o \notin Undone
  BY DEF Undone, Perhaps
<1>3. PanelShaped'
  BY <1>1, Overriding DEF PanelInv, PanelShaped, WorldFits, Noted, Panel!Operator, Panel!Places
<1>4. PanelKnown'
  BY <1>1, <1>2, Overriding, PanelFacts DEF PanelKnown, WorldFits, Idle
<1>5. PanelHeld'
  BY <1>1, Overriding DEF PanelHeld, Syncing
<1>6. SwitchTrue'
  BY Overriding DEF SwitchTrue, Panel!Operator
<1> QED BY <1>3, <1>4, <1>5, <1>6 DEF PanelInv

\* An override that provably changed nothing.
LEMMA OverrideFails ==
    ASSUME PanelInv, panelAt \in {"msend", "mwire"}, NEW o \in {"not_sent", "rejected"},
           Panel!Settled(panelRow.manual.op, o), Panel!Restore, Panel!Releases, Panel!Operator,
           UNCHANGED <<remote, touched>>
    PROVE  PanelInv'
<1>1. o \in Undone
  BY DEF Undone
<1>2. CASE UNCHANGED panelRow
  BY <1>1, <1>2, OverrideGoes DEF Panel!Releases
<1>3. CASE panelRow.cv = val.cv /\ panelRow' = [panelRow EXCEPT !.enabled = val.enabled,
                                        !.state = val.state, !.manual = Panel!NoPending]
  <2>1. WorldFits
    BY <1>1, OverrideFits
  <2>2. RowIs(val.state, val.enabled, panelRow.panel, panelRow.prev, Panel!NoPending,
              Panel!NoPending)
    BY <1>3, Overriding, Fields, PanelFacts DEF RowIs, PanelRows, WritesOf
  <2>3. PanelShaped'
    BY <2>1, <2>2, Overriding, PanelFacts
       DEF PanelInv, PanelShaped, RowIs, WorldFits, Noted, Panel!Releases, Panel!Operator,
           Panel!Places
  <2>4. PanelKnown'
    BY <2>1, <2>2, Overriding, PanelFacts DEF PanelKnown, RowIs, WorldFits
  <2>5. PanelHeld'
    BY <2>2, Overriding DEF PanelHeld, RowIs, Syncing, Panel!Releases
  <2>6. SwitchTrue'
    BY <1>3, <2>2, Overriding DEF SwitchTrue, RowIs, Panel!Releases, Panel!Operator
  <2> QED BY <2>3, <2>4, <2>5, <2>6 DEF PanelInv
<1> QED BY <1>2, <1>3, PanelFacts DEF Panel!Restore, Panel!MayRestore

LEMMA ManualSendKeeps == ASSUME PanelInv, Panel!ManualSend PROVE PanelInv'
<1>1. "in_flight" \in Undone
  BY DEF Undone
<1> QED BY <1>1, OverrideGoes, OverrideFails DEF Panel!ManualSend

LEMMA ManualEnds ==
    ASSUME PanelInv,
           Panel!ManualAnswered \/ Panel!ManualRejected \/ Panel!ManualUncertain
    PROVE  PanelInv'
<1>1. "succeeded" \in Perhaps /\ "unknown" \in Perhaps
  BY DEF Perhaps
<1>2. CASE Panel!ManualAnswered
  BY <1>1, <1>2, OverrideGoes DEF Panel!ManualAnswered, Panel!Releases
<1>3. CASE Panel!ManualRejected
  BY <1>3, OverrideFails DEF Panel!ManualRejected
<1>4. CASE Panel!ManualUncertain
  BY <1>1, <1>4, OverrideGoes DEF Panel!ManualUncertain, Panel!Releases
<1> QED BY <1>2, <1>3, <1>4

\* The switch is on again, of a row nothing is open in.
LEMMA EnabledKeeps ==
    ASSUME PanelInv, panelAt \in {"idle", "confirm"}, NEW v \in PanelRows, Panel!Enabled(v),
           Panel!Releases, v.cv < MaxControl, v.state # "writing", ~v.prev.moved,
           v.panel \in {Panel!NoPanel} \cup DOMAIN writes, v.manual = Panel!NoPending,
           Noted(panelRow.pending), v.pending = panelRow.pending, v.pending.kind = "none",
           DOMAIN remote \subseteq {v.panel},
           \A p \in DOMAIN remote \ touched : remote[p] = v.prev,
           UNCHANGED <<plan, writes, remote, touched>>
    PROVE  PanelInv'
<1>1. v.cv + 1 \in 0..MaxControl
  BY Fields, PanelAssumption
<1>2. RowIs(v.state, TRUE, v.panel, v.prev, v.pending, Panel!NoPending)
  BY <1>1, Fields, PanelFacts DEF Panel!Enabled, RowIs, PanelRows, WritesOf
<1>3. wants' = TRUE /\ v.pending = Panel!NoPending
  BY DEF Panel!Enabled, Noted
<1>4. PanelShaped'
  BY <1>2, <1>3, PanelFacts
     DEF PanelInv, PanelShaped, RowIs, Noted, Panel!Places, Panel!Releases
<1>5. PanelKnown'
  BY <1>2, <1>3, PanelFacts DEF PanelInv, PanelKnown, RowIs
<1>6. PanelHeld' /\ SwitchTrue'
  BY <1>2, <1>3 DEF PanelHeld, SwitchTrue, RowIs, Panel!Releases, Syncing
<1> QED BY <1>4, <1>5, <1>6 DEF PanelInv

LEMMA EnableKeeps == ASSUME PanelInv, Panel!Enable PROVE PanelInv'
<1>1. /\ panelAt = "idle" /\ panelRow.cv < MaxControl /\ panelRow.pending = Panel!NoPending
      /\ UNCHANGED <<plan, writes, remote, touched>> /\ panelRow.pending.kind = "none"
  BY PanelFacts DEF Panel!Enable
<1>2. /\ panelRow \in PanelRows /\ panelRow.state # "writing" /\ ~panelRow.prev.moved
      /\ panelRow.panel \in {Panel!NoPanel} \cup DOMAIN writes
      /\ Noted(panelRow.pending) /\ Noted(panelRow.manual)
  BY <1>1 DEF PanelInv, PanelShaped, PanelHeld
<1>3. CASE panelRow.manual = Panel!NoPending /\ Panel!Enabled(panelRow)
           /\ UNCHANGED <<panelAt, val, want>>
  <2>1. /\ DOMAIN remote \subseteq {panelRow.panel}
        /\ \A p \in DOMAIN remote \ touched : remote[p] = panelRow.prev
    BY <1>1, <1>3, PanelFacts DEF PanelInv, PanelKnown, Idle
  <2>2. Panel!Releases
    BY <1>1, <1>3 DEF Panel!Releases
  <2> QED BY <1>1, <1>2, <1>3, <2>1, <2>2, EnabledKeeps
<1>4. CASE /\ panelRow.manual # Panel!NoPending /\ panelAt' = "confirm"
           /\ val' = panelRow /\ want' = plan /\ UNCHANGED <<panelRow, wants>>
  <2>1. panelRow.manual.kind # "none"
    BY <1>2, <1>4 DEF Noted
  <2>2. PanelShaped' /\ PanelKnown'
    BY <1>1, <1>2, <1>4
       DEF PanelInv, PanelShaped, PanelKnown, Noted, Idle, Panel!Places
  <2>3. PanelHeld' /\ SwitchTrue'
    BY <1>1, <1>2, <1>4, <2>1 DEF PanelInv, PanelHeld, SwitchTrue, Syncing
  <2> QED BY <2>2, <2>3 DEF PanelInv
<1> QED BY <1>3, <1>4, PanelFacts DEF Panel!Enable

LEMMA ConfirmKeeps == ASSUME PanelInv, Panel!Confirm PROVE PanelInv'
<1>1. panelAt = "confirm" /\ Panel!Releases /\ UNCHANGED <<plan, writes, remote, touched>>
  BY DEF Panel!Confirm
<1>2. CASE UNCHANGED <<panelRow, wants>>
  BY <1>1, <1>2, DropKeeps DEF Panel!Operator
<1>3. CASE panelRow = val /\ \E v \in Panel!Adopted : Panel!Enabled(v)
  <2>1. PICK v \in Panel!Adopted : Panel!Enabled(v)
    BY <1>3
  <2>2. /\ val \in PanelRows /\ val.cv < MaxControl /\ ~val.prev.moved /\ val.manual.kind # "none"
        /\ val.panel \in DOMAIN writes /\ val.panel # Panel!NoPanel
        /\ val.pending.kind = "none" /\ Noted(panelRow.pending)
        /\ DOMAIN remote \subseteq {val.panel} /\ remote \in [DOMAIN remote -> Panel!Contents]
    BY <1>1, <1>3 DEF PanelInv, PanelShaped, PanelKnown, PanelHeld
  <2> DEFINE u == [val EXCEPT !.manual = Panel!NoPending, !.state = "paused"]
  <2>3. /\ u \in PanelRows /\ u.cv = val.cv /\ u.state = "paused" /\ u.prev = val.prev
        /\ u.panel = val.panel /\ u.manual = Panel!NoPending /\ u.pending = val.pending
    BY <2>2, Fields, PanelFacts DEF PanelRows, PanelStates, WritesOf
  <2> HIDE DEF u
  <2>4. CASE v = u /\ \A p \in DOMAIN remote : remote[p] = val.prev
    BY <1>1, <1>3, <2>1, <2>2, <2>3, <2>4, EnabledKeeps
  <2>5. CASE v = [u EXCEPT !.panel = Panel!NoPanel] /\ val.panel \notin DOMAIN remote
    <3>1. /\ v \in PanelRows /\ v.cv = val.cv /\ v.state = "paused" /\ v.prev = val.prev
          /\ v.panel = Panel!NoPanel /\ v.manual = Panel!NoPending /\ v.pending = val.pending
      BY <2>3, <2>5 DEF PanelRows, Panel!NoPanel
    <3>2. DOMAIN remote = {}
      BY <2>2, <2>5
    <3> QED BY <1>1, <1>3, <2>1, <2>2, <3>1, <3>2, EnabledKeeps
  <2>6. CASE /\ val.panel \in DOMAIN remote /\ v = [u EXCEPT !.prev = remote[val.panel]]
             /\ remote[val.panel] = [val.prev EXCEPT !.body = val.manual.body]
    <3>1. remote[val.panel] \in Panel!Contents
      BY <2>2, <2>6
    <3>2. ~remote[val.panel].moved
      BY <2>2, <2>6, Fields DEF Panel!Contents
    <3>3. /\ v \in PanelRows /\ v.cv = val.cv /\ v.state = "paused"
          /\ v.prev = remote[val.panel] /\ v.panel = val.panel
          /\ v.manual = Panel!NoPending /\ v.pending = val.pending
      BY <2>3, <2>6, <3>1 DEF PanelRows
    <3> QED BY <1>1, <1>3, <2>1, <2>2, <3>2, <3>3, EnabledKeeps
  <2>7. Panel!NoManual = Panel!NoPending
    BY PanelFacts
  <2>8. \A p \in DOMAIN remote : p = val.panel
    BY <2>2
  <2>9. \/ v = u /\ val.panel \in DOMAIN remote /\ remote[val.panel] = val.prev
        \/ v = [u EXCEPT !.panel = Panel!NoPanel] /\ val.panel \notin DOMAIN remote
        \/ /\ val.panel \in DOMAIN remote /\ v = [u EXCEPT !.prev = remote[val.panel]]
           /\ remote[val.panel] = [val.prev EXCEPT !.body = val.manual.body]
    BY <2>1, <2>7 DEF Panel!Adopted, u
  <2>10. remote[val.panel] = val.prev => \A p \in DOMAIN remote : remote[p] = val.prev
    BY <2>8
  <2> QED BY <2>4, <2>5, <2>6, <2>9, <2>10
<1> QED BY <1>2, <1>3 DEF Panel!Confirm

LEMMA DisableKeeps == ASSUME PanelInv, Panel!Disable PROVE PanelInv'
<1>1. panelRow \in PanelRows /\ panelRow.cv \in Nat /\ panelRow.cv + 1 \in 0..MaxControl
  BY PanelAssumption DEF PanelInv, PanelShaped, Panel!Disable, PanelRows
<1>2. RowIs(panelRow.state, FALSE, panelRow.panel, panelRow.prev, panelRow.pending,
            panelRow.manual) /\ panelRow'.cv = panelRow.cv + 1
  BY <1>1 DEF Panel!Disable, RowIs, PanelRows
<1>3. UNCHANGED <<plan, panelAt, val, want, writes, remote, touched>> /\ wants' = FALSE
  BY DEF Panel!Disable
<1>4. PanelShaped'
  BY <1>2, <1>3 DEF PanelInv, PanelShaped, RowIs, Noted
<1>5. PanelKnown'
  BY <1>2, <1>3 DEF PanelInv, PanelKnown, RowIs, Idle
<1>6. PanelHeld'
  BY <1>2, <1>3 DEF PanelInv, PanelHeld, RowIs, Syncing
<1>7. SwitchTrue'
  <2>1. val.cv \in Int
    BY Fields DEF PanelInv, PanelShaped
  <2> QED BY <1>1, <1>2, <1>3, <2>1 DEF PanelInv, SwitchTrue, RowIs
<1> QED BY <1>4, <1>5, <1>6, <1>7 DEF PanelInv

LEMMA ApplyPlanKeeps == ASSUME PanelInv, Panel!Apply PROVE PanelInv'
BY DEF Panel!Apply, PanelInv, PanelShaped, PanelKnown, PanelHeld, SwitchTrue, Noted, Idle, Syncing

-----------------------------------------------------------------------------
(* Cancellation, crash, age, and the outside world.                        *)

LEMMA PanelCancelKeeps == ASSUME PanelInv, Panel!Cancel PROVE PanelInv'
<1>1. panelAt # "idle" /\ Panel!Releases /\ remote' \in Panel!Perhaps /\ Panel!Operator
      /\ UNCHANGED touched /\ panelAt \in Panel!Places
  BY DEF Panel!Cancel, PanelInv, PanelShaped
<1>2. CASE panelAt = "wire"
  BY <1>1, <1>2, UnansweredKeeps
     DEF Panel!Cancel, Panel!Perhaps, Panel!Current, Panel!Settled
<1>3. CASE panelAt = "send"
  <2>1. /\ remote' = remote /\ Panel!Settled(val.pending.op, "not_sent")
        /\ Panel!Save(Panel!Unknown(val)) /\ panelAt \in Syncing
    BY <1>1, <1>3 DEF Panel!Cancel, Panel!Perhaps, Panel!Current, Panel!Settled, Syncing
  <2>2. /\ WorldFits /\ DOMAIN remote' \subseteq {val.panel}
        /\ \A p \in DOMAIN remote' \ touched : remote'[p] = val.prev
    BY <1>3, <2>1, WorldSpared
  <2> QED BY <1>1, <2>1, <2>2, WorldKnown, EndsUnknown
<1>4. CASE panelAt = "readback"
  <2>1. /\ remote' = remote /\ writes' = writes /\ Panel!Save(Panel!Unknown(val))
        /\ panelAt \in Syncing
    BY <1>1, <1>4 DEF Panel!Cancel, Panel!Perhaps, Syncing
  <2> QED BY <1>1, <1>4, <2>1, HarmlessKeeps
<1>5. CASE panelAt \in {"list", "detail", "confirm"}
  <2>1. UNCHANGED <<panelRow, writes, remote>>
    BY <1>1, <1>5 DEF Panel!Cancel, Panel!Perhaps
  <2> QED BY <1>1, <1>5, <2>1, DropKeeps
<1>6. CASE panelAt = "msend"
  <2>1. /\ remote' = remote /\ Panel!Settled(panelRow.manual.op, "not_sent") /\ UNCHANGED panelRow
        /\ "not_sent" \in Undone
    BY <1>1, <1>6 DEF Panel!Cancel, Panel!Perhaps, Panel!Current, Panel!Settled, Undone
  <2> QED BY <1>1, <1>6, <2>1, OverrideGoes DEF Panel!Releases
<1>7. CASE panelAt = "mwire"
  <2>1. /\ Panel!Settled(panelRow.manual.op, "unknown") /\ UNCHANGED panelRow
        /\ "unknown" \in Perhaps
        /\ \/ remote' = remote
           \/ panelRow.panel \in DOMAIN remote /\ remote' = Panel!Overridden
    BY <1>1, <1>7 DEF Panel!Cancel, Panel!Perhaps, Panel!Current, Panel!Settled, Perhaps
  <2> QED BY <1>1, <1>7, <2>1, OverrideGoes DEF Panel!Releases
<1> QED BY <1>1, <1>2, <1>3, <1>4, <1>5, <1>6, <1>7 DEF Panel!Places

\* The row as the next start leaves it.
LEMMA CrashEnds ==
    ASSUME PanelInv, panelAt \in Syncing, Panel!Releases, Panel!Operator, UNCHANGED touched,
           panelRow' = IF panelRow.state = "writing" THEN Panel!Unknown(panelRow) ELSE panelRow,
           WorldFits,
           val.pending.kind = "create" => DOMAIN remote' \subseteq {val.pending.op},
           val.pending.kind # "create" => DOMAIN remote' \subseteq {val.panel},
           val.pending.kind = "none" \/ (val.pending.kind # "create"
                                          /\ writes'[val.pending.op] \in Undone) =>
               \A p \in DOMAIN remote' \ touched : remote'[p] = val.prev
    PROVE  PanelInv'
<1>1. /\ panelRow' \in PanelRows /\ panelRow'.state # "writing"
      /\ panelRow'.enabled = panelRow.enabled /\ panelRow'.panel = panelRow.panel
      /\ panelRow'.prev = panelRow.prev /\ panelRow'.pending = panelRow.pending
      /\ panelRow'.manual = panelRow.manual
  BY Holding DEF Panel!Unknown, PanelRows, PanelStates
<1>2. SyncOver
  BY <1>1, Holding DEF SyncOver, Panel!Releases, Panel!Operator
<1>3. SyncLearns
  BY <1>1, Holding DEF SyncLearns, Idle
<1> QED BY <1>2, <1>3, SyncEnds

LEMMA PanelCrashKeeps == ASSUME PanelInv, Panel!Crash PROVE PanelInv'
<1>1. /\ panelAt # "idle" /\ Panel!Releases /\ remote' \in Panel!Perhaps /\ Panel!Operator
      /\ panelRow' = IF panelRow.state = "writing" THEN Panel!Unknown(panelRow) ELSE panelRow
      /\ UNCHANGED touched /\ panelAt \in Panel!Places
  BY DEF Panel!Crash, PanelInv, PanelShaped
<1>2. CASE panelAt = "wire"
  <2>1. PICK o \in Perhaps \ Undone : Panel!Settled(val.pending.op, o)
    BY <1>2 DEF Panel!Crash, Panel!Current, Panel!Settled, Perhaps, Undone
  <2>2. remote' = remote \/ (Panel!Possible /\ remote' = Panel!Applied)
    BY <1>1, <1>2 DEF Panel!Perhaps
  <2>3. panelAt \in Syncing
    BY <1>2 DEF Syncing
  <2> QED BY <1>1, <1>2, <2>1, <2>2, <2>3, WorldMoves, CrashEnds
<1>3. CASE panelAt = "send"
  <2>1. remote' = remote /\ panelAt \in Syncing
    BY <1>1, <1>3 DEF Panel!Perhaps, Syncing
  <2>2. CASE Panel!Settled(val.pending.op, "not_sent")
    <3>1. /\ WorldFits /\ DOMAIN remote' \subseteq {val.panel}
          /\ \A p \in DOMAIN remote' \ touched : remote'[p] = val.prev
      BY <1>3, <2>1, <2>2, WorldSpared
    <3> QED BY <1>1, <2>1, <3>1, WorldKnown, CrashEnds
  <2>3. CASE Panel!Settled(val.pending.op, "missing")
    <3>1. /\ writes' \in Seq(Undone \cup Perhaps) /\ DOMAIN writes' = DOMAIN writes
          /\ writes'[val.pending.op] = "missing"
          /\ \A i \in DOMAIN writes : i # val.pending.op => writes'[i] = writes[i]
          /\ val.pending.kind # "none"
      BY <1>3, <2>1, <2>3, WorldKnown DEF Panel!Settled, Perhaps
    <3>2. WorldFits /\ "missing" \notin Undone
      BY <2>1, <3>1, WorldKnown DEF WorldFits, Perhaps, Undone
    <3> QED BY <1>1, <2>1, <3>1, <3>2, WorldKnown, CrashEnds
  <2> QED BY <1>3, <2>2, <2>3 DEF Panel!Crash, Panel!Current, Panel!Settled
<1>4. CASE panelAt \in {"list", "detail", "readback"}
  <2>1. remote' = remote /\ writes' = writes /\ panelAt \in Syncing
    BY <1>1, <1>4 DEF Panel!Crash, Panel!Perhaps, Syncing
  <2>2. WorldFits
    BY <2>1, WorldStays
  <2> QED BY <1>1, <2>1, <2>2, WorldKnown, CrashEnds
<1>5. CASE panelAt = "confirm"
  <2>1. UNCHANGED <<panelRow, writes, remote>>
    BY <1>1, <1>5 DEF Panel!Crash, Panel!Perhaps, PanelInv, PanelHeld
  <2> QED BY <1>1, <1>5, <2>1, DropKeeps
<1>6. CASE panelAt = "msend"
  <2>1. remote' = remote /\ UNCHANGED panelRow
    BY <1>1, <1>6, Overriding DEF Panel!Perhaps
  <2>2. PICK o \in Undone \cup Perhaps : Panel!Settled(panelRow.manual.op, o)
    BY <1>6 DEF Panel!Crash, Panel!Current, Panel!Settled, Perhaps, Undone
  <2> QED BY <1>1, <1>6, <2>1, <2>2, OverrideGoes DEF Panel!Releases
<1>7. CASE panelAt = "mwire"
  <2>1. UNCHANGED panelRow /\ \/ remote' = remote
                              \/ panelRow.panel \in DOMAIN remote /\ remote' = Panel!Overridden
    BY <1>1, <1>7, Overriding DEF Panel!Perhaps
  <2>2. PICK o \in Perhaps : Panel!Settled(panelRow.manual.op, o)
    BY <1>7 DEF Panel!Crash, Panel!Current, Panel!Settled, Perhaps
  <2> QED BY <1>1, <1>7, <2>1, <2>2, OverrideGoes DEF Panel!Releases
<1> QED BY <1>1, <1>2, <1>3, <1>4, <1>5, <1>6, <1>7 DEF Panel!Places

LEMMA PanelAgesKeeps == ASSUME PanelInv, Panel!Ages PROVE PanelInv'
<1>1. PICK op \in DOMAIN writes, how \in {"evicted", "missing"} :
         writes[op] \in {"not_sent", "rejected", "succeeded"} /\ Panel!Settled(op, how)
  BY DEF Panel!Ages, Panel!Refuted
<1>2. UNCHANGED <<panelRow, panelAt, val, want, remote, touched, plan, wants>>
  BY DEF Panel!Ages, Panel!Operator
<1>3. /\ writes' \in Seq(Undone \cup Perhaps) /\ DOMAIN writes' = DOMAIN writes
      /\ writes'[op] \in Perhaps \ Undone
      /\ \A i \in DOMAIN writes : i # op => writes'[i] = writes[i]
  BY <1>1 DEF PanelInv, PanelShaped, Panel!Settled, Perhaps, Undone
<1>4. PanelShaped'
  BY <1>2, <1>3 DEF PanelInv, PanelShaped, Noted
<1>5. PanelKnown'
  <2>1. \A w \in {panelRow.pending, panelRow.manual} :
           w.kind = "none" \/ w.op \in DOMAIN writes
    BY DEF PanelInv, PanelShaped, Noted
  <2>2. Idle(panelRow.pending)' /\ Idle(panelRow.manual)'
           => Idle(panelRow.pending) /\ Idle(panelRow.manual)
    BY <1>2, <1>3, <2>1 DEF Idle
  <2> QED BY <1>2, <1>3, <2>2 DEF PanelInv, PanelShaped, PanelKnown
<1>6. PanelHeld'
  <2>1. panelAt \in {"send", "wire"} => val.pending.op # op /\ val.pending.op \in DOMAIN writes
    BY <1>1, WorldKnown DEF Syncing
  <2>2. panelAt \in {"msend", "mwire"} =>
           panelRow.manual.op # op /\ panelRow.manual.op \in DOMAIN writes
    BY <1>1, Overriding
  <2> QED BY <1>2, <1>3, <2>1, <2>2 DEF PanelInv, PanelHeld, Syncing
<1>7. SwitchTrue'
  BY <1>2 DEF PanelInv, SwitchTrue
<1> QED BY <1>4, <1>5, <1>6, <1>7 DEF PanelInv

LEMMA OutsiderKeeps == ASSUME PanelInv, Panel!Outsider PROVE PanelInv'
<1>1. PICK p \in DOMAIN remote :
         /\ touched' = touched \cup {p}
         /\ \/ \E b \in Bodies \ {remote[p].body} : remote' = [remote EXCEPT ![p].body = b]
            \/ remote' = [q \in DOMAIN remote \ {p} |-> remote[q]]
  BY DEF Panel!Outsider
<1>2. UNCHANGED <<panelRow, panelAt, val, want, writes, plan, wants>>
  BY DEF Panel!Outsider, Panel!Operator
<1>3. remote \in [DOMAIN remote -> Panel!Contents]
  BY DEF PanelInv, PanelShaped
<1>4. /\ DOMAIN remote' \subseteq DOMAIN remote /\ remote' \in [DOMAIN remote' -> Panel!Contents]
      /\ \A q \in DOMAIN remote' : q # p => remote'[q] = remote[q]
  <2>1. CASE remote' = [q \in DOMAIN remote \ {p} |-> remote[q]]
    BY <1>3, <2>1
  <2>2. CASE \E b \in Bodies : remote' = [remote EXCEPT ![p].body = b]
    BY <1>3, <2>2 DEF Panel!Contents
  <2> QED BY <1>1, <2>1, <2>2
<1>5. PanelShaped'
  BY <1>2, <1>4 DEF PanelInv, PanelShaped, Noted
<1>6. PanelKnown'
  BY <1>1, <1>2, <1>4 DEF PanelInv, PanelKnown, Idle
<1>7. PanelHeld' /\ SwitchTrue'
  BY <1>2 DEF PanelInv, PanelHeld, SwitchTrue, Syncing
<1> QED BY <1>5, <1>6, <1>7 DEF PanelInv

-----------------------------------------------------------------------------
LEMMA PanelKeep == ASSUME PanelInv, [Panel!Next]_(Panel!vars) PROVE PanelInv'
<1>1. CASE UNCHANGED Panel!vars
  BY <1>1 DEF Panel!vars, PanelInv, PanelShaped, PanelKnown, PanelHeld, SwitchTrue, Noted, Idle
<1>2. CASE Panel!Next
  BY <1>2, SyncKeeps, ListKeeps, DetailKeeps, ReadBackKeeps, ReadFailsKeeps, SendKeeps,
     SendFailsKeeps, AnsweredKeeps, RejectedKeeps, PanelUnauthorized, UncertainKeeps,
     ManualStartKeeps, ManualSendKeeps, ManualEnds, EnableKeeps, ConfirmKeeps, DisableKeeps,
     ApplyPlanKeeps, PanelCancelKeeps, PanelCrashKeeps, PanelAgesKeeps, OutsiderKeeps
     DEF Panel!Next, Panel!SaveFails
<1> QED BY <1>1, <1>2

LEMMA PanelBegin == Panel!Init => PanelInv
<1> SUFFICES ASSUME Panel!Init PROVE PanelInv
  OBVIOUS
<1>1. /\ panelRow = [state |-> "not_managed", enabled |-> FALSE, panel |-> Panel!NoPanel,
                     prev |-> Panel!Content(Panel!NoBody), pending |-> Panel!NoPending,
                     manual |-> Panel!NoPending, cv |-> 0]
      /\ plan \in Bodies /\ panelAt = "idle" /\ val = panelRow /\ want = plan
      /\ writes = << >> /\ remote = << >> /\ wants = FALSE
  BY PanelFacts DEF Panel!Init
<1>2. panelRow \in PanelRows /\ ~panelRow.prev.moved
  BY <1>1, PanelFacts, PanelAssumption
     DEF PanelRows, PanelStates, WritesOf, Panel!Contents, Panel!Content, Panel!NoPanel
<1>3. DOMAIN remote = {} /\ remote \in [{} -> Panel!Contents] /\ writes \in Seq(Undone \cup Perhaps)
  BY <1>1
<1>4. PanelShaped
  BY <1>1, <1>2, <1>3, PanelFacts DEF PanelShaped, Noted, Panel!Places
<1>5. PanelKnown /\ PanelHeld /\ SwitchTrue
  BY <1>1, <1>3, PanelFacts DEF PanelKnown, PanelHeld, SwitchTrue, Syncing
<1> QED BY <1>4, <1>5 DEF PanelInv

LEMMA PanelAlways == ServicesSpec => []PanelInv
<1>1. ServicesInit => PanelInv
  BY PanelBegin DEF ServicesInit
<1>2. PanelInv /\ [ServicesNext]_allVars => PanelInv'
  BY PanelSteps, PanelKeep
<1> QED BY <1>1, <1>2, PTL DEF ServicesSpec

\* What the operator switched off stays off, and what was applied is what every running
\* connection and binding uses, at every moment.
THEOREM OperatorIsObeyed == ServicesSpec => []OperatorObeyed
<1>1. PanelInv => Panel!OffStaysOff
  BY DEF PanelInv, SwitchTrue, Panel!OffStaysOff
<1>2. SettingsInv => Settings!TypeOK /\ Settings!AppliedEverywhere
  BY SettingsCounts
     DEF SettingsInv, SettingsShaped, HistoryTrue, CopiesTrue, Settings!AppliedEverywhere
<1>3. PanelInv /\ SettingsInv => OperatorObeyed
  BY <1>1, <1>2 DEF OperatorObeyed
<1> QED BY <1>3, PanelAlways, SettingsAlways, PTL

\* QQ never has a second panel of the adapter's making, and the row knows the one there is.
LEMMA PanelIsKnown == PanelInv => Panel!TypeOK /\ Panel!NeverRecreated /\ Panel!KnowsItsPanel
<1> SUFFICES ASSUME PanelInv PROVE Panel!TypeOK /\ Panel!NeverRecreated /\ Panel!KnowsItsPanel
  OBVIOUS
<1>1. Panel!TypeOK
  BY DEF PanelInv, PanelShaped, PanelRows, PanelStates, WritesOf, Panel!TypeOK
<1>2. \E p : DOMAIN remote \subseteq {p}
  BY DEF PanelInv, PanelKnown
<1>3. Panel!NeverRecreated
  <2>1. PICK p : DOMAIN remote \subseteq {p}
    BY <1>2
  <2>2. IsFiniteSet({p}) /\ Cardinality({p}) = 1
    BY FS_Singleton
  <2>3. Cardinality(DOMAIN remote) <= 1
    BY <2>1, <2>2, FS_Subset
  <2>4. Panel!Cardinality(DOMAIN remote) = Cardinality(DOMAIN remote)
    BY DEF Panel!Cardinality, Cardinality
  <2> QED BY <2>3, <2>4 DEF Panel!NeverRecreated
<1>4. Panel!KnowsItsPanel
  BY <1>3, PanelFacts DEF PanelInv, PanelKnown, Idle, Panel!KnowsItsPanel
<1> QED BY <1>1, <1>3, <1>4

-----------------------------------------------------------------------------
(* A join request.                                                         *)

LEMMA JoinSteps == [ServicesNext]_allVars => [Join!Next]_(Join!vars)
<1>1. UNCHANGED joinVars => UNCHANGED Join!vars
  BY DEF joinVars, Join!vars
<1> QED BY <1>1
      DEF ServicesNext, LedgerStep, BusStep, StreamStep, FenceStep, MediaStep, NetStep,
          SettingsStep, PanelStep, JoinStep, GroupStep, allVars

JoinStates == {"none", "pending", "attempted", "retryable", "succeeded", "observed_approved"}
AnswerStates == {"none", "issued", "reserved", "in_flight", "succeeded", "rejected", "not_sent",
                 "unknown"}

JoinShaped ==
    /\ joinRow \in [state : JoinStates, flag : {Join!NoFlag} \cup Join!Flags, age : 0..2]
    /\ at \in [Callers -> {"idle", "role", "begun", "wire"}]
    /\ holds \in [Callers -> {Join!NoFlag} \cup Join!Flags]
    /\ answers \in [Join!Flags -> AnswerStates]
    /\ reached \in [Join!Flags -> {"no", "maybe", "taken", "refused"}]
    /\ lapsed \subseteq Join!Flags
    /\ joinRow.state # "none" => joinRow.flag \in Join!Flags
    /\ \A c \in Callers : at[c] # "idle" => holds[c] \in Join!Flags

\* While its fence stands, QQ may have taken only the answer under the flag the row has, and
\* neither the row nor the ledger offers that flag again.
Taken(f) == reached[f] \in {"maybe", "taken"}
OnlyTheRow ==
    \A f \in Join!Flags : Taken(f) =>
        /\ answers[f] \in {"in_flight", "unknown", "succeeded"}
        /\ f \notin lapsed =>
              joinRow.flag = f /\ joinRow.state \in {"attempted", "succeeded", "observed_approved"}

\* The row tells what became of the request; a flag whose fence fell is known and not the row's.
Known(f) == answers[f] = "succeeded" \/ f \in letIn
RowTells ==
    /\ joinRow.state = "succeeded" => answers[joinRow.flag] = "succeeded"
    /\ joinRow.state = "observed_approved" => joinRow.flag \in letIn
    /\ joinRow.state # "none" => answers[joinRow.flag] # "none"
    /\ \A f \in lapsed : Known(f) /\ answers[f] # "none" /\ joinRow.flag # f

\* A flag is answered by one caller at a time, and QQ has what is on the wire at most.
OneAnswers ==
    /\ \A c \in Callers :
          /\ at[c] = "wire" => answers[holds[c]] = "in_flight" /\ Taken(holds[c])
          /\ at[c] = "begun" => answers[holds[c]] \in {"reserved", "in_flight"} /\ ~Taken(holds[c])
    /\ \A c, d \in Callers :
          at[c] \in {"begun", "wire"} /\ at[d] \in {"begun", "wire"} /\ holds[c] = holds[d] => c = d

JoinInv == JoinShaped /\ OnlyTheRow /\ RowTells /\ OneAnswers

\* What is common to the ends of an answer: c leaves, and only its flag is settled.
LEMMA JoinReturns ==
    ASSUME JoinInv, NEW c \in Callers, at[c] \in {"begun", "wire"}, NEW o, NEW r, NEW how,
           answers' = [answers EXCEPT ![holds[c]] = o], Join!Return(c, how),
           reached' = [reached EXCEPT ![holds[c]] = r], holds' = holds,
           UNCHANGED <<letIn, lapsed>>, how = "succeeded" => o = "succeeded",
           o \in AnswerStates \ {"none"}, r \in {"no", "maybe", "taken", "refused"},
           r \in {"maybe", "taken"} => /\ Taken(holds[c]) /\ o \in {"unknown", "succeeded"}
                                       /\ how \notin {"not_sent", "rejected"}
    PROVE  JoinInv'
<1> DEFINE f == holds[c]
<1>1. /\ f \in Join!Flags /\ at' = [at EXCEPT ![c] = "idle"]
      /\ \A d \in Callers : d # c /\ at[d] \in {"begun", "wire"} => holds[d] # f
      /\ answers[f] \in {"reserved", "in_flight"}
  BY DEF JoinInv, JoinShaped, OneAnswers, Join!Return, Join!Move
<1>2. /\ joinRow'.flag = joinRow.flag /\ joinRow'.age = joinRow.age
      /\ joinRow'.state \in {joinRow.state, "succeeded", "retryable"}
      /\ joinRow'.state # joinRow.state => joinRow.state # "none" /\ joinRow.flag = f
      /\ joinRow' \in [state : JoinStates, flag : {Join!NoFlag} \cup Join!Flags, age : 0..2]
      /\ joinRow'.state = "retryable" =>
            joinRow.state = "retryable" \/ (joinRow.flag = f /\ how \in {"not_sent", "rejected"})
      /\ joinRow'.state = "succeeded" =>
            joinRow.state = "succeeded" \/ (joinRow.flag = f /\ o = "succeeded")
  BY DEF JoinInv, JoinShaped, Join!Return, Join!Mine, Join!MayRetry, JoinStates
<1>3. JoinShaped'
  BY <1>1, <1>2 DEF JoinInv, JoinShaped
<1>4. OnlyTheRow'
  <2> SUFFICES ASSUME NEW g \in Join!Flags, Taken(g)'
               PROVE  /\ answers'[g] \in {"in_flight", "unknown", "succeeded"}
                      /\ g \notin lapsed =>
                            /\ joinRow'.flag = g
                            /\ joinRow'.state \in {"attempted", "succeeded", "observed_approved"}
    BY DEF OnlyTheRow
  <2>1. Taken(g)
    BY <1>1 DEF JoinInv, JoinShaped, Taken
  <2>2. /\ answers[g] \in {"in_flight", "unknown", "succeeded"}
        /\ g \notin lapsed =>
              joinRow.flag = g /\ joinRow.state \in {"attempted", "succeeded", "observed_approved"}
    BY <2>1 DEF JoinInv, OnlyTheRow
  <2>3. CASE g = f
    BY <1>1, <1>2, <2>2, <2>3 DEF JoinInv, JoinShaped, Taken
  <2>4. CASE g # f
    BY <1>1, <1>2, <2>2, <2>4 DEF JoinInv, JoinShaped
  <2> QED BY <2>3, <2>4
<1>6. RowTells'
  BY <1>1, <1>2 DEF JoinInv, JoinShaped, RowTells, Known
<1>5. OneAnswers'
  BY <1>1 DEF JoinInv, JoinShaped, OneAnswers, Taken
<1> QED BY <1>3, <1>4, <1>5, <1>6 DEF JoinInv

LEMMA JoinEnds ==
    ASSUME JoinInv, NEW c \in Callers,
           \/ Join!SendFails(c) \/ Join!Answered(c) \/ Join!Rejected(c) \/ Join!Uncertain(c)
    PROVE  JoinInv'
<1>1. /\ holds[c] \in Join!Flags \/ at[c] = "idle"
      /\ UNCHANGED <<letIn, lapsed>>
  BY DEF JoinInv, JoinShaped, Join!SendFails, Join!Answered, Join!Rejected, Join!Uncertain,
         Join!fates
<1>2. CASE Join!SendFails(c)
  <2>1. reached' = [reached EXCEPT ![holds[c]] = reached[holds[c]]] /\ ~Taken(holds[c])
    BY <1>2 DEF Join!SendFails, JoinInv, JoinShaped, OneAnswers
  <2>2. reached[holds[c]] \in {"no", "refused"}
    BY <1>1, <1>2, <2>1 DEF Join!SendFails, JoinInv, JoinShaped, Taken
  <2>3. "not_sent" \in AnswerStates \ {"none"} /\ at[c] \in {"begun", "wire"}
    BY <1>2 DEF AnswerStates, Join!SendFails
  <2>4. /\ answers' = [answers EXCEPT ![holds[c]] = "not_sent"] /\ Join!Return(c, "not_sent")
        /\ holds' = holds
    BY <1>2 DEF Join!SendFails, Join!Settle
  <2> QED BY <1>1, <2>1, <2>2, <2>3, <2>4, JoinReturns
<1>3. CASE Join!Answered(c)
  <2>1. /\ answers' = [answers EXCEPT ![holds[c]] = "succeeded"] /\ Join!Return(c, "succeeded")
        /\ reached' = [reached EXCEPT ![holds[c]] = "taken"] /\ holds' = holds /\ at[c] = "wire"
        /\ "succeeded" \in AnswerStates \ {"none"} /\ Taken(holds[c])
    BY <1>3 DEF Join!Answered, Join!Settle, Join!Reach, AnswerStates, JoinInv, OneAnswers
  <2> QED BY <1>1, <2>1, JoinReturns
<1>4. CASE Join!Rejected(c)
  <2>1. /\ answers' = [answers EXCEPT ![holds[c]] = "rejected"] /\ Join!Return(c, "rejected")
        /\ reached' = [reached EXCEPT ![holds[c]] = "refused"] /\ holds' = holds /\ at[c] = "wire"
        /\ "rejected" \in AnswerStates \ {"none"}
    BY <1>4 DEF Join!Rejected, Join!Settle, Join!Reach, AnswerStates
  <2> QED BY <1>1, <2>1, JoinReturns
<1>5. CASE Join!Uncertain(c)
  <2>1. /\ answers' = [answers EXCEPT ![holds[c]] = "unknown"] /\ Join!Return(c, "result_unknown")
        /\ reached' = [reached EXCEPT ![holds[c]] = reached[holds[c]]] /\ holds' = holds
        /\ at[c] = "wire" /\ "unknown" \in AnswerStates \ {"none"} /\ Taken(holds[c])
        /\ reached[holds[c]] \in {"no", "maybe", "taken", "refused"}
    BY <1>5 DEF Join!Uncertain, Join!Settle, JoinInv, JoinShaped, OneAnswers, AnswerStates
  <2> QED BY <1>1, <2>1, JoinReturns
<1> QED BY <1>2, <1>3, <1>4, <1>5

LEMMA JoinSendKeeps == ASSUME JoinInv, NEW c \in Callers, Join!Send(c) PROVE JoinInv'
<1> DEFINE f == holds[c]
<1>1. /\ at[c] = "begun" /\ f \in Join!Flags /\ UNCHANGED <<holds, letIn, lapsed>> /\ ~Taken(f)
      /\ \A d \in Callers : d # c /\ at[d] \in {"begun", "wire"} => holds[d] # f
      /\ answers[f] \in {"reserved", "in_flight"}
  BY DEF Join!Send, Join!fates, JoinInv, JoinShaped, OneAnswers
<1>2. CASE /\ Join!Claimable(c) /\ joinRow' = [joinRow EXCEPT !.state = "attempted"]
           /\ answers' = [answers EXCEPT ![f] = "in_flight"] /\ at' = [at EXCEPT ![c] = "wire"]
           /\ reached' = [reached EXCEPT ![f] = "maybe"]
  <2>1. /\ joinRow.flag = f /\ joinRow.state \in {"pending", "attempted"}
        /\ joinRow'.flag = f /\ joinRow'.state = "attempted"
        /\ joinRow' \in [state : JoinStates, flag : {Join!NoFlag} \cup Join!Flags, age : 0..2]
    BY <1>2 DEF JoinInv, JoinShaped, JoinStates, Join!Claimable, Join!Mine
  <2>2. JoinShaped'
    BY <1>1, <1>2, <2>1 DEF JoinInv, JoinShaped, AnswerStates
  <2>3. OnlyTheRow'
    BY <1>1, <1>2, <2>1 DEF JoinInv, JoinShaped, OnlyTheRow, Taken
  <2>4. OneAnswers'
    BY <1>1, <1>2 DEF JoinInv, JoinShaped, OneAnswers, Taken
  <2>5. RowTells'
    BY <1>1, <1>2, <2>1 DEF JoinInv, JoinShaped, RowTells, Known
  <2> QED BY <2>2, <2>3, <2>4, <2>5 DEF JoinInv
<1>3. CASE /\ answers' = [answers EXCEPT ![f] = "not_sent"] /\ Join!Return(c, "not_sent")
           /\ UNCHANGED reached
  <2>1. reached' = [reached EXCEPT ![f] = reached[f]] /\ reached[f] \in {"no", "refused"}
    BY <1>1, <1>3 DEF JoinInv, JoinShaped, Taken
  <2>2. "not_sent" \in AnswerStates \ {"none"}
    BY DEF AnswerStates
  <2> QED BY <1>1, <1>3, <2>1, <2>2, JoinReturns
<1> QED BY <1>2, <1>3 DEF Join!Send, Join!Settle, Join!Move, Join!Reach

LEMMA JoinBeginKeeps == ASSUME JoinInv, NEW c \in Callers, Join!Begin(c) PROVE JoinInv'
<1> DEFINE f == holds[c]
<1>1. at[c] = "role" /\ f \in Join!Flags /\ UNCHANGED <<holds, reached, letIn, lapsed>>
  BY DEF Join!Begin, Join!fates, JoinInv, JoinShaped
<1>2. CASE /\ answers[f] = "issued" /\ answers' = [answers EXCEPT ![f] = "reserved"]
           /\ at' = [at EXCEPT ![c] = "begun"] /\ UNCHANGED joinRow
  <2>1. JoinShaped'
    BY <1>1, <1>2 DEF JoinInv, JoinShaped, AnswerStates
  <2>2. OnlyTheRow' /\ ~Taken(f)
    BY <1>1, <1>2 DEF JoinInv, JoinShaped, OnlyTheRow, Taken
  <2>3. OneAnswers'
    BY <1>1, <1>2, <2>2 DEF JoinInv, JoinShaped, OneAnswers, Taken
  <2>4. RowTells'
    BY <1>1, <1>2 DEF JoinInv, JoinShaped, RowTells, Known
  <2> QED BY <2>1, <2>2, <2>3, <2>4 DEF JoinInv
<1>3. CASE /\ at' = [at EXCEPT ![c] = "idle"] /\ UNCHANGED answers
           /\ \/ joinRow' = joinRow
              \/ /\ joinRow.flag = f /\ joinRow.state # "none" /\ answers[f] = "succeeded"
                 /\ joinRow' = [joinRow EXCEPT !.state = "succeeded"]
              \/ /\ joinRow.flag = f /\ joinRow.state # "none" /\ ~Taken(f)
                 /\ joinRow' = [joinRow EXCEPT !.state = "retryable"]
  <2>1. JoinShaped'
    BY <1>1, <1>3 DEF JoinInv, JoinShaped, JoinStates
  <2>2. OnlyTheRow'
    BY <1>1, <1>3 DEF JoinInv, JoinShaped, OnlyTheRow, Taken
  <2>3. OneAnswers'
    BY <1>1, <1>3 DEF JoinInv, JoinShaped, OneAnswers, Taken
  <2>4. RowTells'
    BY <1>1, <1>3 DEF JoinInv, JoinShaped, RowTells, Known
  <2> QED BY <2>1, <2>2, <2>3, <2>4 DEF JoinInv
<1>4. CASE answers[f] # "issued"
  <2>1. UNCHANGED answers /\ at' = [at EXCEPT ![c] = "idle"]
    BY <1>1, <1>4 DEF Join!Begin, Join!Return, Join!Move
  <2>2. CASE answers[f] = "succeeded"
    BY <1>1, <1>3, <1>4, <2>1, <2>2 DEF Join!Begin, Join!Return, Join!Mine
  <2>3. CASE answers[f] \in {"unknown", "in_flight"}
    BY <1>1, <1>3, <1>4, <2>1, <2>3 DEF Join!Begin, Join!Return, Join!Mine, Join!MayRetry
  <2>4. CASE answers[f] \notin {"succeeded", "unknown", "in_flight"}
    <3>1. ~Taken(f)
      BY <1>1, <2>4 DEF JoinInv, OnlyTheRow
    <3> QED BY <1>1, <1>3, <1>4, <2>1, <2>4, <3>1
            DEF Join!Begin, Join!Return, Join!Mine, Join!MayRetry
  <2> QED BY <2>2, <2>3, <2>4
<1> QED BY <1>2, <1>4 DEF Join!Begin, Join!Settle, Join!Move

LEMMA JoinInterrupts ==
    ASSUME JoinInv, NEW f \in Join!Flags
    PROVE  /\ Join!Interrupted(f)[f] \in AnswerStates
           /\ Taken(f) => Join!Interrupted(f)[f] \in {"unknown", "succeeded"}
           /\ answers[f] = "succeeded" => Join!Interrupted(f)[f] = "succeeded"
           /\ answers[f] # "none" => Join!Interrupted(f)[f] # "none"
BY DEF JoinInv, JoinShaped, OnlyTheRow, AnswerStates, Join!Interrupted

LEMMA JoinCancelKeeps == ASSUME JoinInv, NEW c \in Callers, Join!Cancel(c) PROVE JoinInv'
<1>1. /\ at[c] # "idle" /\ at' = [at EXCEPT ![c] = "idle"] /\ UNCHANGED <<joinRow, holds, reached>>
      /\ holds[c] \in Join!Flags /\ UNCHANGED <<letIn, lapsed>>
  BY DEF Join!Cancel, Join!Move, Join!fates, JoinInv, JoinShaped
<1>2. CASE at[c] = "role"
  <2>1. answers' = answers
    BY <1>2 DEF Join!Cancel
  <2> QED BY <1>1, <2>1 DEF JoinInv, JoinShaped, OnlyTheRow, RowTells, Known, OneAnswers, Taken
<1>3. CASE at[c] # "role"
  <2>1. answers' = Join!Interrupted(holds[c]) /\ at[c] \in {"begun", "wire"}
    BY <1>1, <1>3 DEF Join!Cancel, JoinInv, JoinShaped
  <2>2. /\ answers' \in [Join!Flags -> AnswerStates]
        /\ \A g \in Join!Flags : g # holds[c] => answers'[g] = answers[g]
        /\ Taken(holds[c]) => answers'[holds[c]] \in {"unknown", "succeeded"}
        /\ answers[holds[c]] = "succeeded" => answers'[holds[c]] = "succeeded"
        /\ answers[holds[c]] # "none" => answers'[holds[c]] # "none"
    BY <1>1, <2>1 DEF JoinInv, JoinShaped, OnlyTheRow, AnswerStates, Join!Interrupted
  <2>3. JoinShaped'
    BY <1>1, <2>2 DEF JoinInv, JoinShaped
  <2>4. OnlyTheRow'
    BY <1>1, <2>2 DEF JoinInv, JoinShaped, OnlyTheRow, Taken
  <2>5. \A d \in Callers : d # c /\ at[d] \in {"begun", "wire"} => holds[d] # holds[c]
    BY <2>1 DEF JoinInv, OneAnswers
  <2>6. OneAnswers'
    BY <1>1, <2>2, <2>5 DEF JoinInv, JoinShaped, OneAnswers, Taken
  <2>7. RowTells'
    BY <1>1, <2>2 DEF JoinInv, JoinShaped, RowTells, Known
  <2> QED BY <2>3, <2>4, <2>6, <2>7 DEF JoinInv
<1> QED BY <1>2, <1>3

LEMMA JoinCrashKeeps == ASSUME JoinInv, Join!Crash PROVE JoinInv'
<1>1. at' = [c \in Callers |-> "idle"] /\ UNCHANGED <<joinRow, holds, letIn, lapsed>>
  BY DEF Join!Crash, Join!fates
<1>2. CASE answers' = [f \in Join!Flags |-> Join!Interrupted(f)[f]] /\ UNCHANGED reached
  <2>1. JoinShaped'
    BY <1>1, <1>2, JoinInterrupts DEF JoinInv, JoinShaped
  <2>2. OnlyTheRow'
    BY <1>1, <1>2, JoinInterrupts DEF JoinInv, JoinShaped, OnlyTheRow, Taken
  <2>3. RowTells'
    BY <1>1, <1>2, JoinInterrupts DEF JoinInv, JoinShaped, RowTells, Known
  <2> QED BY <1>1, <2>1, <2>2, <2>3 DEF JoinInv, OneAnswers
<1>3. CASE \E c \in Callers, outcome \in {"succeeded", "rejected"} :
             /\ at[c] = "wire"
             /\ answers' = [f \in Join!Flags |->
                              IF f = holds[c] THEN outcome ELSE Join!Interrupted(f)[f]]
             /\ reached' = [reached EXCEPT ![holds[c]] =
                              IF outcome = "succeeded" THEN "taken" ELSE "refused"]
  <2>1. PICK c \in Callers, outcome \in {"succeeded", "rejected"} :
             /\ at[c] = "wire"
             /\ answers' = [f \in Join!Flags |->
                              IF f = holds[c] THEN outcome ELSE Join!Interrupted(f)[f]]
             /\ reached' = [reached EXCEPT ![holds[c]] =
                              IF outcome = "succeeded" THEN "taken" ELSE "refused"]
    BY <1>3
  <2>2. Taken(holds[c]) /\ holds[c] \in Join!Flags /\ answers[holds[c]] = "in_flight"
    BY <2>1 DEF JoinInv, JoinShaped, OneAnswers
  <2>3. JoinShaped'
    BY <1>1, <2>1, <2>2, JoinInterrupts DEF JoinInv, JoinShaped, AnswerStates
  <2>4. \A f \in Join!Flags : Taken(f)' =>
           Taken(f) /\ answers'[f] \in {"in_flight", "unknown", "succeeded"}
    BY <2>1, <2>2, JoinInterrupts DEF JoinInv, JoinShaped, Taken
  <2>5. OnlyTheRow'
    BY <1>1, <2>4 DEF JoinInv, OnlyTheRow
  <2>6. RowTells'
    BY <1>1, <2>1, <2>2, JoinInterrupts DEF JoinInv, JoinShaped, RowTells, Known
  <2> QED BY <1>1, <2>3, <2>5, <2>6 DEF JoinInv, OneAnswers
<1> QED BY <1>2, <1>3 DEF Join!Crash, Join!Reach

LEMMA JoinRowKeeps ==
    ASSUME JoinInv,
           \/ \E fresh \in BOOLEAN : Join!Observe(fresh)
           \/ Join!ObserveOther \/ Join!AutoApproved \/ Join!Expire
    PROVE  JoinInv'
<1>1. UNCHANGED <<at, holds, reached>>
  BY DEF Join!Observe, Join!ObserveOther, Join!AutoApproved, Join!Expire
<1> DEFINE falls == Join!Gone /\ joinRow.state \notin Join!Live
           fallen == lapsed' = IF falls THEN lapsed \cup {joinRow.flag} ELSE lapsed
\* What is deleted, and the flag whose fence falls.
<1>2. /\ falls => /\ joinRow.state \in {"succeeded", "observed_approved"}
                  /\ joinRow.flag \in Join!Flags /\ Known(joinRow.flag)
                  /\ answers[joinRow.flag] # "none"
      /\ ~falls /\ (Join!Gone \/ joinRow.state \in {"none", "pending", "retryable"}) =>
            \A f \in Join!Flags : Taken(f) => f \in lapsed
  BY DEF JoinInv, JoinShaped, RowTells, OnlyTheRow, Known, Join!Gone, Join!Live, Join!Settled
<1>3. CASE \E fresh \in BOOLEAN : Join!Observe(fresh)
  <2>1. letIn' = letIn
    BY <1>3 DEF Join!Observe
  <2>2. CASE UNCHANGED <<joinRow, answers, lapsed>>
    BY <1>1, <2>1, <2>2 DEF JoinInv, JoinShaped, OnlyTheRow, RowTells, Known, OneAnswers, Taken
  <2>3. CASE /\ Join!Gone \/ joinRow.state \in {"none", "pending", "retryable"}
             /\ fallen
             /\ \E f \in Join!Flags, age \in 0..2 :
                   /\ answers[f] = "none"
                   /\ joinRow' = [state |-> "pending", flag |-> f, age |-> age]
                   /\ answers' = [answers EXCEPT ![f] = "issued"]
    <3>1. PICK f \in Join!Flags, age \in 0..2 :
             /\ answers[f] = "none"
             /\ joinRow' = [state |-> "pending", flag |-> f, age |-> age]
             /\ answers' = [answers EXCEPT ![f] = "issued"]
      BY <2>3
    <3>2. \A g \in Join!Flags : Taken(g) => g \in lapsed' /\ g # f
      BY <1>2, <2>3, <3>1 DEF JoinInv, OnlyTheRow
    <3>3. /\ lapsed \subseteq lapsed' /\ lapsed' \subseteq Join!Flags
          /\ \A g \in lapsed' : Known(g) /\ answers[g] # "none"
      BY <1>2, <2>3 DEF JoinInv, JoinShaped, RowTells
    <3>4. JoinShaped'
      BY <1>1, <3>1, <3>3 DEF JoinInv, JoinShaped, JoinStates, AnswerStates
    <3>5. OnlyTheRow'
      BY <1>1, <3>1, <3>2 DEF JoinInv, JoinShaped, OnlyTheRow, Taken
    <3>6. RowTells'
      BY <2>1, <3>1, <3>3 DEF JoinInv, JoinShaped, RowTells, Known
    <3>7. OneAnswers'
      BY <1>1, <3>1 DEF JoinInv, JoinShaped, OneAnswers, Taken
    <3> QED BY <3>4, <3>5, <3>6, <3>7 DEF JoinInv
  <2> QED BY <1>3, <2>2, <2>3
          DEF Join!Observe, Join!Reissues, Join!Live, Join!Settle, Join!Forgets
<1>4. CASE Join!ObserveOther
  <2>1. /\ Join!Gone /\ fallen /\ UNCHANGED <<answers, letIn>>
        /\ joinRow' = [state |-> "none", flag |-> Join!NoFlag, age |-> 0]
    BY <1>4 DEF Join!ObserveOther, Join!Forgets, Join!NoRow
  <2>7. Join!NoFlag \notin Join!Flags
    BY DEF Join!NoFlag, Join!Flags
  <2>2. /\ lapsed \subseteq lapsed' /\ lapsed' \subseteq Join!Flags
        /\ \A g \in lapsed' : Known(g) /\ answers[g] # "none"
    BY <1>2, <2>1 DEF JoinInv, JoinShaped, RowTells
  <2>3. \A g \in Join!Flags : Taken(g) => g \in lapsed'
    BY <1>2, <2>1 DEF JoinInv, OnlyTheRow
  <2>4. JoinShaped'
    BY <1>1, <2>1, <2>2 DEF JoinInv, JoinShaped, JoinStates
  <2>5. OnlyTheRow' /\ OneAnswers'
    BY <1>1, <2>1, <2>3 DEF JoinInv, OnlyTheRow, OneAnswers, Taken
  <2>6. RowTells'
    BY <2>1, <2>2, <2>7 DEF RowTells, Known
  <2> QED BY <2>4, <2>5, <2>6 DEF JoinInv
<1>5. CASE Join!AutoApproved
  <2>1. /\ joinRow' = [joinRow EXCEPT !.state = "observed_approved"]
        /\ UNCHANGED <<answers, lapsed>> /\ letIn' = letIn \cup {joinRow.flag}
        /\ joinRow.state # "none"
    BY <1>5 DEF Join!AutoApproved
  <2>2. JoinShaped'
    BY <1>1, <2>1 DEF JoinInv, JoinShaped, JoinStates
  <2>3. OnlyTheRow' /\ OneAnswers'
    BY <1>1, <2>1 DEF JoinInv, JoinShaped, OnlyTheRow, OneAnswers, Taken
  <2>4. RowTells'
    BY <2>1 DEF JoinInv, JoinShaped, RowTells, Known
  <2> QED BY <2>2, <2>3, <2>4 DEF JoinInv
<1>6. CASE Join!Expire
  <2>1. /\ joinRow' = [joinRow EXCEPT !.age = @ + 1] /\ joinRow.age < 2
        /\ UNCHANGED <<answers, letIn, lapsed>>
    BY <1>6 DEF Join!Expire, Join!fates
  <2>2. JoinShaped'
    BY <1>1, <2>1 DEF JoinInv, JoinShaped
  <2>3. OnlyTheRow' /\ RowTells' /\ OneAnswers'
    BY <1>1, <2>1 DEF JoinInv, JoinShaped, OnlyTheRow, RowTells, Known, OneAnswers, Taken
  <2> QED BY <2>2, <2>3 DEF JoinInv
<1> QED BY <1>3, <1>4, <1>5, <1>6

LEMMA JoinMoves ==
    ASSUME JoinInv, NEW c \in Callers, Join!Approve(c) \/ Join!NotAdmin(c) \/ Join!Unauthorized(c)
    PROVE  JoinInv'
<1>1. UNCHANGED <<joinRow, answers, letIn, lapsed>>
  BY DEF Join!Approve, Join!NotAdmin, Join!Unauthorized, Join!fates
<1>2. CASE Join!Approve(c)
  BY <1>1, <1>2 DEF Join!Approve, Join!Move, JoinInv, JoinShaped, OnlyTheRow,
     RowTells, Known, OneAnswers, Taken
<1>3. CASE Join!NotAdmin(c)
  BY <1>1, <1>3 DEF Join!NotAdmin, Join!Move, JoinInv, JoinShaped, OnlyTheRow,
     RowTells, Known, OneAnswers, Taken
<1>4. CASE Join!Unauthorized(c)
  <2>1. /\ at[c] = "wire" /\ at' = [at EXCEPT ![c] = "begun"] /\ holds' = holds
        /\ reached' = [reached EXCEPT ![holds[c]] = "refused"] /\ holds[c] \in Join!Flags
    BY <1>4 DEF Join!Unauthorized, Join!Move, Join!Reach, JoinInv, JoinShaped
  <2>2. JoinShaped'
    BY <1>1, <2>1 DEF JoinInv, JoinShaped
  <2>3. OnlyTheRow'
    BY <1>1, <2>1 DEF JoinInv, JoinShaped, OnlyTheRow, Taken
  <2>4. OneAnswers'
    BY <1>1, <2>1 DEF JoinInv, JoinShaped, OneAnswers, Taken
  <2>5. RowTells'
    BY <1>1 DEF JoinInv, RowTells, Known
  <2> QED BY <2>2, <2>3, <2>4, <2>5 DEF JoinInv
<1> QED BY <1>2, <1>3, <1>4

LEMMA JoinAlways == ServicesSpec => []JoinInv
<1>1. ServicesInit => JoinInv
  <2> SUFFICES ASSUME Join!Init PROVE JoinInv
    BY DEF ServicesInit
  <2> QED BY DEF Join!Init, JoinInv, JoinShaped, OnlyTheRow, RowTells, OneAnswers, Taken, JoinStates,
                 AnswerStates, Join!NoRow
<1>2. JoinInv /\ [Join!Next]_(Join!vars) => JoinInv'
  <2> SUFFICES ASSUME JoinInv, [Join!Next]_(Join!vars) PROVE JoinInv'
    OBVIOUS
  <2>1. CASE UNCHANGED Join!vars
    BY <2>1 DEF Join!vars, JoinInv, JoinShaped, OnlyTheRow, RowTells, Known, OneAnswers, Taken
  <2>2. CASE Join!Next
    BY <2>2, JoinEnds, JoinSendKeeps, JoinBeginKeeps, JoinCancelKeeps, JoinCrashKeeps,
       JoinRowKeeps, JoinMoves DEF Join!Next
  <2> QED BY <2>1, <2>2
<1> QED BY <1>1, <1>2, JoinSteps, PTL DEF ServicesSpec

\* An answer is never given twice (observe_request, approve, claim), and the fence of an
\* answer falls only when its fate is known.
LEMMA JoinAnsweredOnce == JoinInv => Join!AnsweredOnce
<1> SUFFICES ASSUME JoinInv PROVE Join!AnsweredOnce
  OBVIOUS
<1> DEFINE taken == {f \in Join!Flags : reached[f] \in {"maybe", "taken"}} \ lapsed
<1>1. taken \subseteq {joinRow.flag}
  BY DEF JoinInv, OnlyTheRow, Taken
<1>2. joinRow.state \in Join!Live => taken = {}
  BY DEF JoinInv, OnlyTheRow, Taken, Join!Live
<1>3. Join!Cardinality(taken) <= 1
  <2>1. IsFiniteSet({joinRow.flag}) /\ Cardinality({joinRow.flag}) = 1
    BY FS_Singleton
  <2>2. Cardinality(taken) <= 1
    BY <1>1, <2>1, FS_Subset
  <2> HIDE DEF taken
  <2>3. Join!Cardinality(taken) = Cardinality(taken)
    BY DEF Join!Cardinality, Cardinality
  <2> QED BY <2>2, <2>3
<1>4. \A f \in lapsed : answers[f] = "succeeded" \/ f \in letIn
  BY DEF JoinInv, RowTells, Known
<1> QED BY <1>2, <1>3, <1>4 DEF Join!AnsweredOnce

\* A request to join is answered once for as long as its fence stands, whoever answers under
\* whatever flag; the fence of an answer of unknown fate never falls (management.py, join_flags).
THEOREM JoinIsAnsweredOnce == ServicesSpec => []AnswersOnce
<1>1. JoinInv => AnswersOnce
  BY JoinAnsweredOnce DEF AnswersOnce
<1> QED BY <1>1, JoinAlways, PTL

-----------------------------------------------------------------------------
LEMMA LedgerAlways == ServicesSpec => [](TypeOK /\ LedgerTruth /\ WriteOnce)
<1>1. ServicesInit => Init
  BY DEF ServicesInit
<1>2. [ServicesNext]_allVars => [Next]_vars
  BY DEF ServicesNext, LedgerStep, BusStep, StreamStep, FenceStep, MediaStep, NetStep,
         SettingsStep, PanelStep, JoinStep, GroupStep, allVars
<1>3. ServicesSpec => Spec
  BY <1>1, <1>2, PTL DEF ServicesSpec, Spec
<1> QED BY <1>3, LedgerKeepsFaith, PTL

\* What must not be written twice is not, and what the ledger says of a write is true: the
\* ledger, the parts and the file of an upload, a managed panel.
THEOREM NothingIsWrittenTwice == ServicesSpec => []WritesOnce
<1>1. (TypeOK /\ LedgerTruth /\ WriteOnce) /\ PanelInv /\ MediaInv => WritesOnce
  BY PanelIsKnown, MediaPartsOnce DEF WritesOnce
<1> QED BY <1>1, LedgerAlways, PanelAlways, MediaAlways, PTL

-----------------------------------------------------------------------------
(* A roster.  The last change of a member may be on its way (Unheard).     *)

Heard == [who : Members, kind : {"member", "chat"}, state : {"present", "left"}, at : Nat,
          connection : Nat, sequence : Nat] \cup {[kind |-> "ready"]}
MemberRows == [state : {"none", "present", "left", "unknown"}, at : Nat, connection : Nat,
               sequence : Nat, rev : Nat]
Readings == [at : {"reading"}, rev : Nat, started : Nat, connection : Nat,
             todo : SUBSET Members, seen : SUBSET Members]

GroupShaped ==
    /\ time \in Nat \ {0} /\ truth \in SUBSET Members /\ since \in [Members -> Nat]
    /\ pipe \in Seq(Heard) /\ sent \in Nat
    /\ session \in Nat /\ link \in {"online", "broken", "fresh"}
    /\ scope \in [there : BOOLEAN, rev : Nat, continuity : BOOLEAN]
    /\ member \in [Members -> MemberRows]
    /\ DOMAIN roster = {"there", "rev", "complete", "continuous", "count"}
    /\ rd \in Readings \cup {Group!Idle} /\ qd \in Readings \cup {Group!Idle}
    /\ missed \in SUBSET Members

Truly(m) == IF m \in truth THEN "present" ELSE "left"

\* The event of m's change at second t is on its way.
Change(e, m) == e.kind = "member" /\ e.who = m
Waits(m, t) == \E i \in DOMAIN pipe : Change(pipe[i], m) /\ pipe[i].at = t
Unheard(m) == Waits(m, since[m])

\* What is on its way: a change is the last one of its member or older than it.
EventTrue(e) ==
    /\ e.kind # "ready" => e.at \in 1..time
    /\ e.kind = "member" =>
          e.at <= since[e.who] /\ (e.at = since[e.who] => e.state = Truly(e.who))
    /\ e.kind = "chat" =>
          /\ e.state = "present" /\ e.connection = 0
          /\ e.at > since[e.who] => e.who \in truth
EventsTrue ==
    /\ \A i \in DOMAIN pipe : EventTrue(pipe[i])
    /\ \A i, j \in DOMAIN pipe : \A m \in Members :
          Change(pipe[i], m) /\ Change(pipe[j], m) /\ pipe[i].at = pipe[j].at => i = j
    /\ \A m \in Members : since[m] <= time

\* Where a row comes from: "left", "unknown" and a connection tell that a change was heard.
RowStands(m) ==
    /\ member[m].at <= time /\ member[m].rev <= scope.rev
    /\ member[m].state \in {"left", "unknown"} \/ member[m].connection # 0 =>
          member[m].at <= since[m] /\ ~Waits(m, member[m].at)
    /\ member[m].state = "left" /\ member[m].at = since[m] => m \notin truth
    /\ member[m].state = "present" /\ member[m].at > since[m] => m \in truth

\* Whose last change was heard has a row as young as it, and no wrong one.
RowTold(m) ==
    /\ since[m] > 0 /\ ~Unheard(m) => member[m].state # "none" /\ member[m].at >= since[m]
    /\ member[m].state = "present" /\ ~Unheard(m) => m \in truth

\* The row says of a change as young as the last one that m is there, and m is.
ToldIn(m) == member[m].state = "present" /\ member[m].at >= since[m] /\ m \in truth

\* A query nothing was learnt beside saw who is there, but for changes on their way.
ReadingTrue(q) == q.at = "reading" =>
    /\ q.started <= time /\ q.rev <= scope.rev /\ q.connection <= session
    /\ q.todo \cap q.seen = {}
    /\ q.rev = scope.rev =>
          /\ \A m \in Members : member[m].at <= q.started
          /\ \A m \in q.seen : /\ q.started > since[m] => m \in truth
                               /\ m \in truth \/ Unheard(m) \/ m \in missed

\* Read within one session the pages are true but for changes on their way.
RosterRead == rd.at = "reading" /\ rd.rev = scope.rev =>
    /\ \A m \in Members \ rd.todo : ToldIn(m) => m \in rd.seen
    /\ rd.connection # 0 /\ rd.connection = session /\ link # "fresh" =>
          \A m \in Members \ rd.todo : Unheard(m) \/ (m \in rd.seen <=> m \in truth)

Served == /\ roster.there /\ roster.complete /\ roster.continuous
          /\ roster.rev = scope.rev /\ ~gap
ServedTrue == Served =>
    /\ link # "fresh"
    /\ \A m \in Members : /\ Unheard(m) \/ (m \in Group!Listed <=> m \in truth)
                          /\ ToldIn(m) => m \in Group!Listed

GroupInv ==
    /\ GroupShaped /\ EventsTrue
    /\ \A m \in Members : RowStands(m) /\ (m \notin missed => RowTold(m))
    /\ ReadingTrue(rd) /\ ReadingTrue(qd) /\ RosterRead /\ ServedTrue


LEMMA GroupSteps == [ServicesNext]_allVars => [Group!Next]_(Group!vars)
<1>1. UNCHANGED groupVars => UNCHANGED Group!vars
  BY DEF groupVars, Group!vars
<1> QED BY <1>1
      DEF ServicesNext, LedgerStep, BusStep, StreamStep, FenceStep, MediaStep, NetStep,
          SettingsStep, PanelStep, JoinStep, GroupStep, allVars

\* One element of a sequence is dropped.
LEMMA Without ==
    ASSUME NEW S, NEW s \in Seq(S), NEW i \in DOMAIN s
    PROVE  LET d == SubSeq(s, 1, i - 1) \o SubSeq(s, i + 1, Len(s)) IN
           /\ d \in Seq(S) /\ DOMAIN d = 1..Len(s) - 1 /\ DOMAIN s = 1..Len(s)
           /\ \A k \in 1..Len(s) - 1 : d[k] = s[IF k < i THEN k ELSE k + 1]
<1> DEFINE d == SubSeq(s, 1, i - 1) \o SubSeq(s, i + 1, Len(s))
<1>1. i \in 1..Len(s) /\ Len(s) \in Nat /\ DOMAIN s = 1..Len(s)
  BY LenProperties
<1> DEFINE a == SubSeq(s, 1, i - 1)
           b == SubSeq(s, i + 1, Len(s))
<1>2. a \in Seq(S) /\ Len(a) = i - 1 /\ \A k \in 1..i - 1 : a[k] = s[k]
  BY <1>1
<1>3. b \in Seq(S) /\ Len(b) = Len(s) - i /\ \A k \in 1..Len(s) - i : b[k] = s[i + k]
  BY SMTT(30), <1>1
<1>4. d = a \o b
  OBVIOUS
<1> HIDE DEF a, b, d
<1>5. /\ d \in Seq(S) /\ Len(d) = Len(a) + Len(b)
      /\ \A k \in 1..Len(a) + Len(b) : d[k] = IF k <= Len(a) THEN a[k] ELSE b[k - Len(a)]
  <2>1. a \in Seq(S) /\ b \in Seq(S)
    BY <1>2, <1>3
  <2> QED BY Zenon, <1>4, <2>1, ConcatProperties
<1>6. DOMAIN d = 1..Len(s) - 1
  BY <1>1, <1>2, <1>3, <1>5, LenProperties
<1>7. ASSUME NEW k \in 1..Len(s) - 1 PROVE d[k] = s[IF k < i THEN k ELSE k + 1]
  <2>1. d[k] = IF k <= i - 1 THEN a[k] ELSE b[k - (i - 1)]
    <3>1. k \in 1..Len(a) + Len(b) /\ Len(a) = i - 1
      BY <1>1, <1>2, <1>3
    <3> QED BY <1>5, <3>1
  <2>2. CASE k < i
    BY <1>1, <1>2, <2>1, <2>2
  <2>3. CASE k >= i
    <3> DEFINE l == k - (i - 1)
    <3>1. l \in 1..Len(s) - i /\ i + l = k + 1
      BY <1>1, <2>3
    <3>2. ~(k <= i - 1) /\ ~(k < i)
      BY <1>1, <2>3
    <3>3. d[k] = b[l]
      BY Zenon, <2>1, <3>2
    <3> HIDE DEF l
    <3> QED BY <1>3, <3>1, <3>2, <3>3
  <2> QED BY <1>1, <2>2, <2>3
<1> QED BY <1>1, <1>5, <1>6, <1>7 DEF d

\* The receiver takes one event of those on their way.
LEMMA EventLeaves ==
    ASSUME GroupInv, NEW i \in DOMAIN pipe, Group!Drop(i)
    PROVE  /\ pipe' \in Seq(Heard) /\ DOMAIN pipe' \subseteq Nat
           /\ \A k \in DOMAIN pipe' : \E j \in DOMAIN pipe : j # i /\ pipe'[k] = pipe[j]
           /\ \A j \in DOMAIN pipe : j # i => \E k \in DOMAIN pipe' : pipe'[k] = pipe[j]
           /\ \A k, l \in DOMAIN pipe' : \A m \in Members :
                 Change(pipe'[k], m) /\ Change(pipe'[l], m) /\ pipe'[k].at = pipe'[l].at => k = l
<1>1. pipe \in Seq(Heard)
  BY DEF GroupInv, GroupShaped
<1>2. /\ pipe' \in Seq(Heard) /\ DOMAIN pipe' = 1..Len(pipe) - 1 /\ DOMAIN pipe = 1..Len(pipe)
      /\ \A k \in 1..Len(pipe) - 1 : pipe'[k] = pipe[IF k < i THEN k ELSE k + 1]
  <2>1. pipe' = SubSeq(pipe, 1, i - 1) \o SubSeq(pipe, i + 1, Len(pipe))
    BY DEF Group!Drop
  <2> QED BY <1>1, <2>1, Without
<1>3. Len(pipe) \in Nat
  BY <1>1, LenProperties
<1>4. ASSUME NEW j \in DOMAIN pipe, j # i PROVE \E k \in DOMAIN pipe' : pipe'[k] = pipe[j]
  <2>1. CASE j < i
    BY <1>2, <1>3, <2>1
  <2>2. CASE j > i
    <3>1. j - 1 \in 1..Len(pipe) - 1 /\ ~(j - 1 < i) /\ (j - 1) + 1 = j
      BY <1>2, <1>3, <2>2
    <3> QED BY <1>2, <3>1
  <2> QED BY <1>2, <1>3, <1>4, <2>1, <2>2
<1>5. ASSUME NEW k \in DOMAIN pipe'
      PROVE  /\ (IF k < i THEN k ELSE k + 1) \in DOMAIN pipe
             /\ (IF k < i THEN k ELSE k + 1) # i
             /\ pipe'[k] = pipe[IF k < i THEN k ELSE k + 1]
  BY <1>2, <1>3
<1>6. ASSUME NEW k \in DOMAIN pipe', NEW l \in DOMAIN pipe', NEW m \in Members,
             Change(pipe'[k], m), Change(pipe'[l], m), pipe'[k].at = pipe'[l].at
      PROVE  k = l
  <2>1. (IF k < i THEN k ELSE k + 1) = (IF l < i THEN l ELSE l + 1)
    BY <1>5, <1>6 DEF GroupInv, EventsTrue
  <2> QED BY <1>2, <1>3, <2>1
<1>7. DOMAIN pipe' \subseteq Nat
  BY <1>2, <1>3
<1> QED BY <1>2, <1>4, <1>5, <1>6, <1>7

\* Which changes are still on their way then.
LEMMA HeardOf ==
    ASSUME GroupInv, NEW i \in DOMAIN pipe, Group!Drop(i), NEW m \in Members, NEW t
    PROVE  /\ Waits(m, t)' => Waits(m, t)
           /\ Waits(m, t) /\ ~(Change(pipe[i], m) /\ pipe[i].at = t) => Waits(m, t)'
           /\ Change(pipe[i], m) /\ pipe[i].at = t => ~Waits(m, t)'
<1>1. /\ \A k \in DOMAIN pipe' : \E j \in DOMAIN pipe : j # i /\ pipe'[k] = pipe[j]
      /\ \A j \in DOMAIN pipe : j # i => \E k \in DOMAIN pipe' : pipe'[k] = pipe[j]
  BY EventLeaves
<1>2. \A j \in DOMAIN pipe : Change(pipe[i], m) /\ Change(pipe[j], m) /\ pipe[i].at = pipe[j].at
                                => i = j
  BY DEF GroupInv, EventsTrue
<1>3. Waits(m, t)' <=> \E k \in DOMAIN pipe' : Change(pipe'[k], m) /\ pipe'[k].at = t
  BY DEF Waits, Change
<1> QED BY <1>1, <1>2, <1>3 DEF Waits, Change

\* The events that are left are as true as they were.
LEMMA EventsStand ==
    ASSUME GroupInv, NEW i \in DOMAIN pipe, Group!Drop(i), UNCHANGED <<time, truth, since>>
    PROVE  EventsTrue'
<1>1. /\ \A k \in DOMAIN pipe' : \E j \in DOMAIN pipe : j # i /\ pipe'[k] = pipe[j]
      /\ \A k, l \in DOMAIN pipe' : \A m \in Members :
            Change(pipe'[k], m) /\ Change(pipe'[l], m) /\ pipe'[k].at = pipe'[l].at => k = l
  BY EventLeaves
<1>2. \A j \in DOMAIN pipe : EventTrue(pipe[j])
  BY DEF GroupInv, EventsTrue
<1>3. ASSUME NEW k \in DOMAIN pipe' PROVE EventTrue(pipe[k])'
  BY <1>1, <1>2 DEF EventTrue, Truly
<1>4. \A m \in Members : since'[m] <= time'
  BY DEF GroupInv, EventsTrue
<1> QED BY <1>1, <1>3, <1>4 DEF EventsTrue, Change


\* A query that goes on or has ended while the group and what is known of it stay.
LEMMA QueryStands ==
    ASSUME GroupInv, UNCHANGED <<truth, since, pipe, missed, member>>,
           time' \in Nat, time' >= time, session' \in Nat, session' >= session,
           scope'.rev \in Nat, scope'.rev >= scope.rev
    PROVE  /\ rd' \in {rd, Group!Idle} => ReadingTrue(rd)'
           /\ qd' \in {qd, Group!Idle} => ReadingTrue(qd)'
           /\ rd' = rd /\ ~(link = "fresh" /\ link' # "fresh" /\ session' = session) => RosterRead'
           /\ rd' = Group!Idle => RosterRead'
<1>1. /\ \A m \in Members : (Unheard(m)' <=> Unheard(m)) /\ (ToldIn(m)' <=> ToldIn(m))
      /\ time \in Nat /\ session \in Nat /\ scope.rev \in Nat
      /\ \A m \in Members : member[m].at \in Nat /\ since[m] \in Nat
      /\ rd \in Readings \cup {Group!Idle} /\ qd \in Readings \cup {Group!Idle}
  BY DEF Unheard, Waits, Change, ToldIn, GroupInv, GroupShaped, MemberRows
<1>2. Group!Idle.at # "reading"
  BY DEF Group!Idle
<1>3. ASSUME rd' = rd PROVE ReadingTrue(rd)'
  BY <1>1, <1>2, <1>3 DEF GroupInv, ReadingTrue, Readings
<1>4. ASSUME qd' = qd PROVE ReadingTrue(qd)'
  BY <1>1, <1>2, <1>4 DEF GroupInv, ReadingTrue, Readings
<1>5. ASSUME rd' = rd, ~(link = "fresh" /\ link' # "fresh" /\ session' = session) PROVE RosterRead'
  <2>1. ReadingTrue(rd) /\ RosterRead
    BY DEF GroupInv
  <2>2. rd.at = "reading" => rd \in Readings /\ rd.rev <= scope.rev /\ rd.connection <= session
    BY <1>1, <1>2, <2>1 DEF ReadingTrue
  <2>3. rd.at = "reading" /\ rd.rev = scope'.rev => rd.rev = scope.rev
    BY <1>1, <2>2 DEF Readings
  <2>4. rd.at = "reading" /\ rd.connection = session' => rd.connection = session /\ session' = session
    BY <1>1, <2>2 DEF Readings
  <2> QED BY <1>1, <1>5, <2>1, <2>3, <2>4 DEF RosterRead
<1>6. ASSUME rd' = Group!Idle PROVE ReadingTrue(rd)' /\ RosterRead'
  BY <1>2, <1>6 DEF ReadingTrue, RosterRead
<1>7. ASSUME qd' = Group!Idle PROVE ReadingTrue(qd)'
  BY <1>2, <1>7 DEF ReadingTrue
<1> QED BY <1>3, <1>4, <1>5, <1>6, <1>7

\* So do the rows and the events.
LEMMA MembersStay ==
    ASSUME GroupInv, UNCHANGED <<truth, since, pipe, missed, member>>,
           time' \in Nat, time' >= time, scope'.rev \in Nat, scope'.rev >= scope.rev
    PROVE  /\ EventsTrue'
           /\ \A m \in Members : RowStands(m)' /\ (m \notin missed' => RowTold(m)')
<1>1. /\ time \in Nat /\ scope.rev \in Nat /\ since \in [Members -> Nat]
      /\ \A m \in Members : member[m].at \in Nat /\ member[m].rev \in Nat
      /\ pipe \in Seq(Heard)
  BY DEF GroupInv, GroupShaped, MemberRows
<1>2. \A m \in Members : \A t : Waits(m, t)' <=> Waits(m, t)
  BY DEF Waits, Change
<1>3. ASSUME NEW m \in Members PROVE RowStands(m)'
  <2>1. RowStands(m) /\ (Waits(m, member[m].at)' <=> Waits(m, member[m].at))
    BY DEF GroupInv, Waits, Change
  <2> QED BY <1>1, <2>1 DEF RowStands
<1>4. ASSUME NEW m \in Members, m \notin missed' PROVE RowTold(m)'
  BY <1>4 DEF GroupInv, RowTold, Unheard, Waits, Change
<1>5. ASSUME NEW i \in DOMAIN pipe PROVE EventTrue(pipe[i])'
  <2>1. EventTrue(pipe[i]) /\ pipe[i] \in Heard
    BY <1>1 DEF GroupInv, EventsTrue
  <2> QED BY <1>1, <2>1 DEF EventTrue, Truly, Heard
<1> QED BY <1>1, <1>3, <1>4, <1>5 DEF GroupInv, EventsTrue, Change

\* What is served stays true while the group and what is known of it stay.
LEMMA ServedStays ==
    ASSUME GroupInv, UNCHANGED <<truth, since, pipe, member>>,
           Served' => Served /\ roster'.rev = roster.rev /\ (link' = "fresh" => link = "fresh")
    PROVE  ServedTrue'
<1>1. \A m \in Members : (Unheard(m)' <=> Unheard(m)) /\ (ToldIn(m)' <=> ToldIn(m))
  BY DEF Unheard, Waits, Change, ToldIn
<1>2. Served' => (Group!Listed)' = Group!Listed
  BY DEF Group!Listed
<1> QED BY <1>1, <1>2 DEF GroupInv, ServedTrue


\* Steps that change neither the group nor what is known of it.
LEMMA TickKeeps == ASSUME GroupInv, Group!Tick PROVE GroupInv'
<1>1. /\ UNCHANGED <<truth, since, pipe, missed, member, session, scope, link, roster, gap, rd, qd>>
      /\ time' \in Nat /\ time' >= time
  BY DEF Group!Tick, GroupInv, GroupShaped
<1>2. GroupShaped'
  BY DEF Group!Tick, GroupInv, GroupShaped
<1>3. Served' => Served /\ roster'.rev = roster.rev
  BY <1>1 DEF Served
<1> QED BY <1>1, <1>2, <1>3, QueryStands, MembersStay, ServedStays
        DEF GroupInv, GroupShaped

LEMMA LinkKeeps == ASSUME GroupInv, Group!Break \/ Group!Resume PROVE GroupInv'
<1>1. /\ UNCHANGED <<time, truth, since, sent, pipe, missed, member, session, scope, roster, gap,
                     rd, qd>>
      /\ link # "fresh" /\ link' \in {"online", "broken"}
  BY DEF Group!Break, Group!Resume, Group!world
<1>2. GroupShaped'
  BY <1>1 DEF GroupInv, GroupShaped
<1>3. Served' => Served /\ roster'.rev = roster.rev
  BY <1>1 DEF Served
<1>4. time \in Nat /\ session \in Nat /\ scope.rev \in Nat
  BY DEF GroupInv, GroupShaped
<1> QED BY <1>1, <1>2, <1>3, <1>4, QueryStands, MembersStay, ServedStays DEF GroupInv

LEMMA ReadyKeeps == ASSUME GroupInv, Group!Ready PROVE GroupInv'
<1>1. /\ UNCHANGED <<time, truth, since, sent, missed, member, scope, roster, gap, rd, qd>>
      /\ link = "fresh" /\ link' = "online" /\ session' = session + 1
      /\ pipe' = Append(pipe, [kind |-> "ready"])
  BY DEF Group!Ready, Group!world
<1>2. pipe \in Seq(Heard) /\ [kind |-> "ready"] \in Heard /\ session \in Nat
  BY DEF GroupInv, GroupShaped, Heard
<1>3. /\ pipe' \in Seq(Heard) /\ DOMAIN pipe' = DOMAIN pipe \cup {Len(pipe) + 1}
      /\ \A i \in DOMAIN pipe : pipe'[i] = pipe[i] /\ i # Len(pipe) + 1
      /\ pipe'[Len(pipe) + 1].kind = "ready"
  BY <1>1, <1>2
<1>4. \A m \in Members : \A t : Waits(m, t)' <=> Waits(m, t)
  BY <1>3 DEF Waits, Change
<1> HIDE DEF Waits
<1>5. GroupShaped'
  BY <1>1, <1>2, <1>3 DEF GroupInv, GroupShaped
<1>6. EventsTrue'
  <2>1. ASSUME NEW i \in DOMAIN pipe' PROVE EventTrue(pipe[i])'
    BY <1>1, <1>3 DEF GroupInv, EventsTrue, EventTrue, Truly
  <2> QED BY <1>1, <1>3, <2>1 DEF GroupInv, EventsTrue, Change
<1>7. ASSUME NEW m \in Members PROVE RowStands(m)' /\ (m \notin missed' => RowTold(m)')
  <2>1. Waits(m, member[m].at)' <=> Waits(m, member[m].at)
    BY <1>1, <1>3 DEF Waits, Change
  <2>2. Unheard(m)' <=> Unheard(m)
    BY <1>1, <1>3 DEF Waits, Change, Unheard
  <2> QED BY <1>1, <2>1, <2>2 DEF GroupInv, RowStands, RowTold
<1>8. \A m \in Members : (Unheard(m)' <=> Unheard(m)) /\ (ToldIn(m)' <=> ToldIn(m))
  BY <1>1, <1>3 DEF Waits, Change, Unheard, ToldIn
<1>9. Group!Idle.at # "reading" /\ rd \in Readings \cup {Group!Idle} /\ qd \in Readings \cup {Group!Idle}
  BY DEF Group!Idle, GroupInv, GroupShaped
<1>10. ReadingTrue(rd)' /\ ReadingTrue(qd)'
  BY <1>1, <1>2, <1>8, <1>9 DEF GroupInv, ReadingTrue, Readings
<1>11. RosterRead'
  <2>1. rd.at = "reading" => rd.connection \in Nat /\ rd.connection <= session
    BY <1>9 DEF GroupInv, ReadingTrue, Readings
  <2> QED BY <1>1, <1>2, <1>8, <2>1 DEF GroupInv, RosterRead
<1>12. ServedTrue'
  BY <1>1 DEF GroupInv, ServedTrue, Served
<1> QED BY <1>5, <1>6, <1>7, <1>10, <1>11, <1>12 DEF GroupInv

LEMMA GroupRestartKeeps == ASSUME GroupInv, Group!Restart PROVE GroupInv'
<1>1. /\ UNCHANGED <<time, truth, since, sent, pipe, missed, member, session>>
      /\ link' \in {"online", "broken"} /\ scope' = [scope EXCEPT !.continuity = FALSE]
      /\ roster' = [roster EXCEPT !.continuous = FALSE] /\ rd' = Group!Idle /\ qd' = Group!Idle
  BY DEF Group!Restart, Group!world
<1>2. GroupShaped'
  BY <1>1 DEF GroupInv, GroupShaped
<1>3. ~Served'
  BY <1>1 DEF Served, GroupInv, GroupShaped
<1>4. time \in Nat /\ session \in Nat /\ scope.rev \in Nat /\ scope'.rev = scope.rev
  BY <1>1 DEF GroupInv, GroupShaped
<1> QED BY <1>1, <1>2, <1>3, <1>4, QueryStands, MembersStay, ServedStays DEF GroupInv

LEMMA RosterReadFails == ASSUME GroupInv, Group!RosterFails PROVE GroupInv'
<1>1. /\ UNCHANGED <<time, truth, since, sent, pipe, missed, member, session, scope, link, roster,
                     gap, qd>>
      /\ rd' = Group!Idle
  BY DEF Group!RosterFails, Group!world
<1>2. GroupShaped'
  BY <1>1 DEF GroupInv, GroupShaped
<1>3. Served' => Served /\ roster'.rev = roster.rev
  BY <1>1 DEF Served
<1>4. time \in Nat /\ session \in Nat /\ scope.rev \in Nat
  BY DEF GroupInv, GroupShaped
<1> QED BY <1>1, <1>2, <1>3, <1>4, QueryStands, MembersStay, ServedStays DEF GroupInv

\* A query begins at what is known; what it has not asked for it need not know.
LEMMA QueriesBegin ==
    ASSUME GroupInv, Group!RosterStart \/ \E m \in Members : Group!MemberStart(m)
    PROVE  GroupInv'
<1>1. /\ UNCHANGED <<time, truth, since, sent, pipe, missed, member, session, scope, link, roster,
                     gap>>
      /\ \/ rd' = Group!Starts(Members) /\ qd' = qd
         \/ rd' = rd /\ \E m \in Members : qd' = Group!Starts({m})
  BY DEF Group!RosterStart, Group!MemberStart, Group!world
<1>2. time \in Nat /\ session \in Nat /\ scope.rev \in Nat
  BY DEF GroupInv, GroupShaped
<1>3. /\ \A x \in SUBSET Members :
            /\ Group!Starts(x) \in Readings /\ Group!Starts(x).todo = x
            /\ Group!Starts(x).seen = {} /\ Group!Starts(x).started = time
            /\ Group!Starts(x).rev = scope.rev /\ Group!Starts(x).connection \in {0, session}
  BY <1>2 DEF Group!Starts, Readings, Group!Continuity, Group!NoConnection
<1>4. GroupShaped'
  <2>1. rd \in Readings \cup {Group!Idle} /\ qd \in Readings \cup {Group!Idle}
    BY DEF GroupInv, GroupShaped
  <2>2. rd' \in Readings \cup {Group!Idle} /\ qd' \in Readings \cup {Group!Idle}
    BY <1>1, <1>3, <2>1
  <2> QED BY <1>1, <2>2 DEF GroupInv, GroupShaped
<1>5. Served' => Served /\ roster'.rev = roster.rev
  BY <1>1 DEF Served
<1>6. /\ EventsTrue' /\ ServedTrue'
      /\ \A m \in Members : RowStands(m)' /\ (m \notin missed' => RowTold(m)')
  BY <1>1, <1>2, <1>5, MembersStay, ServedStays
<1>7. \A m \in Members : member[m].at <= time
  BY DEF GroupInv, RowStands
<1>8. CASE rd' = Group!Starts(Members) /\ qd' = qd
  <2>1. ReadingTrue(rd)' /\ RosterRead'
    BY <1>1, <1>2, <1>3, <1>7, <1>8 DEF ReadingTrue, RosterRead
  <2>2. ReadingTrue(qd)'
    BY <1>1, <1>2, <1>8, QueryStands
  <2> QED BY <1>4, <1>6, <2>1, <2>2 DEF GroupInv
<1>9. ASSUME NEW m \in Members, rd' = rd, qd' = Group!Starts({m}) PROVE GroupInv'
  <2>1. ReadingTrue(qd)'
    BY <1>1, <1>2, <1>3, <1>7, <1>9 DEF ReadingTrue
  <2>2. ReadingTrue(rd)' /\ RosterRead'
    BY <1>1, <1>2, <1>9, QueryStands
  <2> QED BY <1>4, <1>6, <2>1, <2>2 DEF GroupInv
<1> QED BY <1>1, <1>8, <1>9

\* QQ shows one member, as the group is now.
LEMMA QueriesSee ==
    ASSUME GroupInv, Group!MemberShown \/ \E m \in Members : Group!RosterPage(m)
    PROVE  GroupInv'
<1>1. /\ UNCHANGED <<time, truth, since, sent, pipe, missed, member, session, scope, link, roster,
                     gap>>
      /\ \/ qd' = qd /\ \E m \in rd.todo : rd' = Group!Shown(rd, m)
         \/ rd' = rd /\ \E m \in qd.todo : qd' = Group!Shown(qd, m)
  BY DEF Group!RosterPage, Group!MemberShown, Group!world
<1>2. time \in Nat /\ session \in Nat /\ scope.rev \in Nat
  BY DEF GroupInv, GroupShaped
<1>3. /\ Group!Idle.todo = {} /\ Group!Idle.at # "reading"
      /\ rd \in Readings \cup {Group!Idle} /\ qd \in Readings \cup {Group!Idle}
  BY DEF GroupInv, GroupShaped, Group!Idle
<1>4. ASSUME NEW q \in Readings, NEW m \in q.todo
      PROVE  /\ Group!Shown(q, m) \in Readings
             /\ Group!Shown(q, m).todo = q.todo \ {m}
             /\ \A n : n \in Group!Shown(q, m).seen <=> n \in q.seen \/ (n = m /\ m \in truth)
             /\ Group!Shown(q, m).started = q.started /\ Group!Shown(q, m).rev = q.rev
             /\ Group!Shown(q, m).connection = q.connection
             /\ m \in Members
  BY DEF Group!Shown, Readings
<1>5. Served' => Served /\ roster'.rev = roster.rev
  BY <1>1 DEF Served
<1>6. /\ EventsTrue' /\ ServedTrue'
      /\ \A m \in Members : RowStands(m)' /\ (m \notin missed' => RowTold(m)')
  BY <1>1, <1>2, <1>5, MembersStay, ServedStays
<1>7. \A m \in Members : (Unheard(m)' <=> Unheard(m)) /\ (ToldIn(m)' <=> ToldIn(m))
  BY <1>1 DEF Unheard, Waits, Change, ToldIn
<1>8. ASSUME qd' = qd, NEW m \in rd.todo, rd' = Group!Shown(rd, m) PROVE GroupInv'
  <2>1. rd \in Readings /\ rd.at = "reading" /\ rd.seen \subseteq Members
    BY <1>3, <1>8 DEF Readings
  <2>2. GroupShaped'
    BY <1>1, <1>4, <1>8, <2>1 DEF GroupInv, GroupShaped
  <2>3. ReadingTrue(rd)'
    <3>1. /\ rd'.todo = rd.todo \ {m} /\ rd'.started = rd.started /\ rd'.rev = rd.rev
          /\ \A n : n \in rd'.seen <=> n \in rd.seen \/ (n = m /\ m \in truth)
          /\ rd'.connection = rd.connection
      BY <1>4, <1>8, <2>1
    <3>2. ReadingTrue(rd)
      BY DEF GroupInv
    <3> QED BY <1>1, <1>7, <2>1, <3>1, <3>2 DEF ReadingTrue
  <2>4. RosterRead'
    BY <1>1, <1>4, <1>7, <1>8, <2>1 DEF GroupInv, RosterRead, ToldIn, ReadingTrue
  <2>5. ReadingTrue(qd)'
    BY <1>1, <1>2, <1>8, QueryStands
  <2> QED BY <1>6, <2>2, <2>3, <2>4, <2>5 DEF GroupInv
<1>9. ASSUME rd' = rd, NEW m \in qd.todo, qd' = Group!Shown(qd, m) PROVE GroupInv'
  <2>1. qd \in Readings /\ qd.at = "reading" /\ qd.seen \subseteq Members
    BY <1>3, <1>9 DEF Readings
  <2>2. GroupShaped'
    BY <1>1, <1>4, <1>9, <2>1 DEF GroupInv, GroupShaped
  <2>3. ReadingTrue(qd)'
    <3>1. /\ qd'.todo = qd.todo \ {m} /\ qd'.started = qd.started /\ qd'.rev = qd.rev
          /\ \A n : n \in qd'.seen <=> n \in qd.seen \/ (n = m /\ m \in truth)
          /\ qd'.connection = qd.connection
      BY <1>4, <1>9, <2>1
    <3>2. ReadingTrue(qd)
      BY DEF GroupInv
    <3> QED BY <1>1, <1>7, <2>1, <3>1, <3>2 DEF ReadingTrue
  <2>4. ReadingTrue(rd)' /\ RosterRead'
    BY <1>1, <1>2, <1>9, QueryStands
  <2> QED BY <1>6, <2>2, <2>3, <2>4 DEF GroupInv
<1> QED BY <1>1, <1>8, <1>9


\* An event is sent: it is on its way, or lost with its session.
LEMMA EventSent ==
    ASSUME GroupInv, NEW m \in Members, NEW kind \in {"member", "chat"},
           NEW state \in {"present", "left"}, Group!Sends(m, kind, state)
    PROVE  /\ sent' \in Nat
           /\ \/ link = "fresh" /\ missed' = missed \cup {m} /\ pipe' = pipe
              \/ /\ link # "fresh" /\ missed' = missed /\ pipe' \in Seq(Heard)
                 /\ DOMAIN pipe' = DOMAIN pipe \cup {Len(pipe) + 1}
                 /\ \A i \in DOMAIN pipe : pipe'[i] = pipe[i] /\ i # Len(pipe) + 1
                 /\ pipe'[Len(pipe) + 1] =
                      [who |-> m, kind |-> kind, state |-> state, at |-> time,
                       connection |-> IF kind = "chat" THEN 0 ELSE session,
                       sequence |-> IF kind = "chat" THEN 0 ELSE sent + 1]
<1> DEFINE e == [who |-> m, kind |-> kind, state |-> state, at |-> time,
                 connection |-> IF kind = "chat" THEN 0 ELSE session,
                 sequence |-> IF kind = "chat" THEN 0 ELSE sent + 1]
<1>1. pipe \in Seq(Heard) /\ time \in Nat /\ session \in Nat /\ sent \in Nat
  BY DEF GroupInv, GroupShaped
<1>2. e \in Heard
  BY <1>1 DEF Heard
<1>3. /\ sent' = sent + 1
      /\ IF link = "fresh" THEN missed' = missed \cup {m} /\ UNCHANGED pipe
         ELSE pipe' = Append(pipe, e) /\ UNCHANGED missed
  BY DEF Group!Sends, Group!NoConnection, Group!NoSeq
<1> HIDE DEF e
<1>4. /\ Append(pipe, e) \in Seq(Heard)
      /\ DOMAIN Append(pipe, e) = DOMAIN pipe \cup {Len(pipe) + 1}
      /\ \A i \in DOMAIN pipe : Append(pipe, e)[i] = pipe[i] /\ i # Len(pipe) + 1
      /\ Append(pipe, e)[Len(pipe) + 1] = e
  BY <1>1, <1>2
<1>5. sent' \in Nat
  BY <1>1, <1>3
<1>6. CASE link # "fresh"
  BY <1>3, <1>4, <1>5, <1>6 DEF e
<1> QED BY <1>3, <1>5, <1>6

LEMMA SpeaksKeeps == ASSUME GroupInv, NEW m \in Members, Group!Speaks(m) PROVE GroupInv'
<1>1. /\ UNCHANGED <<time, truth, since, session, link, scope, member, roster, gap, rd, qd>>
      /\ m \in truth /\ Group!Sends(m, "chat", "present")
  BY DEF Group!Speaks
<1>2. /\ sent' \in Nat
      /\ \/ link = "fresh" /\ missed' = missed \cup {m} /\ pipe' = pipe
         \/ /\ link # "fresh" /\ missed' = missed /\ pipe' \in Seq(Heard)
            /\ DOMAIN pipe' = DOMAIN pipe \cup {Len(pipe) + 1}
            /\ \A i \in DOMAIN pipe : pipe'[i] = pipe[i] /\ i # Len(pipe) + 1
            /\ pipe'[Len(pipe) + 1] = [who |-> m, kind |-> "chat", state |-> "present",
                                       at |-> time, connection |-> 0, sequence |-> 0]
  BY <1>1, EventSent
<1>3. /\ pipe' \in Seq(Heard) /\ missed \subseteq missed' /\ missed' \subseteq Members
      /\ \A n \in Members : \A t : Waits(n, t)' <=> Waits(n, t)
  BY <1>2 DEF Waits, Change, GroupInv, GroupShaped
<1>4. GroupShaped'
  BY <1>1, <1>2, <1>3 DEF GroupInv, GroupShaped
<1>5. EventsTrue'
  <2>1. time \in Nat \ {0}
    BY DEF GroupInv, GroupShaped
  <2>2. ASSUME NEW i \in DOMAIN pipe' PROVE EventTrue(pipe[i])'
    BY <1>1, <1>2, <2>1 DEF GroupInv, EventsTrue, EventTrue, Truly
  <2> QED BY <1>1, <1>2, <2>2 DEF GroupInv, EventsTrue, Change
<1>6. \A n \in Members : /\ Unheard(n)' <=> Unheard(n)
                         /\ ToldIn(n)' <=> ToldIn(n)
                         /\ Waits(n, member[n].at)' <=> Waits(n, member[n].at)
  BY <1>1, <1>2 DEF Waits, Change, Unheard, ToldIn
<1>7. ASSUME NEW n \in Members PROVE RowStands(n)' /\ (n \notin missed' => RowTold(n)')
  BY <1>1, <1>3, <1>6 DEF GroupInv, RowStands, RowTold
<1>8. rd \in Readings \cup {Group!Idle} /\ qd \in Readings \cup {Group!Idle}
      /\ Group!Idle.at # "reading"
  BY DEF Group!Idle, GroupInv, GroupShaped
<1>9. ReadingTrue(rd)' /\ ReadingTrue(qd)'
  BY <1>1, <1>3, <1>6, <1>8 DEF GroupInv, ReadingTrue, Readings
<1>10. RosterRead'
  BY <1>1, <1>6 DEF GroupInv, RosterRead
<1>11. ServedTrue'
  BY <1>1, <1>6 DEF GroupInv, ServedTrue, Served, Group!Listed
<1> QED BY <1>4, <1>5, <1>7, <1>9, <1>10, <1>11 DEF GroupInv

\* A member comes or goes: from now on only its new event tells the truth of it.
LEMMA ChangesKeeps == ASSUME GroupInv, NEW m \in Members, Group!Changes(m) PROVE GroupInv'
<1> DEFINE state == IF m \in truth THEN "left" ELSE "present"
<1>1. /\ UNCHANGED <<time, session, link, scope, member, roster, gap, rd, qd>>
      /\ time > since[m] /\ since' = [since EXCEPT ![m] = time]
      /\ truth' = IF m \in truth THEN truth \ {m} ELSE truth \cup {m}
      /\ Group!Sends(m, "member", state)
  BY DEF Group!Changes
<1>2. state \in {"present", "left"}
  OBVIOUS
<1>3. state = Truly(m)'
  BY <1>1 DEF Truly
<1> HIDE DEF state
<1>4. /\ sent' \in Nat
      /\ \/ link = "fresh" /\ missed' = missed \cup {m} /\ pipe' = pipe
         \/ /\ link # "fresh" /\ missed' = missed /\ pipe' \in Seq(Heard)
            /\ DOMAIN pipe' = DOMAIN pipe \cup {Len(pipe) + 1}
            /\ \A i \in DOMAIN pipe : pipe'[i] = pipe[i] /\ i # Len(pipe) + 1
            /\ pipe'[Len(pipe) + 1] = [who |-> m, kind |-> "member", state |-> state,
                    at |-> time, connection |-> session, sequence |-> sent + 1]
  BY <1>1, <1>2, EventSent
<1>5. /\ time \in Nat \ {0} /\ since \in [Members -> Nat] /\ truth \subseteq Members
      /\ pipe \in Seq(Heard) /\ missed \subseteq Members
      /\ \A n \in Members : member[n].at \in Nat
  BY DEF GroupInv, GroupShaped, MemberRows
<1>6. /\ pipe' \in Seq(Heard) /\ missed \subseteq missed' /\ missed' \subseteq Members
      /\ \A n \in Members : \A t :
            Waits(n, t)' <=> Waits(n, t) \/ (n = m /\ t = time /\ link # "fresh")
      /\ link = "fresh" => m \in missed'
  BY SMTT(30), <1>4, <1>5 DEF Waits, Change
<1>7. /\ \A n \in Members : n # m => since'[n] = since[n] /\ (n \in truth' <=> n \in truth)
      /\ since'[m] = time /\ (m \in truth' <=> m \notin truth)
      /\ since' \in [Members -> Nat] /\ truth' \in SUBSET Members
  BY <1>1, <1>5
<1>8. GroupShaped'
  BY <1>1, <1>4, <1>6, <1>7 DEF GroupInv, GroupShaped
<1>9. EventsTrue'
  <2>1. \A i \in DOMAIN pipe : EventTrue(pipe[i]) /\ pipe[i] \in Heard
    BY <1>5 DEF GroupInv, EventsTrue
  <2>2. ASSUME NEW i \in DOMAIN pipe PROVE EventTrue(pipe[i])' \/ pipe'[i] # pipe[i]
    BY <1>1, <1>5, <1>7, <2>1 DEF EventTrue, Truly, Heard
  <2>3. ASSUME NEW i \in DOMAIN pipe' PROVE EventTrue(pipe[i])'
    BY <1>1, <1>3, <1>4, <1>5, <1>7, <2>2 DEF EventTrue
  <2>4. \A i \in DOMAIN pipe : Change(pipe[i], m) => pipe[i].at # time
    BY <1>1, <1>5, <2>1 DEF EventTrue, Change, Heard
  <2>5. \A i, j \in DOMAIN pipe' : \A n \in Members :
           Change(pipe'[i], n) /\ Change(pipe'[j], n) /\ pipe'[i].at = pipe'[j].at => i = j
    BY <1>4, <2>4 DEF GroupInv, EventsTrue, Change
  <2>6. \A n \in Members : since'[n] <= time'
    BY <1>1, <1>5, <1>7 DEF GroupInv, EventsTrue
  <2> QED BY <2>3, <2>5, <2>6 DEF EventsTrue, Change
<1>10. \A n \in Members : n # m => /\ Unheard(n)' <=> Unheard(n)
                                   /\ ToldIn(n)' <=> ToldIn(n)
  BY SMTT(30), <1>1, <1>4, <1>7 DEF Waits, Change, Unheard, ToldIn
<1>11. m \in missed' \/ Unheard(m)'
  BY <1>4, <1>7 DEF Waits, Change, Unheard
<1>12. ~ToldIn(m)'
  <2>1. RowStands(m) /\ member'[m] = member[m]
    BY <1>1 DEF GroupInv
  <2>2. ToldIn(m)' => /\ member[m].state = "present" /\ member[m].at >= time /\ m \notin truth
    BY <1>7, <2>1 DEF ToldIn
  <2> QED BY <1>1, <1>5, <2>1, <2>2 DEF RowStands
<1>13. ASSUME NEW n \in Members PROVE RowStands(n)'
  <2>1. RowStands(n) /\ member'[n] = member[n]
    BY <1>1 DEF GroupInv
  <2>2. Waits(n, member[n].at)' <=>
           Waits(n, member[n].at) \/ (n = m /\ member[n].at = time /\ link # "fresh")
    <3>1. PICK t : t = member[n].at
      OBVIOUS
    <3>2. (Waits(n, member[n].at) <=> Waits(n, t)) /\ (Waits(n, member[n].at)' <=> Waits(n, t)')
      BY <1>1, <3>1 DEF Waits, Change
    <3> QED BY <1>6, <3>1, <3>2
  <2>3. CASE n # m
    BY <1>1, <1>7, <2>1, <2>2, <2>3 DEF RowStands
  <2>4. CASE n = m
    BY <1>1, <1>5, <1>7, <2>1, <2>2, <2>4 DEF RowStands
  <2> QED BY <2>3, <2>4
<1>14. ASSUME NEW n \in Members, n \notin missed' PROVE RowTold(n)'
  <2>1. CASE n # m
    BY <1>1, <1>6, <1>7, <1>10, <1>14, <2>1 DEF GroupInv, RowTold
  <2>2. CASE n = m
    BY <1>11, <1>14, <2>2 DEF RowTold
  <2> QED BY <2>1, <2>2
<1>15. ASSUME NEW q \in Readings, ReadingTrue(q), q.at = "reading", q.rev = scope.rev, NEW n \in q.seen
       PROVE  /\ q.started > since'[n] => n \in truth'
              /\ n \in truth' \/ Unheard(n)' \/ n \in missed'
  <2>1. q.started \in Nat /\ q.started <= time /\ n \in Members
    BY <1>15 DEF Readings, ReadingTrue
  <2>2. CASE n # m
    BY <1>6, <1>7, <1>10, <1>15, <2>1, <2>2 DEF ReadingTrue
  <2>3. CASE n = m
    BY <1>5, <1>7, <1>11, <2>1, <2>3
  <2> QED BY <2>2, <2>3
<1>16. rd \in Readings \cup {Group!Idle} /\ qd \in Readings \cup {Group!Idle}
       /\ Group!Idle.at # "reading"
  BY DEF Group!Idle, GroupInv, GroupShaped
<1>17. ReadingTrue(rd)'
  BY <1>1, <1>15, <1>16 DEF GroupInv, ReadingTrue
<1>18. ReadingTrue(qd)'
  BY <1>1, <1>15, <1>16 DEF GroupInv, ReadingTrue
<1>19. RosterRead'
  <2>1. \A n \in Members : n # m \/ (~ToldIn(n)' /\ (link # "fresh" => Unheard(n)'))
    BY <1>4, <1>7, <1>12 DEF Waits, Change, Unheard
  <2> QED BY <1>1, <1>7, <1>10, <2>1 DEF GroupInv, RosterRead
<1>20. ServedTrue'
  <2>1. \A n \in Members : n # m \/ (~ToldIn(n)' /\ (link # "fresh" => Unheard(n)'))
    BY <1>4, <1>7, <1>12 DEF Waits, Change, Unheard
  <2>2. (Served' <=> Served) /\ (Group!Listed)' = Group!Listed
    BY <1>1 DEF Served, Group!Listed
  <2> QED BY <1>1, <1>7, <1>10, <2>1, <2>2 DEF GroupInv, ServedTrue
<1> QED BY <1>8, <1>9, <1>13, <1>14, <1>17, <1>18, <1>19, <1>20 DEF GroupInv


Scopes == [there : BOOLEAN, rev : Nat, continuity : BOOLEAN]

\* A gap raises the revision of a scope that has a row.
LEMMA GapRaises ==
    ASSUME NEW s \in Scopes
    PROVE  /\ Group!Gapped(s) \in Scopes /\ s.rev \in Nat /\ Group!Gapped(s).rev \in Nat
           /\ Group!Gapped(s).there = s.there
           /\ Group!Gapped(s).rev = IF s.there THEN s.rev + 1 ELSE s.rev
           /\ Group!Gapped(s).rev >= s.rev
<1>1. CASE s.there
  <2>1. Group!Gapped(s) = [there |-> s.there, rev |-> s.rev + 1, continuity |-> FALSE]
    BY <1>1 DEF Group!Gapped, Scopes
  <2> QED BY <1>1, <2>1 DEF Scopes
<1>2. CASE ~s.there
  BY <1>2 DEF Group!Gapped, Scopes
<1> QED BY <1>1, <1>2

\* An Identify: of whom an event is lost is missed, and nothing is served from the cache.
LEMMA FreshKeeps == ASSUME GroupInv, Group!Fresh PROVE GroupInv'
<1>1. /\ UNCHANGED <<time, truth, since, sent, session, member, rd, qd>> /\ link' = "fresh"
      /\ \/ /\ scope' = Group!Gapped(scope) /\ roster' = [roster EXCEPT !.continuous = FALSE]
         \/ gap' = TRUE /\ UNCHANGED <<scope, roster>>
  BY DEF Group!Fresh, Group!world
<1>2. PICK n \in 0..Len(pipe) :
         /\ pipe' = SubSeq(pipe, 1, n)
         /\ missed' = missed \cup {m \in Members : \E i \in n+1..Len(pipe) : Group!About(i, m)}
  BY DEF Group!Fresh
<1>3. /\ pipe \in Seq(Heard) /\ time \in Nat /\ session \in Nat /\ scope.rev \in Nat
      /\ missed \subseteq Members
  BY DEF GroupInv, GroupShaped
<1>4. /\ pipe' \in Seq(Heard) /\ DOMAIN pipe' = 1..n /\ DOMAIN pipe = 1..Len(pipe)
      /\ 1..n \subseteq DOMAIN pipe /\ \A i \in 1..n : pipe'[i] = pipe[i]
      /\ \A i \in DOMAIN pipe : i \in 1..n \/ i \in n+1..Len(pipe)
  BY <1>2, <1>3
<1>5. missed \subseteq missed' /\ missed' \subseteq Members
  BY <1>2, <1>3
<1>6. ASSUME NEW m \in Members, NEW t
      PROVE  /\ Waits(m, t)' => Waits(m, t)
             /\ Waits(m, t) => Waits(m, t)' \/ m \in missed'
  <2>1. ASSUME NEW i \in DOMAIN pipe, Change(pipe[i], m), i \notin 1..n PROVE m \in missed'
    BY <1>2, <1>4, <2>1 DEF Change, Group!About
  <2> QED BY <1>4, <2>1 DEF Waits, Change
<1>7. /\ scope' \in Scopes /\ scope'.rev >= scope.rev
      /\ scope'.rev \in Nat
  <2>1. scope \in Scopes
    BY DEF GroupInv, GroupShaped, Scopes
  <2> QED BY <1>1, <2>1, GapRaises
<1>8. GroupShaped'
  BY <1>1, <1>4, <1>5, <1>7 DEF GroupInv, GroupShaped, Scopes
<1>9. EventsTrue'
  <2>1. ASSUME NEW i \in DOMAIN pipe' PROVE EventTrue(pipe[i])'
    BY <1>1, <1>4 DEF GroupInv, EventsTrue, EventTrue, Truly
  <2> QED BY <1>1, <1>4, <2>1 DEF GroupInv, EventsTrue, Change
<1>10. ASSUME NEW m \in Members
       PROVE  /\ Unheard(m)' => Unheard(m)
              /\ Unheard(m) => Unheard(m)' \/ m \in missed'
              /\ ToldIn(m)' <=> ToldIn(m)
              /\ Waits(m, member[m].at)' => Waits(m, member[m].at)
  <2>1. PICK t : t = since[m]
    OBVIOUS
  <2>2. PICK u : u = member[m].at
    OBVIOUS
  <2>3. /\ (Unheard(m) <=> Waits(m, t)) /\ (Unheard(m)' <=> Waits(m, t)')
        /\ (Waits(m, member[m].at) <=> Waits(m, u)) /\ (Waits(m, member[m].at)' <=> Waits(m, u)')
    BY <1>1, <2>1, <2>2 DEF Unheard, Waits, Change
  <2>4. ToldIn(m)' <=> ToldIn(m)
    BY <1>1 DEF ToldIn
  <2> QED BY <1>6, <2>3, <2>4
<1>11. ASSUME NEW m \in Members PROVE RowStands(m)' /\ (m \notin missed' => RowTold(m)')
  <2>1. RowStands(m) /\ (m \notin missed => RowTold(m)) /\ member[m].rev \in Nat
    BY DEF GroupInv, GroupShaped, MemberRows
  <2> QED BY <1>1, <1>3, <1>5, <1>7, <1>10, <2>1 DEF RowStands, RowTold
<1>12. rd \in Readings \cup {Group!Idle} /\ qd \in Readings \cup {Group!Idle}
      /\ Group!Idle.at # "reading"
  BY DEF Group!Idle, GroupInv, GroupShaped
<1>13. ASSUME NEW q \in Readings, ReadingTrue(q), q.at = "reading", q.rev = scope'.rev
       PROVE  /\ q.rev = scope.rev
              /\ \A m \in q.seen : m \in truth \/ Unheard(m)' \/ m \in missed'
  <2>1. q.rev \in Nat /\ q.rev <= scope.rev /\ q.seen \subseteq Members
    BY <1>13 DEF Readings, ReadingTrue
  <2>2. q.rev = scope.rev
    BY <1>3, <1>7, <1>13, <2>1
  <2> QED BY <1>5, <1>10, <1>13, <2>1, <2>2 DEF ReadingTrue
<1>14. ReadingTrue(rd)'
  <2>1. rd.at = "reading" => rd \in Readings /\ rd.rev \in Nat /\ rd.rev <= scope.rev
    BY <1>12 DEF GroupInv, ReadingTrue, Readings
  <2> QED BY <1>1, <1>3, <1>7, <1>12, <1>13, <2>1 DEF GroupInv, ReadingTrue
<1>15. ReadingTrue(qd)'
  <2>1. qd.at = "reading" => qd \in Readings /\ qd.rev \in Nat /\ qd.rev <= scope.rev
    BY <1>12 DEF GroupInv, ReadingTrue, Readings
  <2> QED BY <1>1, <1>3, <1>7, <1>12, <1>13, <2>1 DEF GroupInv, ReadingTrue
<1>16. RosterRead'
  <2>1. rd.at = "reading" /\ rd.rev = scope'.rev => rd.rev = scope.rev
    BY <1>12, <1>13 DEF GroupInv
  <2> QED BY <1>1, <1>10, <2>1 DEF GroupInv, RosterRead
<1>17. ServedTrue'
  <2>1. ~Served'
    BY <1>1 DEF Served, GroupInv, GroupShaped
  <2> QED BY <2>1 DEF ServedTrue
<1> QED BY <1>8, <1>9, <1>11, <1>14, <1>15, <1>16, <1>17 DEF GroupInv


\* What is made of an event: nothing new, or a row that is younger than the one before, or a doubt.
NewRow(e, old, new) ==
    /\ new \in MemberRows /\ new.at = e.at /\ new.rev = scope.rev + 1
    /\ \/ /\ old.state = "none" \/ e.at > old.at
          /\ new.state = e.state /\ new.connection = e.connection
       \/ /\ new.state = "unknown" /\ old.at = e.at /\ old.state \in {"present", "left"}
          /\ "left" \in {old.state, e.state}

LEMMA Believed ==
    ASSUME GroupInv, NEW i \in DOMAIN pipe, pipe[i].kind # "ready", Group!Believe(pipe[i]),
           NEW m \in Members, m = pipe[i].who
    PROVE  \/ /\ UNCHANGED <<member, scope, roster>>
              /\ Change(pipe[i], m) /\ pipe[i].at = since[m] => ToldIn(m)
           \/ /\ \E new \in MemberRows : /\ NewRow(pipe[i], member[m], new)
                                         /\ member' = [member EXCEPT ![m] = new]
              /\ scope' = Group!Bumped /\ roster' = [roster EXCEPT !.complete = FALSE]
<1>1. /\ pipe[i] \in [who : Members, kind : {"member", "chat"}, state : {"present", "left"},
                      at : Nat, connection : Nat, sequence : Nat]
      /\ EventTrue(pipe[i]) /\ member[m] \in MemberRows /\ RowStands(m)
      /\ since[m] \in Nat /\ scope.rev \in Nat
  BY DEF GroupInv, GroupShaped, EventsTrue, Heard
<1>2. PICK e, old : e = pipe[i] /\ old = member[m]
  OBVIOUS
<1>3. /\ e.at \in Nat /\ old.at \in Nat /\ e.state \in {"present", "left"}
      /\ old.state \in {"none", "present", "left", "unknown"} /\ e.connection \in Nat
      /\ e.sequence \in Nat /\ old.connection \in Nat /\ old.sequence \in Nat
      /\ e.kind \in {"member", "chat"} /\ e.who = m
  BY <1>1, <1>2 DEF MemberRows
<1>4. Change(e, m) => Waits(m, e.at)
  BY <1>2 DEF Waits, Change
<1>5. /\ e.connection # 0 \/ e.state = "left" => Change(e, m)
      /\ old.state \in {"left", "unknown"} \/ old.connection # 0 =>
            old.at <= since[m] /\ ~Waits(m, old.at)
  BY <1>1, <1>2, <1>3 DEF EventTrue, RowStands, Change
<1>6. ~(old.at = e.at /\ Group!Comparable(old, e))
  BY <1>3, <1>4, <1>5 DEF Group!Comparable, Group!NoConnection
<1> DEFINE fact == [state |-> e.state, at |-> e.at, connection |-> e.connection,
                    sequence |-> e.sequence, rev |-> scope.rev + 1]
           doubtful == [old EXCEPT !.state = "unknown", !.rev = scope.rev + 1]
           Becomes(new) == /\ member' = [member EXCEPT ![m] = new] /\ scope' = Group!Bumped
                           /\ roster' = [roster EXCEPT !.complete = FALSE]
<1>7. IF Group!Newer(old, e) THEN Becomes(fact)
      ELSE IF Group!Older(old, e) \/ old.state = e.state THEN UNCHANGED <<member, scope, roster>>
      ELSE IF Group!Comparable(old, e)
           THEN IF e.sequence < old.sequence THEN UNCHANGED <<member, scope, roster>>
                ELSE Becomes(fact)
      ELSE Becomes(doubtful)
  BY <1>2 DEF Group!Believe
<1>8. fact \in MemberRows /\ doubtful \in MemberRows
      /\ doubtful.at = old.at /\ doubtful.state = "unknown" /\ doubtful.rev = scope.rev + 1
  <2>1. fact \in MemberRows
    BY <1>1, <1>3 DEF MemberRows
  <2>2. old \in MemberRows
    BY <1>1, <1>2
  <2>3. doubtful = [state |-> "unknown", at |-> old.at, connection |-> old.connection,
                    sequence |-> old.sequence, rev |-> scope.rev + 1]
    <3> DEFINE half == [old EXCEPT !.state = "unknown"]
    <3>1. half = [state |-> "unknown", at |-> old.at, connection |-> old.connection,
                  sequence |-> old.sequence, rev |-> old.rev]
      BY <2>2 DEF MemberRows
    <3> HIDE DEF half
    <3>2. [half EXCEPT !.rev = scope.rev + 1] =
            [state |-> "unknown", at |-> old.at, connection |-> old.connection,
             sequence |-> old.sequence, rev |-> scope.rev + 1]
      BY <3>1
    <3> QED BY <3>2 DEF half
  <2>4. scope.rev + 1 \in Nat
    BY <1>1
  <2> HIDE DEF doubtful
  <2>5. doubtful \in MemberRows
    BY <1>3, <2>3, <2>4 DEF MemberRows
  <2> QED BY <2>1, <2>3, <2>5
<1>9. CASE Group!Newer(old, e)
  <2>1. NewRow(e, old, fact)
    BY <1>3, <1>8, <1>9 DEF NewRow, Group!Newer
  <2> QED BY <1>2, <1>7, <1>8, <1>9, <2>1
<1>10. CASE ~Group!Newer(old, e) /\ (Group!Older(old, e) \/ old.state = e.state)
  <2>1. UNCHANGED <<member, scope, roster>>
    BY <1>7, <1>10
  <2>2. ASSUME Change(e, m), e.at = since[m] PROVE ToldIn(m)
    <3>1. old.state # "none" /\ old.at >= since[m]
      BY <1>3, <1>10, <2>2 DEF Group!Newer
    <3>2. e.state = Truly(m)
      BY <1>1, <1>2, <1>3, <2>2 DEF EventTrue, Change
    <3>3. CASE e.at < old.at
      <4>1. old.state = "present"
        BY <1>1, <1>3, <1>5, <2>2, <3>1, <3>3
      <4> QED BY <1>1, <1>2, <1>3, <2>2, <3>1, <3>3, <4>1 DEF ToldIn, RowStands
    <3>4. CASE e.at = old.at
      <4>1. old.state = "present" /\ e.state = "present"
        BY <1>3, <1>4, <1>5, <1>10, <2>2, <3>1, <3>4 DEF Group!Older
      <4> QED BY <1>2, <3>1, <3>2, <4>1 DEF ToldIn, Truly
    <3> QED BY <1>3, <1>10, <2>2, <3>1, <3>3, <3>4
  <2> QED BY <1>2, <2>1, <2>2
<1>11. CASE ~Group!Newer(old, e) /\ ~Group!Older(old, e) /\ old.state # e.state
  <2>1. old.at = e.at /\ old.state \in {"present", "left"}
    BY <1>3, <1>11 DEF Group!Newer, Group!Older
  <2>2. Becomes(doubtful)
    BY <1>6, <1>7, <1>11, <2>1
  <2>3. NewRow(e, old, doubtful)
    BY <1>3, <1>8, <1>11, <2>1 DEF NewRow
  <2> QED BY <1>2, <1>8, <2>2, <2>3
<1> QED BY <1>9, <1>10, <1>11

\* The receiver handles an event that tells nothing new.
LEMMA NothingLearnt ==
    ASSUME GroupInv, NEW i \in DOMAIN pipe, Group!Drop(i),
           UNCHANGED <<time, truth, since, session, link, member, rd, qd, missed>>,
           sent' = sent, scope' \in Scopes, scope'.rev >= scope.rev,
           DOMAIN roster' = DOMAIN roster, Served' => Served /\ roster'.rev = roster.rev,
           \A m \in Members : Change(pipe[i], m) /\ pipe[i].at = since[m] => ToldIn(m)
    PROVE  GroupInv'
<1>1. pipe' \in Seq(Heard) /\ EventsTrue'
  BY EventLeaves, EventsStand
<1>2. GroupShaped'
  BY <1>1 DEF GroupInv, GroupShaped, Scopes
<1>3. ASSUME NEW m \in Members
      PROVE  /\ Unheard(m)' => Unheard(m)
             /\ Unheard(m) => Unheard(m)' \/ ToldIn(m)
             /\ ToldIn(m)' <=> ToldIn(m)
             /\ Waits(m, member[m].at)' => Waits(m, member[m].at)
  <2>1. PICK t : t = since[m]
    OBVIOUS
  <2>2. PICK u : u = member[m].at
    OBVIOUS
  <2>3. /\ (Unheard(m) <=> Waits(m, t)) /\ (Unheard(m)' <=> Waits(m, t)')
        /\ (Waits(m, member[m].at) <=> Waits(m, u)) /\ (Waits(m, member[m].at)' <=> Waits(m, u)')
    BY <2>1, <2>2 DEF Unheard, Waits, Change
  <2>4. /\ Waits(m, t)' => Waits(m, t)
        /\ Waits(m, t) /\ ~(Change(pipe[i], m) /\ pipe[i].at = t) => Waits(m, t)'
    BY HeardOf
  <2>5. Waits(m, u)' => Waits(m, u)
    BY HeardOf
  <2>6. ToldIn(m)' <=> ToldIn(m)
    BY DEF ToldIn
  <2> QED BY <2>1, <2>3, <2>4, <2>5, <2>6
<1>4. scope.rev \in Nat /\ scope'.rev \in Nat /\ \A m \in Members : since[m] \in Nat /\ member[m].at \in Nat
  BY DEF GroupInv, GroupShaped, Scopes, MemberRows
<1>5. ASSUME NEW m \in Members PROVE RowStands(m)' /\ (m \notin missed' => RowTold(m)')
  <2>1. RowStands(m) /\ (m \notin missed => RowTold(m)) /\ member[m].rev \in Nat
    BY DEF GroupInv, GroupShaped, MemberRows
  <2> QED BY <1>3, <1>4, <2>1 DEF RowStands, RowTold, ToldIn
<1>6. rd \in Readings \cup {Group!Idle} /\ qd \in Readings \cup {Group!Idle}
      /\ Group!Idle.at # "reading"
  BY DEF Group!Idle, GroupInv, GroupShaped
<1>7. ASSUME NEW q \in Readings, ReadingTrue(q), q.at = "reading", q.rev = scope'.rev
      PROVE  /\ q.rev = scope.rev
             /\ \A m \in q.seen : m \in truth \/ Unheard(m)' \/ m \in missed
  <2>1. q.rev \in Nat /\ q.rev <= scope.rev /\ q.seen \subseteq Members
    BY <1>7 DEF Readings, ReadingTrue
  <2>2. q.rev = scope.rev
    BY <1>4, <1>7, <2>1
  <2> QED BY <1>3, <1>7, <2>1, <2>2 DEF ReadingTrue, ToldIn
<1>8. ReadingTrue(rd)'
  <2>1. rd.at = "reading" => rd \in Readings /\ rd.rev \in Nat /\ rd.rev <= scope.rev
    BY <1>6 DEF GroupInv, ReadingTrue, Readings
  <2> QED BY <1>4, <1>6, <1>7, <2>1 DEF GroupInv, ReadingTrue
<1>9. ReadingTrue(qd)'
  <2>1. qd.at = "reading" => qd \in Readings /\ qd.rev \in Nat /\ qd.rev <= scope.rev
    BY <1>6 DEF GroupInv, ReadingTrue, Readings
  <2> QED BY <1>4, <1>6, <1>7, <2>1 DEF GroupInv, ReadingTrue
<1>10. RosterRead'
  <2>1. rd.at = "reading" /\ rd.rev = scope'.rev => rd.rev = scope.rev
    BY <1>6, <1>7 DEF GroupInv
  <2> QED BY <1>3, <2>1 DEF GroupInv, RosterRead, ToldIn
<1>11. ServedTrue'
  <2>1. Served' => (Group!Listed)' = Group!Listed
    BY DEF Group!Listed
  <2> QED BY <1>3, <2>1 DEF GroupInv, ServedTrue, ToldIn
<1> QED BY <1>1, <1>2, <1>5, <1>8, <1>9, <1>10, <1>11 DEF GroupInv


LEMMA BumpRaises ==
    ASSUME scope \in Scopes
    PROVE  /\ Group!Bumped \in Scopes /\ scope.rev \in Nat
           /\ Group!Bumped.rev = scope.rev + 1
<1> DEFINE half == [scope EXCEPT !.there = TRUE]
<1>1. half \in Scopes /\ half.rev = scope.rev /\ scope.rev \in Nat
  BY DEF Scopes
<1> HIDE DEF half
<1> DEFINE full == [half EXCEPT !.rev = scope.rev + 1]
<1>2. full \in Scopes /\ full.rev = scope.rev + 1
  BY <1>1 DEF Scopes
<1>3. Group!Bumped = full
  BY DEF Group!Bumped, half
<1> QED BY <1>1, <1>2, <1>3

\* A query of an older revision is over: it will write nothing.
LEMMA QueriesPass ==
    ASSUME GroupInv, time' = time, session' = session, scope'.rev = scope.rev + 1
    PROVE  /\ rd' \in {rd, Group!Idle} => ReadingTrue(rd)' /\ RosterRead'
           /\ qd' \in {qd, Group!Idle} => ReadingTrue(qd)'
<1>1. /\ rd \in Readings \cup {Group!Idle} /\ qd \in Readings \cup {Group!Idle}
      /\ Group!Idle.at # "reading" /\ scope.rev \in Nat
  BY DEF Group!Idle, GroupInv, GroupShaped
<1>2. ASSUME NEW q \in Readings, ReadingTrue(q), q.at = "reading"
      PROVE  q.rev <= scope'.rev /\ q.rev # scope'.rev
  <2>1. q.rev \in Nat /\ q.rev <= scope.rev
    BY <1>2 DEF Readings, ReadingTrue
  <2> QED BY <1>1, <2>1
<1>3. ASSUME rd' = rd PROVE ReadingTrue(rd)' /\ RosterRead'
  BY <1>1, <1>2, <1>3 DEF GroupInv, ReadingTrue, RosterRead
<1>4. ASSUME qd' = qd PROVE ReadingTrue(qd)'
  BY <1>1, <1>2, <1>4 DEF GroupInv, ReadingTrue
<1>5. rd' = Group!Idle => ReadingTrue(rd)' /\ RosterRead'
  BY <1>1 DEF ReadingTrue, RosterRead
<1>6. qd' = Group!Idle => ReadingTrue(qd)'
  BY <1>1 DEF ReadingTrue
<1> QED BY <1>3, <1>4, <1>5, <1>6

\* The receiver handles an event that tells something new of its member.
LEMMA LearntKeeps ==
    ASSUME GroupInv, NEW i \in DOMAIN pipe, pipe[i].kind # "ready", Group!Drop(i),
           NEW m \in Members, m = pipe[i].who, NEW new \in MemberRows,
           NewRow(pipe[i], member[m], new), member' = [member EXCEPT ![m] = new],
           scope' = Group!Bumped, roster' = [roster EXCEPT !.complete = FALSE],
           UNCHANGED <<time, truth, since, sent, session, link, rd, qd, missed>>
    PROVE  GroupInv'
<1>1. pipe' \in Seq(Heard) /\ EventsTrue'
  BY EventLeaves, EventsStand
<1>2. scope' \in Scopes /\ scope.rev \in Nat /\ scope'.rev = scope.rev + 1
  BY BumpRaises DEF GroupInv, GroupShaped, Scopes
<1>3. GroupShaped'
  BY <1>1, <1>2 DEF GroupInv, GroupShaped, Scopes
<1>4. ReadingTrue(rd)' /\ ReadingTrue(qd)' /\ RosterRead'
  BY <1>2, QueriesPass
<1>5. ServedTrue'
  BY DEF GroupInv, GroupShaped, ServedTrue, Served
<1>6. PICK e, old : e = pipe[i] /\ old = member[m]
  OBVIOUS
<1>7. /\ e.at \in 1..time /\ time \in Nat /\ since[m] \in Nat /\ e.state \in {"present", "left"}
      /\ e.kind \in {"member", "chat"} /\ e.who = m /\ old.at \in Nat /\ e.connection \in Nat
      /\ member \in [Members -> MemberRows] /\ EventTrue(e) /\ RowStands(m)
      /\ (m \notin missed => RowTold(m))
  <2>1. /\ pipe[i] \in Heard /\ EventTrue(pipe[i]) /\ member[m] \in MemberRows
        /\ time \in Nat /\ since[m] \in Nat /\ member \in [Members -> MemberRows]
    BY DEF GroupInv, GroupShaped, EventsTrue
  <2>2. e \in Heard /\ e.kind # "ready" /\ EventTrue(e) /\ old \in MemberRows /\ e.who = m
    BY <1>6, <2>1
  <2>3. /\ e.state \in {"present", "left"} /\ e.kind \in {"member", "chat"}
        /\ e.connection \in Nat /\ old.at \in Nat
    BY <2>2 DEF Heard, MemberRows
  <2>4. RowStands(m) /\ (m \notin missed => RowTold(m))
    BY DEF GroupInv
  <2>5. e.at \in 1..time
    BY <2>2 DEF EventTrue
  <2> QED BY <2>1, <2>2, <2>3, <2>4, <2>5
<1>8. ASSUME NEW n \in Members, NEW t
      PROVE  /\ Waits(n, t)' => Waits(n, t)
             /\ Waits(n, t) /\ ~(Change(e, n) /\ e.at = t) => Waits(n, t)'
             /\ Change(e, n) /\ e.at = t => ~Waits(n, t)'
  BY <1>6, HeardOf
<1>9. ASSUME NEW n \in Members, n # m PROVE RowStands(n)' /\ (n \notin missed' => RowTold(n)')
  <2>1. PICK t, u : t = since[n] /\ u = member[n].at
    OBVIOUS
  <2>2. /\ member'[n] = member[n] /\ ~Change(e, n) /\ member[n].rev \in Nat
    BY <1>7, <1>9 DEF Change, MemberRows
  <2>3. /\ (Unheard(n) <=> Waits(n, t)) /\ (Unheard(n)' <=> Waits(n, t)')
        /\ (Waits(n, member[n].at) <=> Waits(n, u)) /\ (Waits(n, member[n].at)' <=> Waits(n, u)')
    BY <2>1, <2>2 DEF Unheard, Waits, Change
  <2>4. (Waits(n, t)' <=> Waits(n, t)) /\ (Waits(n, u)' <=> Waits(n, u))
    BY <1>8, <2>2
  <2>5. RowStands(n) /\ (n \notin missed => RowTold(n))
    BY DEF GroupInv
  <2>6. RowStands(n)'
    BY <1>2, <2>2, <2>3, <2>4, <2>5 DEF RowStands
  <2>7. n \notin missed' => RowTold(n)'
    BY <2>2, <2>3, <2>4, <2>5 DEF RowTold
  <2> QED BY <2>6, <2>7
<1>10. PICK t : t = since[m]
  OBVIOUS
<1>11. /\ (Unheard(m) <=> Waits(m, t)) /\ (Unheard(m)' <=> Waits(m, t)')
       /\ member'[m] = new /\ new.at = e.at /\ new.rev = scope.rev + 1
       /\ (Waits(m, member[m].at)' <=> Waits(m, e.at)')
  <2>1. member'[m] = new /\ new.at = e.at /\ new.rev = scope.rev + 1
    BY <1>6, <1>7 DEF NewRow
  <2>2. (Unheard(m) <=> Waits(m, t)) /\ (Unheard(m)' <=> Waits(m, t)')
    BY <1>10 DEF Unheard, Waits, Change
  <2>3. Waits(m, member[m].at)' <=> Waits(m, e.at)'
    BY <2>1 DEF Waits, Change
  <2> QED BY <2>1, <2>2, <2>3
<1>12. NewRow(e, old, new)
  BY <1>6
<1>13. e.connection # 0 \/ e.state = "left" => Change(e, m)
  BY <1>7 DEF EventTrue, Change
<1>14. RowStands(m)'
  <2>1. new.state \in {"left", "unknown"} \/ new.connection # 0 =>
           new.at <= since[m] /\ ~Waits(m, e.at)'
    <3>1. Waits(m, old.at) <=> Waits(m, member[m].at)
      BY <1>6 DEF Waits, Change
    <3>2. old.state = "left" => old.at <= since[m] /\ ~Waits(m, old.at)
      BY <1>6, <1>7, <3>1 DEF RowStands
    <3>3. Change(e, m) => e.at <= since[m]
      BY <1>7 DEF EventTrue, Change
    <3>4. (Waits(m, e.at)' => Waits(m, e.at)) /\ (Change(e, m) => ~Waits(m, e.at)')
      BY <1>8
    <3>5. ASSUME new.state \in {"left", "unknown"} \/ new.connection # 0
          PROVE  Change(e, m) \/ (old.state = "left" /\ old.at = e.at)
      BY <1>7, <1>12, <1>13, <3>5 DEF NewRow
    <3>6. old.at = e.at => (Waits(m, old.at) <=> Waits(m, e.at))
      OBVIOUS
    <3> QED BY <1>11, <3>2, <3>3, <3>4, <3>5, <3>6
  <2>2. new.state = "left" /\ new.at = since[m] => m \notin truth
    BY <1>7, <1>11, <1>12, <1>13 DEF NewRow, EventTrue, Change, Truly
  <2>3. new.state = "present" /\ new.at > since[m] => m \in truth
    BY <1>7, <1>11, <1>12, <1>13 DEF NewRow, EventTrue, Change, Truly
  <2>4. new.at <= time /\ new.rev <= scope'.rev
    BY <1>2, <1>7, <1>11
  <2> QED BY <1>11, <2>1, <2>2, <2>3, <2>4 DEF RowStands
<1>15. ASSUME m \notin missed' PROVE RowTold(m)'
  <2>1. CASE Unheard(m)'
    BY <2>1 DEF RowTold
  <2>2. CASE ~Unheard(m)' /\ Unheard(m)
    <3>1. Change(e, m) /\ e.at = since[m]
      BY <1>8, <1>10, <1>11, <2>2
    <3>2. e.state = Truly(m)
      BY <1>7, <3>1 DEF EventTrue, Change
    <3> QED BY <1>7, <1>11, <1>12, <3>1, <3>2 DEF RowTold, NewRow, Truly
  <2>3. CASE ~Unheard(m)' /\ ~Unheard(m)
    <3>1. since[m] > 0 => old.state # "none" /\ old.at >= since[m]
      BY <1>6, <1>7, <1>15, <2>3 DEF RowTold
    <3>2. new.state # "none" /\ (since[m] > 0 => new.at >= since[m])
      BY <1>7, <1>11, <1>12, <3>1 DEF NewRow
    <3>3. ASSUME new.state = "present" PROVE m \in truth
      <4>1. e.at > since[m]
        BY <1>7, <1>12, <3>1, <3>3 DEF NewRow
      <4> QED BY <1>7, <4>1 DEF EventTrue
    <3> QED BY <1>11, <3>2, <3>3 DEF RowTold
  <2> QED BY <2>1, <2>2, <2>3
<1>16. \A n \in Members : RowStands(n)' /\ (n \notin missed' => RowTold(n)')
  BY <1>9, <1>14, <1>15
<1> QED BY <1>1, <1>3, <1>4, <1>5, <1>16 DEF GroupInv


LEMMA ObserveKeeps == ASSUME GroupInv, Group!Observe PROVE GroupInv'
<1>1. PICK i \in DOMAIN pipe :
         /\ Group!Drop(i)
         /\ IF pipe[i].kind = "ready"
            THEN /\ scope' = Group!Gapped(scope) /\ roster' = [roster EXCEPT !.continuous = FALSE]
                 /\ gap' = FALSE /\ UNCHANGED member
            ELSE Group!Believe(pipe[i]) /\ UNCHANGED gap
  <2>1. pipe \in Seq(Heard)
    BY DEF GroupInv, GroupShaped
  <2>2. Group!Following \subseteq DOMAIN pipe
    BY <2>1 DEF Group!Following
  <2> QED BY <2>2 DEF Group!Observe
<1>2. UNCHANGED <<time, truth, since, sent, session, link, rd, qd, missed>>
  BY DEF Group!Observe, Group!world
<1>3. scope \in Scopes /\ DOMAIN [roster EXCEPT !.continuous = FALSE] = DOMAIN roster
  BY DEF GroupInv, GroupShaped, Scopes
<1>4. CASE pipe[i].kind = "ready"
  <2>1. ~Served'
    BY <1>1, <1>4 DEF Served, GroupInv, GroupShaped
  <2>2. \A m \in Members : ~Change(pipe[i], m)
    BY <1>4 DEF Change
  <2>3. scope' \in Scopes /\ scope'.rev >= scope.rev
    BY <1>1, <1>3, <1>4, GapRaises
  <2> QED BY <1>1, <1>2, <1>3, <1>4, <2>1, <2>2, <2>3, NothingLearnt
<1>5. CASE pipe[i].kind # "ready"
  <2>1. PICK m \in Members : m = pipe[i].who
    BY <1>5 DEF GroupInv, GroupShaped, Heard
  <2>2. CASE /\ UNCHANGED <<member, scope, roster>>
             /\ Change(pipe[i], m) /\ pipe[i].at = since[m] => ToldIn(m)
    <3>1. Served' => Served /\ roster'.rev = roster.rev
      BY SMTT(30), <1>1, <1>5, <2>2 DEF Served
    <3>2. \A n \in Members : Change(pipe[i], n) /\ pipe[i].at = since[n] => ToldIn(n)
      BY <2>1, <2>2 DEF Change
    <3>3. scope' \in Scopes /\ scope'.rev >= scope.rev
      BY <1>3, <2>2 DEF Scopes
    <3> QED BY <1>1, <1>2, <2>2, <3>1, <3>2, <3>3, NothingLearnt
  <2>3. CASE /\ \E new \in MemberRows : /\ NewRow(pipe[i], member[m], new)
                                        /\ member' = [member EXCEPT ![m] = new]
             /\ scope' = Group!Bumped /\ roster' = [roster EXCEPT !.complete = FALSE]
    BY <1>1, <1>2, <1>5, <2>1, <2>3, LearntKeeps
  <2> QED BY <1>1, <1>5, <2>1, <2>2, <2>3, Believed
<1> QED BY <1>4, <1>5

\* The rows an undisturbed query writes.
LEMMA RowsRead ==
    ASSUME GroupInv, NEW q \in Readings, ReadingTrue(q), q.rev = scope.rev,
           NEW rev \in Nat, rev >= scope.rev, scope'.rev = rev,
           member' = [m \in Members |-> IF m \in q.seen THEN Group!Present(q.started, rev)
                                        ELSE member[m]],
           UNCHANGED <<time, truth, since, pipe, missed>>
    PROVE  /\ member' \in [Members -> MemberRows] /\ EventsTrue'
           /\ \A m \in Members : RowStands(m)' /\ (m \notin missed' => RowTold(m)')
           /\ \A m \in Members : Unheard(m)' <=> Unheard(m)
<1>1. /\ q.started \in Nat /\ q.started <= time /\ q.seen \subseteq Members /\ q.at = "reading"
      /\ \A m \in Members : member[m].at <= q.started
      /\ \A m \in q.seen : /\ q.started > since[m] => m \in truth
                           /\ m \in truth \/ Unheard(m) \/ m \in missed
  BY DEF Readings, ReadingTrue
<1>2. /\ time \in Nat /\ member \in [Members -> MemberRows] /\ scope.rev \in Nat
      /\ \A m \in Members : member[m].at \in Nat /\ member[m].rev \in Nat /\ since[m] \in Nat
  BY DEF GroupInv, GroupShaped, MemberRows
<1>3. ASSUME NEW m \in Members
      PROVE  /\ m \in q.seen => /\ member'[m].state = "present" /\ member'[m].at = q.started
                                /\ member'[m].connection = 0 /\ member'[m].rev = rev
                                /\ member'[m] \in MemberRows
             /\ m \notin q.seen => member'[m] = member[m]
  BY <1>1, <1>2 DEF Group!Present, Group!NoConnection, Group!NoSeq, MemberRows
<1>4. member' \in [Members -> MemberRows]
  BY <1>2, <1>3
<1>5. EventsTrue'
  BY DEF GroupInv, EventsTrue, EventTrue, Truly, Change
<1>6. \A m \in Members : Unheard(m)' <=> Unheard(m)
  BY DEF Unheard, Waits, Change
<1>7. ASSUME NEW m \in Members PROVE RowStands(m)' /\ (m \notin missed' => RowTold(m)')
  <2>1. RowStands(m) /\ (m \notin missed => RowTold(m))
    BY DEF GroupInv
  <2>2. CASE m \in q.seen
    <3>1. RowStands(m)'
      BY <1>1, <1>2, <1>3, <2>2 DEF RowStands
    <3>2. m \notin missed' => RowTold(m)'
      BY <1>1, <1>2, <1>3, <1>6, <2>1, <2>2 DEF RowTold
    <3> QED BY <3>1, <3>2
  <2>3. CASE m \notin q.seen
    <3>1. Waits(m, member[m].at)' <=> Waits(m, member[m].at)
      BY <1>3, <2>3 DEF Waits, Change
    <3>2. RowStands(m)'
      BY <1>2, <1>3, <2>1, <2>3, <3>1 DEF RowStands
    <3>3. m \notin missed' => RowTold(m)'
      BY <1>3, <1>6, <2>1, <2>3 DEF RowTold
    <3> QED BY <3>2, <3>3
  <2> QED BY <2>2, <2>3
<1> QED BY <1>4, <1>5, <1>6, <1>7

LEMMA MemberEndKeeps == ASSUME GroupInv, Group!MemberEnd PROVE GroupInv'
<1>1. /\ UNCHANGED <<time, truth, since, sent, pipe, session, link, gap, rd, missed>>
      /\ qd # Group!Idle /\ qd' = Group!Idle
      /\ \/ /\ scope.rev = qd.rev /\ scope' = Group!Bumped
            /\ roster' = [roster EXCEPT !.complete = FALSE]
            /\ member' = [m \in Members |-> IF m \in qd.seen
                             THEN Group!Present(qd.started, scope.rev + 1) ELSE member[m]]
         \/ UNCHANGED <<scope, member, roster>>
  BY DEF Group!MemberEnd, Group!world
<1>2. /\ qd \in Readings /\ ReadingTrue(qd) /\ scope \in Scopes /\ scope.rev \in Nat
      /\ time \in Nat /\ session \in Nat
  BY <1>1 DEF GroupInv, GroupShaped, Scopes
<1>3. CASE UNCHANGED <<scope, member, roster>>
  <2>1. GroupShaped'
    BY <1>1, <1>3 DEF GroupInv, GroupShaped
  <2>2. Served' => Served /\ roster'.rev = roster.rev
    BY <1>1, <1>3 DEF Served
  <2> QED BY <1>1, <1>2, <1>3, <2>1, <2>2, QueryStands, MembersStay, ServedStays DEF GroupInv
<1>4. CASE /\ scope.rev = qd.rev /\ scope' = Group!Bumped
           /\ roster' = [roster EXCEPT !.complete = FALSE]
           /\ member' = [m \in Members |-> IF m \in qd.seen
                            THEN Group!Present(qd.started, scope.rev + 1) ELSE member[m]]
  <2>1. scope' \in Scopes /\ scope'.rev = scope.rev + 1 /\ scope.rev + 1 \in Nat
        /\ scope.rev + 1 >= scope.rev
    BY <1>2, <1>4, BumpRaises
  <2>2. PICK q \in Readings, rev \in Nat : q = qd /\ rev = scope.rev + 1
    BY <1>2, <2>1
  <2>3. /\ member' \in [Members -> MemberRows] /\ EventsTrue'
        /\ \A m \in Members : RowStands(m)' /\ (m \notin missed' => RowTold(m)')
    BY <1>1, <1>2, <1>4, <2>1, <2>2, RowsRead
  <2>4. GroupShaped'
    BY <1>1, <1>4, <2>1, <2>3 DEF GroupInv, GroupShaped, Scopes
  <2>5. ReadingTrue(rd)' /\ ReadingTrue(qd)' /\ RosterRead'
    BY <1>1, <2>1, QueriesPass
  <2>6. ServedTrue'
    BY <1>4 DEF GroupInv, GroupShaped, ServedTrue, Served
  <2> QED BY <2>3, <2>4, <2>5, <2>6 DEF GroupInv
<1> QED BY <1>1, <1>3, <1>4


\* A roster that was read beside something new is not kept.
LEMMA RosterDisturbed ==
    ASSUME GroupInv, rd # Group!Idle, rd' = Group!Idle, NEW s \in Scopes, NEW moved \in BOOLEAN,
           s.rev >= scope.rev, ~moved => s.rev = scope.rev,
           scope' = [s EXCEPT !.there = TRUE],
           roster' = IF moved THEN [roster EXCEPT !.continuous = FALSE] ELSE roster,
           UNCHANGED <<time, truth, since, sent, pipe, session, link, member, gap, error, qd,
                       reads, missed>>
    PROVE  GroupInv'
<1>1. /\ scope' \in Scopes /\ scope'.rev = s.rev /\ s.rev \in Nat
      /\ DOMAIN roster' = DOMAIN roster
  BY DEF Scopes
<1>2. GroupShaped'
  BY <1>1 DEF GroupInv, GroupShaped, Scopes
<1>3. time \in Nat /\ session \in Nat /\ scope.rev \in Nat
  BY DEF GroupInv, GroupShaped
<1>4. Served' => Served /\ roster'.rev = roster.rev
  <2>1. CASE moved
    BY <2>1 DEF Served, GroupInv, GroupShaped
  <2>2. CASE ~moved
    BY <1>1, <2>2 DEF Served
  <2> QED BY <2>1, <2>2
<1> QED BY <1>1, <1>2, <1>3, <1>4, QueryStands, MembersStay, ServedStays DEF GroupInv

\* A roster that was read beside nothing new is what the group is, if one session read it.
LEMMA RosterKept ==
    ASSUME GroupInv, rd # Group!Idle, rd' = Group!Idle, rd.todo = {}, rd.rev = scope.rev,
           NEW rev \in Nat, rev = scope.rev + 1,
           scope' = [there |-> TRUE, rev |-> rev, continuity |-> Group!Verified(rd)],
           member' = [m \in Members |-> IF m \in rd.seen THEN Group!Present(rd.started, rev)
                                        ELSE member[m]],
           roster' = [there |-> TRUE, rev |-> rev, complete |-> TRUE,
                      continuous |-> Group!Verified(rd), count |-> Group!Cardinality(rd.seen)],
           UNCHANGED <<time, truth, since, sent, pipe, session, link, qd, missed>>
    PROVE  GroupInv'
<1>1. rd \in Readings /\ ReadingTrue(rd) /\ scope.rev \in Nat /\ time \in Nat /\ session \in Nat
  BY DEF GroupInv, GroupShaped
<1>2. rev >= scope.rev /\ scope'.rev = rev
  BY <1>1
<1>3. PICK q \in Readings : q = rd
  BY <1>1
<1>4. /\ member' \in [Members -> MemberRows] /\ EventsTrue'
      /\ \A m \in Members : RowStands(m)' /\ (m \notin missed' => RowTold(m)')
      /\ \A m \in Members : Unheard(m)' <=> Unheard(m)
  BY <1>1, <1>2, <1>3, RowsRead
<1>5. Group!Verified(rd) \in BOOLEAN
  BY DEF Group!Verified
<1>6. scope' \in Scopes
  BY <1>5 DEF Scopes
<1>7. GroupShaped'
  BY <1>4, <1>6 DEF GroupInv, GroupShaped, Scopes
<1>8. ReadingTrue(rd)' /\ ReadingTrue(qd)' /\ RosterRead'
  BY <1>2, QueriesPass
<1>9. /\ rd.seen \subseteq Members /\ rd.at = "reading" /\ rd.connection \in Nat /\ rd.started \in Nat
      /\ \A m \in Members : member[m].rev \in Nat /\ member[m].rev <= scope.rev
  BY <1>1 DEF Readings, GroupInv, GroupShaped, RowStands, MemberRows
<1>10. \A m \in Members : m \in (Group!Listed)' <=> m \in rd.seen
  <2>1. ASSUME NEW m \in Members, m \in rd.seen
        PROVE  member'[m].state = "present" /\ member'[m].rev = rev
    BY <2>1 DEF Group!Present
  <2>2. ASSUME NEW m \in Members, m \notin rd.seen PROVE member'[m].rev # rev
    BY <1>1, <1>9, <2>2
  <2> QED BY <2>1, <2>2 DEF Group!Listed
<1>11. ASSUME Served' PROVE link = "online" /\ rd.connection = session /\ rd.connection # 0
  <2>1. Group!Verified(rd)
    BY <1>11 DEF Served
  <2> QED BY <2>1 DEF Group!Verified, Group!Continuity, Group!NoConnection
<1>12. ServedTrue'
  <2> SUFFICES ASSUME Served', NEW m \in Members
               PROVE  /\ link' # "fresh" /\ (Unheard(m)' \/ (m \in (Group!Listed)' <=> m \in truth'))
                      /\ ToldIn(m)' => m \in (Group!Listed)'
    BY <1>11 DEF ServedTrue
  <2>1. /\ ToldIn(m) => m \in rd.seen
        /\ Unheard(m) \/ (m \in rd.seen <=> m \in truth)
    BY <1>9, <1>11 DEF GroupInv, RosterRead
  <2>2. m \notin rd.seen => (ToldIn(m)' <=> ToldIn(m))
    BY DEF ToldIn
  <2> QED BY <1>4, <1>10, <1>11, <2>1, <2>2
<1> QED BY <1>4, <1>7, <1>8, <1>12 DEF GroupInv

LEMMA RosterEndKeeps == ASSUME GroupInv, Group!RosterEnd PROVE GroupInv'
<1> DEFINE moved == rd.connection # Group!NoConnection /\ Group!Continuity # rd.connection
           s == IF moved THEN Group!Gapped(scope) ELSE scope
           rev == s.rev + 1
<1>1. /\ UNCHANGED <<time, truth, since, sent, pipe, session, link, qd, reads, missed>>
      /\ rd # Group!Idle /\ rd.todo = {} /\ rd' = Group!Idle
      /\ IF Group!Undisturbed(rd, s)
         THEN /\ scope' = [there |-> TRUE, rev |-> rev, continuity |-> Group!Verified(rd)]
              /\ member' = [m \in Members |-> IF m \in rd.seen THEN Group!Present(rd.started, rev)
                                              ELSE member[m]]
              /\ roster' = [there |-> TRUE, rev |-> rev, complete |-> TRUE,
                            continuous |-> Group!Verified(rd), count |-> Group!Cardinality(rd.seen)]
         ELSE /\ scope' = [s EXCEPT !.there = TRUE] /\ UNCHANGED <<member, error, gap>>
              /\ roster' = IF moved THEN [roster EXCEPT !.continuous = FALSE] ELSE roster
  BY DEF Group!RosterEnd, Group!world
<1>2. scope \in Scopes
  BY DEF GroupInv, GroupShaped, Scopes
<1>3. /\ s \in Scopes /\ moved \in BOOLEAN /\ s.rev \in Nat /\ scope.rev \in Nat
      /\ s.rev >= scope.rev /\ (~moved => s.rev = scope.rev)
  <2>1. scope.rev \in Nat /\ scope.rev >= scope.rev
    BY <1>2 DEF Scopes
  <2> QED BY <1>2, <2>1, GapRaises
<1>4. CASE Group!Undisturbed(rd, s)
  <2>1. rd.rev = s.rev /\ rd.rev <= scope.rev
    BY <1>1, <1>4 DEF Group!Undisturbed, GroupInv, GroupShaped, ReadingTrue, Readings
  <2>2. rd.rev = scope.rev /\ rev = scope.rev + 1 /\ rev \in Nat
    BY <1>3, <2>1
  <2> HIDE DEF rev, s, moved
  <2> QED BY <1>1, <1>4, <2>2, RosterKept
<1>5. CASE ~Group!Undisturbed(rd, s)
  <2> HIDE DEF rev, s, moved
  <2> QED BY <1>1, <1>3, <1>5, RosterDisturbed
<1> QED BY <1>4, <1>5

LEMMA GroupAlways == ServicesSpec => []GroupInv
<1>1. ServicesInit => GroupInv
  <2> SUFFICES ASSUME Group!Init PROVE GroupInv
    BY DEF ServicesInit
  <2>1. GroupShaped
    BY RosterAssumption DEF Group!Init, GroupShaped, Group!NoRow, Group!NoRoster, MemberRows,
       Group!NoConnection, Group!NoSeq
  <2>2. /\ DOMAIN pipe = {} /\ time = 1 /\ rd.at # "reading" /\ qd.at # "reading" /\ scope.rev = 0
        /\ ~Served
        /\ \A m \in Members : /\ since[m] = 0 /\ member[m].state = "none" /\ member[m].at = 0
                              /\ member[m].connection = 0 /\ member[m].rev = 0
    BY DEF Group!Init, Group!NoRow, Group!NoRoster, Group!Idle, Group!NoConnection, Group!NoSeq,
       Served
  <2>3. EventsTrue
    BY <2>2 DEF EventsTrue
  <2>4. ASSUME NEW m \in Members PROVE RowStands(m) /\ RowTold(m)
    BY <2>2 DEF RowStands, RowTold
  <2>5. ReadingTrue(rd) /\ ReadingTrue(qd) /\ RosterRead /\ ServedTrue
    BY <2>2 DEF ReadingTrue, RosterRead, ServedTrue
  <2> QED BY <2>1, <2>3, <2>4, <2>5 DEF GroupInv
<1>2. GroupInv /\ [Group!Next]_(Group!vars) => GroupInv'
  <2> SUFFICES ASSUME GroupInv, [Group!Next]_(Group!vars) PROVE GroupInv'
    OBVIOUS
  <2>1. CASE UNCHANGED Group!vars
    <3>1. UNCHANGED <<time, truth, since, sent, pipe, session, link, scope, member, roster, gap,
                      rd, qd, missed>>
      BY <2>1 DEF Group!vars
    <3>2. time \in Nat /\ session \in Nat /\ scope.rev \in Nat
      BY DEF GroupInv, GroupShaped
    <3>3. GroupShaped' /\ (Served' => Served /\ roster'.rev = roster.rev)
      BY <3>1 DEF GroupInv, GroupShaped, Served
    <3> QED BY <3>1, <3>2, <3>3, QueryStands, MembersStay, ServedStays DEF GroupInv
  <2>2. ~Group!ObserveFails
    BY DEF Group!ObserveFails
  <2>3. CASE Group!Next
    BY SMTT(30), <2>2, <2>3, TickKeeps, LinkKeeps, FreshKeeps, ReadyKeeps, GroupRestartKeeps, ObserveKeeps,
       QueriesBegin, QueriesSee, MemberEndKeeps, RosterEndKeeps, RosterReadFails, ChangesKeeps,
       SpeaksKeeps DEF Group!Next
  <2> QED BY <2>1, <2>3
<1> QED BY <1>1, <1>2, GroupSteps, PTL DEF ServicesSpec

(* A roster served from the cache as complete and continuous is the group,  *)
(* but for changes whose events are on their way, and the row of a member   *)
(* none of whose events was lost tells the truth or that it is in doubt     *)
(* (cached_roster, record_roster, member_event), for any members, sessions, *)
(* clocks, orders of events and ends of queries, as long as every event     *)
(* that reaches the receiver can be stored.                                 *)
THEOREM RosterIsTrue == ServicesSpec => []RosterTrue
<1>1. ASSUME GroupInv PROVE RosterTrue
  <2>1. ASSUME NEW m \in Members PROVE Unheard(m) => Group!Coming(m)
    BY DEF Unheard, Waits, Change, Group!Coming
  <2>2. Group!Cached => Served
    BY DEF Group!Cached, Served
  <2>3. Group!CachedRosterIsTrue
    BY <1>1, <2>1, <2>2 DEF GroupInv, ServedTrue, Group!CachedRosterIsTrue
  <2>4. ASSUME NEW m \in Members \ missed, ~Group!Coming(m), member[m].state # "none"
        PROVE  member[m].state \in {"unknown", IF m \in truth THEN "present" ELSE "left"}
    <3>1. RowStands(m) /\ RowTold(m) /\ ~Unheard(m)
      BY <1>1, <2>1, <2>4 DEF GroupInv
    <3>2. /\ member[m].state \in {"present", "left", "unknown"}
          /\ member[m].at \in Nat /\ since[m] \in Nat
      BY <1>1, <2>4 DEF GroupInv, GroupShaped, MemberRows
    <3>3. member[m].state = "left" => m \notin truth
      BY <3>1, <3>2 DEF RowStands, RowTold
    <3> QED BY <3>1, <3>2, <3>3 DEF RowTold
  <2>5. Group!MembershipIsTrue
    BY <2>4 DEF Group!MembershipIsTrue
  <2> QED BY <2>3, <2>5 DEF RosterTrue
<1> QED BY <1>1, GroupAlways, PTL
==============================================================================
