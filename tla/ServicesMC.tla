----------------------------- MODULE ServicesMC -----------------------------
(***************************************************************************)
(* Ten services of the adapter that share no state: subscriptions, streams *)
(* and their fence, uploads, OneBot connections, settings, panels, join    *)
(* requests, rosters, and the extension ledger, side by side.  `service`   *)
(* says which one runs in a behaviour, so that one instance checks each by *)
(* itself.  The ledger is extended, not instantiated: TLC evaluates its    *)
(* assumptions.                                                            *)
(***************************************************************************)
EXTENDS ExtensionLedger

CONSTANTS
    Subs, Callbacks, LineCap, BusCap, BusBytes, BusEvents, BusFaults,
    Peers, Subscribers, MaxPeers, QueueFrames, NetBytes, NetEvents, NetFaults,
    Streams, Sourceless, StreamTasks, MaxFrags, StreamFaults,
    Fragments, MaxIndex, RowCap,
    Uploads, Size, PoolBytes, BlobCap, UploadCap, Workers, Slots, MaxRounds,
    Pages, Instances, Keys, Values, Default, Keep, MaxRevision,
    Bodies, MaxWrites, MaxControl, PanelFaults,
    Callers, MaxFlags, JoinFaults,
    Members, Sessions, MaxTime, MaxEvents, MaxSessions, MaxReads, RosterFaults

ASSUME BusAssumption ==
    /\ IsFiniteSet(Subs) /\ Callbacks \subseteq Subs
    /\ LineCap \in Nat \ {0} /\ BusCap \in Nat /\ BusBytes \in Nat
ASSUME PeersAssumption ==
    /\ IsFiniteSet(Peers) /\ Subscribers \subseteq Peers
    /\ MaxPeers \in Nat /\ QueueFrames \in Nat /\ NetBytes \in Nat /\ NetEvents \in Nat
ASSUME MediaAssumption ==
    /\ IsFiniteSet(Uploads) /\ Size \in Nat /\ PoolBytes \in Nat /\ Slots \in Nat
ASSUME StreamAssumption == MaxFrags \in Nat
ASSUME FenceAssumption == MaxIndex \in Nat /\ RowCap \in Nat \ {0}
ASSUME SettingsAssumption == Default \in Values /\ Keep \in Nat \ {0} /\ MaxRevision \in Nat
ASSUME PanelAssumption == Bodies # {} /\ MaxControl \in Nat
ASSUME RosterAssumption == Sessions \subseteq Nat

VARIABLES
    service,
    \* the event bus
    published, phase, wish, line, consumer, ended, queued_bytes, busClosed, begun, until, given,
    busFaults,
    \* native streams; the fence of a source's fragments
    source, streamRow, streamAt, mode, index, retry, attempted, final, took, doubt, streamFaults,
    rows, asked, shown,
    \* media
    stage, size, open, held, used, part, flying, free, prepared, cache, rounds, closed, shut,
    arrived, filed,
    \* the OneBot listener
    where, queue, hand, writer, failure, bytes, queuedBytes, action, listening, events, joined,
    got, netFaults,
    \* settings
    revision, draft, appliedRevision, applied, versions, bindings, seen, local, wrote,
    \* a panel
    panelRow, plan, panelAt, val, want, writes, remote, wants, touched, panelFaults,
    \* a join request
    joinRow, at, holds, answers, reached, letIn, lapsed, joinFaults,
    \* a roster
    time, truth, since, pipe, sent, session, link, scope, member, roster, gap, error, rd, qd,
    reads, missed, rosterFaults

Bus == INSTANCE EventBus WITH
    Capacity <- LineCap, BusCapacity <- BusCap,
    MaxBytes <- BusBytes, MaxEvents <- BusEvents, MaxFaults <- BusFaults,
    want <- wish, queue <- line, gap <- ended, closed <- busClosed, since <- begun,
    seen <- given, faults <- busFaults

Stream == INSTANCE NativeStream WITH
    MaxTasks <- StreamTasks, MaxFaults <- StreamFaults,
    row <- streamRow, pc <- streamAt, faults <- streamFaults

Fence == INSTANCE StreamFence WITH Ops <- Fragments, OpCap <- RowCap

Media == INSTANCE MediaUpload WITH
    TotalBytes <- PoolBytes, TaskCap <- UploadCap, asked <- prepared

Net == INSTANCE NetworkPeers WITH
    TotalBytes <- NetBytes, MaxEvents <- NetEvents, MaxFaults <- NetFaults,
    since <- joined, faults <- netFaults

Settings == INSTANCE SettingsDraft

Panel == INSTANCE PanelSync WITH
    MaxOps <- MaxWrites, StoreFails <- FALSE, MaxFaults <- PanelFaults,
    row <- panelRow, pc <- panelAt, ledger <- writes, faults <- panelFaults

Join == INSTANCE JoinFlags WITH
    MaxFaults <- JoinFaults, row <- joinRow, ledger <- answers, faults <- joinFaults

Group == INSTANCE Roster WITH
    StoreFails <- FALSE, MaxFaults <- RosterFaults, row <- member, faults <- rosterFaults

-----------------------------------------------------------------------------
busVars == <<published, phase, wish, line, consumer, ended, queued_bytes, busClosed, begun,
             until, given, busFaults>>
streamVars == <<source, streamRow, streamAt, mode, index, retry, attempted, final, took, doubt,
                streamFaults>>
fenceVars == <<rows, asked, shown>>
mediaVars == <<stage, size, open, held, used, part, flying, free, prepared, cache, rounds,
               closed, shut, arrived, filed>>
netVars == <<where, queue, hand, writer, failure, bytes, queuedBytes, action, listening, events,
             joined, got, netFaults>>
settingsVars == <<revision, draft, appliedRevision, applied, versions, bindings, seen, local,
                  wrote>>
panelVars == <<panelRow, plan, panelAt, val, want, writes, remote, wants, touched, panelFaults>>
joinVars == <<joinRow, at, holds, answers, reached, letIn, lapsed, joinFaults>>
groupVars == <<time, truth, since, pipe, sent, session, link, scope, member, roster, gap, error,
               rd, qd, reads, missed, rosterFaults>>
allVars == <<service, vars, busVars, streamVars, fenceVars, mediaVars, netVars,
             settingsVars, panelVars, joinVars, groupVars>>

\* A service that does not run starts in one of its initial states and stays there.
Still ==
    /\ service # "panel" => plan = Panel!NoBody
    /\ service # "roster" => truth = {} /\ session = CHOOSE s \in Sessions : TRUE

ServicesInit ==
    /\ service \in {"ledger", "bus", "stream", "fence", "media", "peers", "settings", "panel",
                    "join", "roster"}
    /\ Init /\ Bus!Init /\ Stream!Init /\ Fence!Init /\ Media!Init /\ Net!Init
    /\ Settings!Init /\ Panel!Init /\ Join!Init /\ Group!Init /\ Still

LedgerStep ==
    /\ service = "ledger" /\ Next
    /\ UNCHANGED <<service, busVars, streamVars, fenceVars, mediaVars, netVars,
                   settingsVars, panelVars, joinVars, groupVars>>
BusStep ==
    /\ service = "bus" /\ Bus!Next
    /\ UNCHANGED <<service, vars, streamVars, fenceVars, mediaVars, netVars, settingsVars,
                   panelVars, joinVars, groupVars>>
StreamStep ==
    /\ service = "stream" /\ Stream!Next
    /\ UNCHANGED <<service, vars, busVars, fenceVars, mediaVars, netVars, settingsVars,
                   panelVars, joinVars, groupVars>>
FenceStep ==
    /\ service = "fence" /\ Fence!Next
    /\ UNCHANGED <<service, vars, busVars, streamVars, mediaVars, netVars, settingsVars,
                   panelVars, joinVars, groupVars>>
MediaStep ==
    /\ service = "media" /\ Media!Next
    /\ UNCHANGED <<service, vars, busVars, streamVars, fenceVars, netVars, settingsVars,
                   panelVars, joinVars, groupVars>>
NetStep ==
    /\ service = "peers" /\ Net!Next
    /\ UNCHANGED <<service, vars, busVars, streamVars, fenceVars, mediaVars, settingsVars,
                   panelVars, joinVars, groupVars>>
SettingsStep ==
    /\ service = "settings" /\ Settings!Next
    /\ UNCHANGED <<service, vars, busVars, streamVars, fenceVars, mediaVars, netVars,
                   panelVars, joinVars, groupVars>>
PanelStep ==
    /\ service = "panel" /\ Panel!Next
    /\ UNCHANGED <<service, vars, busVars, streamVars, fenceVars, mediaVars, netVars,
                   settingsVars, joinVars, groupVars>>
JoinStep ==
    /\ service = "join" /\ Join!Next
    /\ UNCHANGED <<service, vars, busVars, streamVars, fenceVars, mediaVars, netVars,
                   settingsVars, panelVars, groupVars>>
GroupStep ==
    /\ service = "roster" /\ Group!Next
    /\ UNCHANGED <<service, vars, busVars, streamVars, fenceVars, mediaVars, netVars,
                   settingsVars, panelVars, joinVars>>

ServicesNext ==
    \/ LedgerStep \/ BusStep \/ StreamStep \/ FenceStep \/ MediaStep \/ NetStep \/ SettingsStep
    \/ PanelStep \/ JoinStep \/ GroupStep
ServicesSpec == ServicesInit /\ [][ServicesNext]_allVars
-----------------------------------------------------------------------------
(* What is queued or held never exceeds a limit and every byte counted is   *)
(* given back once: the event bus, the media blobs, the OneBot connections. *)
BytesCounted ==
    /\ service = "bus"   => Bus!TypeOK /\ Bus!BytesCounted
    /\ service = "media" => Media!TypeOK /\ Media!BytesCounted
    /\ service = "peers" => Net!TypeOK /\ Net!BytesCounted

(* A subscriber and a OneBot client get every event they asked for, in      *)
(* order, until their end; a slow one is ended, it never misses one.        *)
NoHoles == /\ service = "bus"   => Bus!NoHoles
           /\ service = "peers" => Net!NoHoles

(* A streamed reply arrives in order and once, its verdict is honest, and   *)
(* no stream of a message starts before the last one is over.               *)
StreamSound == /\ service = "stream" => Stream!TypeOK /\ Stream!StreamHonest
               /\ service = "fence"  => Fence!TypeOK /\ Fence!OneStreamAtATime

(* What must not be written twice is not: operations of the extension       *)
(* ledger, parts and files of an upload, a managed panel; and what the      *)
(* ledger says of a write is true.                                          *)
WritesOnce ==
    /\ service = "ledger" => TypeOK /\ WriteOnce /\ LedgerTruth
    /\ service = "media"  => Media!PartsOnce
    /\ service = "panel"  => Panel!TypeOK /\ Panel!NeverRecreated /\ Panel!KnowsItsPanel

(* A request to join is answered once, under whatever flag, for as long as  *)
(* its fence stands; and only a known answer's fence falls, after a day.    *)
AnswersOnce == service = "join" => Join!AnsweredOnce

(* What the operator switched off stays off, and what was applied is what   *)
(* every running connection and binding uses.                               *)
OperatorObeyed == /\ service = "panel"    => Panel!OffStaysOff
                  /\ service = "settings" => Settings!TypeOK /\ Settings!AppliedEverywhere

(* A settings page never overwrites what its reader has not seen.           *)
NothingOverwritten ==
    [][service = "settings" => Settings!OverwritesNothing]_allVars

(* A roster served as complete is the group, and a member's state is the    *)
(* truth or marked as in doubt.                                             *)
RosterTrue == service = "roster" => Group!CachedRosterIsTrue /\ Group!MembershipIsTrue
=============================================================================
