----------------------------- MODULE ChannelsPage -----------------------------
(* The providers of the management console (src/web/src/App.jsx and        *)
(* src/web/src/components/ChannelsView.jsx): the rows, their buttons, and  *)
(* the one form that adds a provider or edits one, which is opened from    *)
(* the rows and from the dashboard and can be filled by presets and by a   *)
(* probe of the upstream.  Of a provider, the upstream and whose models    *)
(* are listed are kept.  A request is decided and its answer handled in    *)
(* two steps.                                                              *)
EXTENDS FiniteSets, Naturals

CONSTANTS Channels,      \* the ids there are or may be
          NoChannel,
          Upstreams, NoUpstream,
          KnownProviders,    \* the tables the server may hold when the page opens
          MaxChannelSteps

Absent == [upstream |-> NoUpstream, models |-> NoUpstream, active |-> FALSE]
Providers == [upstream : Upstreams \cup {NoUpstream}, models : Upstreams \cup {NoUpstream}, active : BOOLEAN]

ASSUME ChannelsAssumption ==
    /\ NoChannel \notin Channels /\ NoUpstream \notin Upstreams
    /\ KnownProviders \subseteq [Channels -> Providers]

VARIABLES
    providers,          \* the server's: id -> provider, Absent when there is none
    channels,           \* the rows the page holds
    selectedChannelIds,
    showChannelModal, editingChannelId,
    newChannel,         \* the form: [from, upstream, models], from the row it was filled with
    probing, testingId, batchTesting,
    channelLatencies,   \* the channels with a result
    channelCalls,       \* requests sent and not yet handled
    channelSteps        \* what the user did so far, bounded by MaxChannelSteps

channelForm == <<showChannelModal, editingChannelId, newChannel>>
channelFlags == <<probing, testingId, batchTesting, channelLatencies>>
channelVars == <<providers, channels, selectedChannelIds, channelForm, channelFlags, channelCalls, channelSteps>>

Present(table) == {ch \in Channels : table[ch] # Absent}

EmptyChannel == [from |-> NoChannel, upstream |-> NoUpstream, models |-> NoUpstream]

ChannelCall(op, ids, form) ==
    [op |-> op, ids |-> ids, form |-> form, served |-> FALSE, reply |-> "lost",
     rows |-> [ch \in Channels |-> Absent]]
fetchChannels == ChannelCall("list", {}, EmptyChannel)

ChannelsInit ==
    /\ providers \in KnownProviders
    /\ channels = [ch \in Channels |-> Absent]
    /\ selectedChannelIds = {}
    /\ showChannelModal = FALSE /\ editingChannelId = NoChannel /\ newChannel = EmptyChannel
    /\ probing = FALSE /\ testingId = NoChannel /\ batchTesting = FALSE /\ channelLatencies = {}
    /\ channelCalls = {fetchChannels}
    /\ channelSteps = 0

-----------------------------------------------------------------------------
(* The server.                                                             *)

\* A provider that is made gets an id that is free.
ProvidersAfter(c) ==
    CASE c.op = "create" -> {[providers EXCEPT ![ch] = [upstream |-> c.form.upstream, models |-> c.form.models,
                                                        active |-> TRUE]] : ch \in Channels \ Present(providers)}
      [] c.op = "update" -> {[ch \in Channels |-> IF ch \in c.ids /\ providers[ch] # Absent
                                 THEN [upstream |-> c.form.upstream, models |-> c.form.models,
                                       active |-> providers[ch].active] ELSE providers[ch]]}
      [] c.op \in {"delete", "remove"} -> {[ch \in Channels |-> IF ch \in c.ids THEN Absent ELSE providers[ch]]}
      [] c.op \in {"enable", "disable"} ->
            {[ch \in Channels |-> IF ch \in c.ids /\ providers[ch] # Absent
                                  THEN [providers[ch] EXCEPT !.active = (c.op = "enable")] ELSE providers[ch]]}
      [] OTHER -> {providers}

\* Done, or refused; either answer may be lost.
ChannelAnswer ==
    \E c \in channelCalls, done \in BOOLEAN, reply \in {"ok", "refused", "lost"} :
        /\ ~c.served
        /\ reply = "ok" => done
        /\ reply = "refused" => ~done
        /\ IF done THEN providers' \in ProvidersAfter(c) ELSE UNCHANGED providers
        /\ channelCalls' = (channelCalls \ {c})
                \cup {[c EXCEPT !.served = TRUE, !.reply = reply, !.rows = providers']}
        /\ UNCHANGED <<channels, selectedChannelIds, channelForm, channelFlags, channelSteps>>

Answered(c, ops) == c \in channelCalls /\ c.served /\ c.op \in ops
Close(c, more) == channelCalls' = (channelCalls \ {c}) \cup more

\* The end of fetchData.
ChannelsArrive ==
    \E c \in channelCalls :
        /\ Answered(c, {"list"})
        /\ channels' = IF c.reply = "ok" THEN c.rows ELSE channels
        /\ Close(c, {})
        /\ UNCHANGED <<providers, selectedChannelIds, channelForm, channelFlags, channelSteps>>

\* The end of handleCreateChannel: the answer is not looked at, whatever form
\* is open by now is closed and emptied; a lost answer ends the handler.
SaveChannelReturns ==
    \E c \in channelCalls :
        /\ Answered(c, {"create", "update"})
        /\ IF c.reply = "lost" THEN UNCHANGED channelForm
           ELSE showChannelModal' = FALSE /\ editingChannelId' = NoChannel /\ newChannel' = EmptyChannel
        /\ Close(c, IF c.reply = "lost" THEN {} ELSE {fetchChannels})
        /\ UNCHANGED <<providers, channels, selectedChannelIds, channelFlags, channelSteps>>

\* The end of triggerProbe: what the upstream answered goes into whatever
\* form there is.
ProbeReturns ==
    \E c \in channelCalls :
        /\ Answered(c, {"probe"})
        /\ probing' = FALSE
        /\ newChannel' = IF c.reply = "ok" THEN [newChannel EXCEPT !.models = c.form.upstream] ELSE newChannel
        /\ Close(c, {})
        /\ UNCHANGED <<providers, channels, selectedChannelIds, showChannelModal, editingChannelId,
                       testingId, batchTesting, channelLatencies, channelSteps>>

\* The end of handleTestChannel, which re-enables the button of every row.
TestReturns ==
    \E c \in channelCalls :
        /\ Answered(c, {"test"})
        /\ testingId' = NoChannel
        /\ channelLatencies' = IF c.reply = "lost" THEN channelLatencies ELSE channelLatencies \cup c.ids
        /\ Close(c, {})
        /\ UNCHANGED <<providers, channels, selectedChannelIds, channelForm, probing, batchTesting, channelSteps>>

\* The end of handleBatchPing, when every test has ended in one way or another.
PingReturns ==
    \E c \in channelCalls :
        /\ Answered(c, {"ping"})
        /\ batchTesting' = FALSE /\ channelLatencies' = c.ids
        /\ Close(c, {})
        /\ UNCHANGED <<providers, channels, selectedChannelIds, channelForm, probing, testingId, channelSteps>>

\* The end of handleDeleteChannel: the ticks stay, and a refusal is taken for
\* a success.
DeleteChannelReturns ==
    \E c \in channelCalls :
        /\ Answered(c, {"delete"})
        /\ Close(c, IF c.reply = "lost" THEN {} ELSE {fetchChannels})
        /\ UNCHANGED <<providers, channels, selectedChannelIds, channelForm, channelFlags, channelSteps>>

\* The ends of handleBatchDeleteChannels and handleBatchStatusChannels.
BatchReturns ==
    \E c \in channelCalls :
        /\ Answered(c, {"remove", "enable", "disable"})
        /\ selectedChannelIds' = IF c.reply = "ok" THEN {} ELSE selectedChannelIds
        /\ Close(c, IF c.reply = "ok" THEN {fetchChannels} ELSE {})
        /\ UNCHANGED <<providers, channels, channelForm, channelFlags, channelSteps>>

-----------------------------------------------------------------------------
(* The rows.                                                               *)

Request(c) ==
    /\ channelCalls' = channelCalls \cup {c}
    /\ UNCHANGED <<providers, channels, selectedChannelIds>>

RowsInReach == ~showChannelModal

\* Every 8 seconds; nobody waits for it.
PollChannels ==
    /\ Request(fetchChannels)
    /\ UNCHANGED <<channelForm, channelFlags>>

TickChannels ==
    /\ RowsInReach
    /\ selectedChannelIds' \in {Present(channels), {}}
            \cup {selectedChannelIds \cup {ch} : ch \in Present(channels)}
            \cup {selectedChannelIds \ {ch} : ch \in Present(channels)}
    /\ UNCHANGED <<providers, channels, channelForm, channelFlags, channelCalls>>

\* The bar over the rows, when some are ticked.
BatchBar == IF RowsInReach /\ selectedChannelIds # {} THEN {"remove", "enable", "disable"} ELSE {}

handleBatchChannels ==
    \E op \in BatchBar :
        /\ Request(ChannelCall(op, selectedChannelIds, EmptyChannel))
        /\ UNCHANGED <<channelForm, channelFlags>>

\* The buttons of a row.
RowButtons == IF RowsInReach THEN Present(channels) ELSE {}

handleDeleteChannel ==
    \E ch \in RowButtons :
        /\ Request(ChannelCall("delete", {ch}, EmptyChannel))
        /\ UNCHANGED <<channelForm, channelFlags>>

\* Only the row that is tested has its button disabled.
handleTestChannel ==
    \E ch \in RowButtons :
        /\ testingId # ch
        /\ testingId' = ch
        /\ Request(ChannelCall("test", {ch}, EmptyChannel))
        /\ UNCHANGED <<channelForm, probing, batchTesting, channelLatencies>>

handleBatchPing ==
    /\ RowsInReach /\ ~batchTesting /\ Present(channels) # {}
    /\ batchTesting' = TRUE
    /\ Request(ChannelCall("ping", Present(channels), EmptyChannel))
    /\ UNCHANGED <<channelForm, probing, testingId, channelLatencies>>

-----------------------------------------------------------------------------
(* The form.                                                               *)

ChannelFormOnly == UNCHANGED <<providers, channels, selectedChannelIds, channelFlags, channelCalls>>

\* What was edited not forgotten.
openNewChannelModalStillEditing ==
    /\ RowsInReach
    /\ showChannelModal' = TRUE /\ newChannel' = EmptyChannel
    /\ ChannelFormOnly
    /\ UNCHANGED editingChannelId

openNewChannelModal ==
    /\ RowsInReach
    /\ showChannelModal' = TRUE /\ editingChannelId' = NoChannel /\ newChannel' = EmptyChannel
    /\ ChannelFormOnly

\* The button of the dashboard opens the form as it was left.
OpenFromDashboard ==
    /\ RowsInReach
    /\ showChannelModal' = TRUE
    /\ ChannelFormOnly
    /\ UNCHANGED <<editingChannelId, newChannel>>

handleEditChannel ==
    \E ch \in RowButtons :
        /\ showChannelModal' = TRUE /\ editingChannelId' = ch
        /\ newChannel' = [from |-> ch, upstream |-> channels[ch].upstream, models |-> channels[ch].models]
        /\ ChannelFormOnly

\* "Cancel" and the cross: what was typed, and what is edited, is kept.
CloseChannelModal ==
    /\ showChannelModal
    /\ showChannelModal' = FALSE
    /\ ChannelFormOnly
    /\ UNCHANGED <<editingChannelId, newChannel>>

Typed(f) ==
    /\ showChannelModal /\ newChannel' = f
    /\ ChannelFormOnly
    /\ UNCHANGED <<showChannelModal, editingChannelId>>

TypeUpstream == \E u \in Upstreams : Typed([newChannel EXCEPT !.upstream = u])

\* Chips added and removed.
TypeModels == \E u \in Upstreams \cup {NoUpstream} : Typed([newChannel EXCEPT !.models = u])

\* Offered when a provider is added; a preset names the upstream, and its
\* models or leaves those there are.
applyPreset ==
    /\ editingChannelId = NoChannel
    /\ \E u \in Upstreams :
           \E models \in {u, newChannel.models} : Typed([newChannel EXCEPT !.upstream = u, !.models = models])

triggerProbe ==
    /\ showChannelModal /\ ~probing /\ newChannel.upstream # NoUpstream
    /\ probing' = TRUE
    /\ Request(ChannelCall("probe", {}, newChannel))
    /\ UNCHANGED <<channelForm, testingId, batchTesting, channelLatencies>>

\* The button is never disabled.
handleCreateChannel ==
    /\ showChannelModal
    /\ Request(IF editingChannelId # NoChannel THEN ChannelCall("update", {editingChannelId}, newChannel)
               ELSE ChannelCall("create", {}, newChannel))
    /\ UNCHANGED <<channelForm, channelFlags>>

ChannelArrivals ==
    \/ ChannelAnswer \/ ChannelsArrive \/ SaveChannelReturns \/ ProbeReturns \/ TestReturns \/ PingReturns
    \/ DeleteChannelReturns \/ BatchReturns

ChannelsNext ==
    \/ ChannelArrivals
    \/ /\ channelSteps < MaxChannelSteps
       /\ channelSteps' = channelSteps + 1
       /\ \/ PollChannels \/ TickChannels \/ handleBatchChannels \/ handleDeleteChannel
          \/ handleTestChannel \/ handleBatchPing
          \/ openNewChannelModal \/ OpenFromDashboard \/ handleEditChannel \/ CloseChannelModal
          \/ TypeUpstream \/ TypeModels \/ applyPreset \/ triggerProbe \/ handleCreateChannel

ChannelsSpec == ChannelsInit /\ [][ChannelsNext]_channelVars

-----------------------------------------------------------------------------
ChannelsTypeOK ==
    /\ providers \in [Channels -> Providers] /\ channels \in [Channels -> Providers]
    /\ selectedChannelIds \subseteq Channels /\ channelLatencies \subseteq Channels
    /\ {showChannelModal, probing, batchTesting} \subseteq BOOLEAN
    /\ {editingChannelId, testingId} \subseteq Channels \cup {NoChannel}
    /\ newChannel \in [from : Channels \cup {NoChannel}, upstream : Upstreams \cup {NoUpstream},
                      models : Upstreams \cup {NoUpstream}]
    /\ channelSteps \in Nat

\* A provider is only ever overwritten with a form that was filled from its
\* own row, and a new one is made of a form that was filled from none:
\* whichever forms were opened, left and opened again on the way, from the
\* rows or from the dashboard, and whatever answer closed one meanwhile.
SavedWhereItCameFrom ==
    \A c \in channelCalls :
        /\ c.op = "update" => c.ids = {c.form.from}
        /\ c.op = "create" => c.form.from = NoChannel
=============================================================================
