---------------------------- MODULE PlaygroundPage ----------------------------
(* The playground of the management console (src/web/src/App.jsx): a key,  *)
(* one model for each modality, chosen again by effects whenever the       *)
(* tables or the key change, and the generations: all share one "loading"  *)
(* flag and one output; a video is polled by a timer whose polls overlap.  *)
(* The tables are read every few seconds and change at any time, so an     *)
(* answer holds any of the catalogues, and of its parts those that came.   *)
EXTENDS Naturals, FiniteSets

CONSTANTS PlayModels, Unset,
          inferClientModality,  \* the modality of a model by its name
          PlayKeys, NoKey,      \* NoKey: the empty text
          Passthrough,          \* the choice to send no key
          Catalogues,           \* [routes, models, keys] of the server
          MaxPolls,             \* 30 in the code
          MaxOverlap,           \* polls of one task under way at a time
          MaxPlaySteps

PlayModalities == {"chat", "images", "audio_speech", "audio_transcription", "videos", "embeddings", "rerank"}

ASSUME PlaygroundAssumption ==
    /\ Unset \notin PlayModels /\ NoKey \notin PlayKeys /\ Passthrough \notin PlayKeys \cup {NoKey}
    /\ inferClientModality \in [PlayModels -> PlayModalities]
    /\ MaxPolls \in Nat \ {0} /\ MaxOverlap \in Nat \ {0}
    \* routes: model and modality; keys: the models a key is limited to, {} for all
    /\ \A cat \in Catalogues :
        /\ cat.routes \subseteq PlayModels \X PlayModalities
        /\ cat.models \subseteq PlayModels
        /\ DOMAIN cat.keys \subseteq PlayKeys
        /\ \A key \in DOMAIN cat.keys : cat.keys[key] \subseteq PlayModels

VARIABLES
    tables,          \* modelRoutes, models and keys: what the page holds of a catalogue
    playApiKey, isCustomKey, customKeyInput,
    playModality,
    playModel,       \* modality -> the model chosen for it
    chatRouted,      \* history: the chat's model is the one the routes page gave it
    playInput,       \* the modalities whose prompt, file or query is given
    playLoading,
    playOutput,      \* the generation the output tells of, 0 for none
    playResult,      \* modality -> the generation its result is of, 0 for none
    videoTaskStatus,
    generations,     \* the handlers that await an answer: [id, kind, streaming]
    pollers,         \* the timers and what they asked: [id, attempts, on, asked]
    played,          \* generations begun
    playSteps        \* what the user did so far, bounded by MaxPlaySteps

playKey == <<playApiKey, isCustomKey, customKeyInput>>
playShown == <<playOutput, playResult, videoTaskStatus>>
playRuns == <<playLoading, playShown, generations, pollers, played>>
playVars == <<tables, playKey, playModality, playModel, chatRouted, playInput, playRuns, playSteps>>

-----------------------------------------------------------------------------
(* The key and the models.                                                 *)

\* The "first" of a list is one of its members, always the same.
First(S) == CHOOSE x \in S : TRUE

\* The models routed to the modality, or those whose name tells it.
Listed(routes, models, modality) ==
    LET matched == {m \in PlayModels : <<m, modality>> \in routes}
    IN  IF matched # {} THEN matched ELSE {m \in models : inferClientModality[m] = modality}

SelectedKey(custom, input, key) == IF custom THEN input ELSE key

\* A key that is limited narrows the list, and adds what its own list has of
\* the modality; a key the page does not hold narrows nothing.
PlaygroundModels(t, key, modality) ==
    LET list == Listed(t.routes, t.models, modality)
        limit == IF key \in DOMAIN t.keys THEN t.keys[key] ELSE {}
    IN  IF limit = {} THEN list
        ELSE (list \cap limit) \cup {m \in limit : inferClientModality[m] = modality}

getPlaygroundModels(modality) ==
    PlaygroundModels(tables, SelectedKey(isCustomKey, customKeyInput, playApiKey), modality)

\* The effect that chooses a key when none is.
KeyChosen(t, custom, key) ==
    IF key = NoKey /\ DOMAIN t.keys # {} /\ ~custom THEN First(DOMAIN t.keys) ELSE key

\* The effect that chooses models the key and the tables offer.
Synchronize(t, key, choice) ==
    [modality \in PlayModalities |->
        LET offered == PlaygroundModels(t, key, modality)
        IN  IF offered = {} \/ choice[modality] \in offered THEN choice[modality] ELSE First(offered)]

\* The models synchronized before a key is chosen, and not again.
EffectsOfTheOldKey(t, custom, input, key, choice) ==
    /\ tables' = t /\ isCustomKey' = custom /\ customKeyInput' = input
    /\ playApiKey' = KeyChosen(t, custom, key)
    /\ playModel' = Synchronize(t, SelectedKey(custom, input, key), choice)
    /\ chatRouted' = FALSE

\* Both, in the order of the code, when what they depend on has changed; a key
\* the first one chose makes the second one run again.
Effects(t, custom, input, key, choice) ==
    LET chosen == KeyChosen(t, custom, key)
    IN  /\ tables' = t /\ isCustomKey' = custom /\ customKeyInput' = input
        /\ playApiKey' = chosen
        /\ playModel' = Synchronize(t, SelectedKey(custom, input, chosen),
                                    Synchronize(t, SelectedKey(custom, input, key), choice))
        /\ chatRouted' = FALSE

\* The defaults of fetchData when models came: the key is not asked.
Defaults(routes, models, choice) ==
    [modality \in PlayModalities |->
        LET listed == Listed(routes, models, modality)
        IN  IF choice[modality] \in listed THEN choice[modality]
            ELSE IF listed = {} THEN Unset ELSE First(listed)]

PlayInit ==
    /\ tables = [routes |-> {}, models |-> {}, keys |-> [key \in {} |-> {}]]
    /\ playApiKey = NoKey /\ isCustomKey = FALSE /\ customKeyInput = NoKey
    /\ playModality = "chat"
    /\ playModel = [modality \in PlayModalities |-> Unset] /\ chatRouted = FALSE
    /\ playInput = PlayModalities \ {"audio_transcription"}
    /\ playLoading = FALSE
    /\ playOutput = 0 /\ playResult = [modality \in PlayModalities |-> 0] /\ videoTaskStatus = "none"
    /\ generations = {} /\ pollers = {}
    /\ played = 0 /\ playSteps = 0

\* fetchData: six answers, each of which may fail; no models are no answer.
\* Without the answer for routes, the defaults are taken from the names.
DataArrives ==
    \E cat \in Catalogues, keysCame, routesCame, modelsCame \in BOOLEAN :
        /\ modelsCame => cat.models # {}
        /\ keysCame \/ routesCame \/ modelsCame
        /\ Effects([routes |-> IF routesCame THEN cat.routes ELSE tables.routes,
                    models |-> IF modelsCame THEN cat.models ELSE tables.models,
                    keys |-> IF keysCame THEN cat.keys ELSE tables.keys],
                   isCustomKey, customKeyInput, playApiKey,
                   IF modelsCame THEN Defaults(IF routesCame THEN cat.routes ELSE {}, cat.models, playModel)
                   ELSE playModel)
        /\ UNCHANGED <<playModality, playInput, playRuns>>

ChooseModality ==
    /\ playModality' \in PlayModalities
    /\ UNCHANGED <<tables, playKey, playModel, chatRouted, playInput, playRuns>>

KeysHeld == DOMAIN tables.keys

\* The button over the key; coming back to the list chooses a key.
ToggleCustomKey ==
    /\ KeysHeld # {}
    /\ Effects(tables, ~isCustomKey, customKeyInput,
               IF isCustomKey THEN First(KeysHeld) ELSE playApiKey, playModel)
    /\ UNCHANGED <<playModality, playInput, playRuns>>

\* The field is there without keys too, and is not looked at then.
TypeKey ==
    /\ isCustomKey \/ KeysHeld = {}
    /\ \E input \in PlayKeys \cup {NoKey} :
           input # customKeyInput /\ Effects(tables, isCustomKey, input, playApiKey, playModel)
    /\ UNCHANGED <<playModality, playInput, playRuns>>

\* The list of keys, "no key", and "another key", which opens the field.
SelectKey ==
    /\ ~isCustomKey /\ KeysHeld # {}
    /\ \/ \E key \in KeysHeld \cup {Passthrough} :
              key # playApiKey /\ Effects(tables, FALSE, customKeyInput, key, playModel)
       \/ Effects(tables, TRUE, NoKey, playApiKey, playModel)
    /\ UNCHANGED <<playModality, playInput, playRuns>>

SelectModel ==
    /\ \E m \in getPlaygroundModels(playModality) : playModel' = [playModel EXCEPT ![playModality] = m]
    /\ chatRouted' = (chatRouted /\ playModality # "chat")
    /\ UNCHANGED <<tables, playKey, playModality, playInput, playRuns>>

\* onNavigateToPlayground, from the page of the routes: the model becomes the
\* one of the chats, whatever its modality.
NavigateToPlayground ==
    /\ \E route \in tables.routes :
           /\ playModel' = [playModel EXCEPT !["chat"] = route[1]]
           /\ playModality' = route[2]
    /\ chatRouted' = TRUE
    /\ UNCHANGED <<tables, playKey, playInput, playRuns>>

ProvideInput ==
    /\ \E given \in {playInput \cup {playModality}, playInput \ {playModality}} : playInput' = given
    /\ UNCHANGED <<tables, playKey, playModality, playModel, chatRouted, playRuns>>

-----------------------------------------------------------------------------
(* The generations.                                                        *)

PlayPage == <<tables, playKey, playModality, playModel, chatRouted, playInput>>

\* What the handlers share: the button is disabled while a generation loads,
\* nothing is done without an input, and what was shown goes.
Begin(kind) ==
    /\ playModality = kind /\ kind \in playInput /\ ~playLoading
    /\ playLoading' = TRUE
    /\ playOutput' = 0 /\ playResult' = [playResult EXCEPT ![kind] = 0]
    /\ videoTaskStatus' = IF kind = "videos" THEN "pending" ELSE videoTaskStatus
    /\ played' = played + 1
    /\ generations' = generations \cup {[id |-> played + 1, kind |-> kind, streaming |-> FALSE]}
    /\ UNCHANGED <<PlayPage, pollers>>

handleSendChat == Begin("chat")
handleGenerateImage == Begin("images")
handleGenerateSpeech == Begin("audio_speech")
handleTranscribeAudio == Begin("audio_transcription")
handleGenerateVideo == Begin("videos")
handleGenerateEmbedding == Begin("embeddings")
handleExecuteRerank == Begin("rerank")

\* The end of a handler: its output, its result unless it failed, and whatever
\* is loading by now has ended.
Ends(g, result) ==
    /\ playLoading' = FALSE
    /\ playOutput' = g.id
    /\ playResult' = IF result THEN [playResult EXCEPT ![g.kind] = g.id] ELSE playResult
    /\ generations' = generations \ {g}
    /\ UNCHANGED <<PlayPage, pollers, played, playSteps>>

\* Chats show their output only.
ChatReturns ==
    \E g \in generations : g.kind = "chat" /\ Ends(g, FALSE) /\ UNCHANGED videoTaskStatus

\* A stream opens, and its pieces are appended to what there is.
ChatStreams ==
    \E g \in generations :
        /\ g.kind = "chat"
        /\ generations' = (generations \ {g}) \cup {[g EXCEPT !.streaming = TRUE]}
        /\ playOutput' = IF g.streaming THEN g.id ELSE playOutput
        /\ UNCHANGED <<PlayPage, playLoading, playResult, videoTaskStatus, pollers, played, playSteps>>

Returns(kind) ==
    \E g \in generations, result \in BOOLEAN :
        g.kind = kind /\ Ends(g, result) /\ UNCHANGED videoTaskStatus

ImageReturns == Returns("images")
SpeechReturns == Returns("audio_speech")
TranscriptionReturns == Returns("audio_transcription")
EmbeddingReturns == Returns("embeddings")
RerankReturns == Returns("rerank")

\* Refused, done at once, or an answer without a task: the generation ends.
VideoEnds ==
    \E g \in generations, status \in {"pending", "success", "processing"} :
        /\ g.kind = "videos"
        /\ Ends(g, status = "success")
        /\ videoTaskStatus' = IF status = "pending" THEN videoTaskStatus ELSE status

\* A task is made, and a timer for it.
VideoTaskMade ==
    \E g \in generations :
        /\ g.kind = "videos"
        /\ playOutput' = g.id /\ videoTaskStatus' = "processing"
        /\ generations' = generations \ {g}
        /\ pollers' = pollers \cup {[id |-> g.id, attempts |-> 0, on |-> TRUE, asked |-> 0]}
        /\ UNCHANGED <<PlayPage, playLoading, playResult, played, playSteps>>

\* Every two seconds, whether or not the poll before was answered; from
\* MaxPolls on the attempts are only compared with it.
PollTicks ==
    \E p \in pollers :
        /\ p.on /\ p.asked < MaxOverlap
        /\ pollers' = (pollers \ {p})
              \cup {[p EXCEPT !.attempts = IF @ < MaxPolls THEN @ + 1 ELSE @, !.asked = @ + 1]}
        /\ UNCHANGED <<PlayPage, playLoading, playShown, generations, played, playSteps>>

\* What ends the polling; "lost" is an exception.  The other polls of the timer
\* are still to be answered.
Final(status, attempts) == status \in {"success", "failed", "lost"} \/ attempts >= MaxPolls

\* The exception only stops the timer.
FreesTheButtonsUnlessLost(status, attempts) == Final(status, attempts) /\ status # "lost"

\* What ends the polling also lowers the flag, whatever is loading by now.
FreesTheButtons(status, attempts) == Final(status, attempts)

PollReturns ==
    \E p \in pollers, status \in {"processing", "success", "failed", "lost"} :
        /\ p.asked > 0
        /\ LET final == Final(status, p.attempts)
           IN  /\ pollers' = (pollers \ {p})
                      \cup (IF p.asked = 1 /\ (final \/ ~p.on) THEN {}
                            ELSE {[p EXCEPT !.asked = @ - 1, !.on = @ /\ ~final]})
        /\ playLoading' = IF FreesTheButtons(status, p.attempts) THEN FALSE ELSE playLoading
        /\ videoTaskStatus' = IF status = "lost" THEN videoTaskStatus ELSE status
        /\ playOutput' = IF status = "lost" THEN playOutput ELSE p.id
        /\ playResult' = IF status = "success" THEN [playResult EXCEPT !["videos"] = p.id] ELSE playResult
        /\ UNCHANGED <<PlayPage, generations, played, playSteps>>

PlayArrivals ==
    \/ ChatReturns \/ ChatStreams \/ ImageReturns \/ SpeechReturns \/ TranscriptionReturns
    \/ EmbeddingReturns \/ RerankReturns \/ VideoEnds \/ VideoTaskMade \/ PollTicks \/ PollReturns

PlayNext ==
    \/ PlayArrivals
    \/ /\ playSteps < MaxPlaySteps
       /\ playSteps' = playSteps + 1
       /\ \/ DataArrives
          \/ ChooseModality \/ ToggleCustomKey \/ TypeKey \/ SelectKey \/ SelectModel
          \/ NavigateToPlayground \/ ProvideInput
          \/ handleSendChat \/ handleGenerateImage \/ handleGenerateSpeech \/ handleTranscribeAudio
          \/ handleGenerateVideo \/ handleGenerateEmbedding \/ handleExecuteRerank

PlaySpec == PlayInit /\ [][PlayNext]_playVars

-----------------------------------------------------------------------------
PlayTypeOK ==
    /\ tables.routes \subseteq PlayModels \X PlayModalities /\ tables.models \subseteq PlayModels
    /\ KeysHeld \subseteq PlayKeys
    /\ playApiKey \in PlayKeys \cup {NoKey, Passthrough} /\ customKeyInput \in PlayKeys \cup {NoKey}
    /\ {isCustomKey, chatRouted, playLoading} \subseteq BOOLEAN
    /\ playModality \in PlayModalities /\ playInput \subseteq PlayModalities
    /\ playModel \in [PlayModalities -> PlayModels \cup {Unset}]
    /\ playOutput \in 0..played /\ playResult \in [PlayModalities -> 0..played]
    /\ generations \subseteq [id : 1..played, kind : PlayModalities, streaming : BOOLEAN]
    /\ pollers \subseteq [id : 1..played, attempts : 0..MaxPolls, on : BOOLEAN, asked : 0..MaxOverlap]
    /\ playSteps \in Nat

\* While models are offered for a modality and the key in use, the model in
\* hand, which a generation sends, is one of them, whatever parts of the tables
\* came, in which order, and whichever keys were chosen, typed or taken away;
\* for chats except between a choice on the page of the routes, which gives
\* them any model, and the next run of the effects.  (Where none is offered the
\* model chosen before stays and is sent.)
PlaysOfferedModels ==
    \A modality \in PlayModalities :
        LET offered == getPlaygroundModels(modality)
        IN  offered # {} /\ ~(modality = "chat" /\ chatRouted) => playModel[modality] \in offered

\* The buttons stay disabled only while the generation begun last is awaited or
\* its task is still polled: a refusal, a broken stream, a task that never
\* finishes or whose polls fail leave no flag behind that nothing would lower.
LoadingIsUnderWay ==
    playLoading => \/ \E g \in generations : g.id = played
                   \/ \E p \in pollers : p.id = played /\ p.on
=============================================================================
