---------------------------- MODULE ScreenEditor ----------------------------
(***************************************************************************)
(* apps/admin: the editor of a screen.  CanvasService holds what is being  *)
(* edited in one store that outlives the editor's pages: every change      *)
(* marks it dirty and restarts a timer of 2.5 seconds, after which the     *)
(* canvas is sent to the API.  A switchMap makes a new save forget the     *)
(* answer of the one before; a save that fails is tried again after 1, 2   *)
(* and 4 seconds, which here sends nothing, for retryWhen subscribes anew  *)
(* to the same settled promise.  ScreenEditorComponent opens a page, shows *)
(* what the API returns for it, and saves a dirty page every five minutes. *)
(* Undo and redo put back whole states of the store, the save status and   *)
(* the network's with them; which ones SnapshotService has, of this page   *)
(* or of one edited before, is left open.                                  *)
(*                                                                         *)
(* The content of a canvas is the page it is of, a version of what a save  *)
(* sends (the size; id, type, position and configuration of components)    *)
(* and whether the rest (background, locks, rotations, visibility, groups' *)
(* children, data sources) is other than that of a new canvas.  The rest   *)
(* is edited and shown, and never saved.  A screen has one component.  The *)
(* API is external: it applies requests in any order.  manualRetrySave()   *)
(* and forceSave() have no caller.                                         *)
(***************************************************************************)
EXTENDS Naturals, Sequences, SequencesExt

CONSTANTS
  Pages,         \* screens
  MaxRetries,    \* MAX_RETRY_COUNT
  MaxActs,       \* bound: changes, undos, and saves but for the timer's
  MaxOpens,      \* bound: pages opened
  MaxFaults      \* bound: requests that fail, times the network goes down

ASSUME EditorAssumption ==
  /\ MaxRetries \in Nat \ {0}
  /\ {MaxActs, MaxOpens, MaxFaults} \subseteq Nat

NoPage   == "none"
Content  == [of : Pages \cup {NoPage}, v : 0 .. MaxActs, rest : BOOLEAN]
Empty    == [of |-> NoPage, v |-> 0, rest |-> FALSE]

\* performSave() with convertComponentsToApiFormat(): what of a canvas is
\* sent.  ScreensService.update() replaces by it what the screen had.
ApiFormat(c) == [of |-> c.of, v |-> c.v]
ApiContent == [of : Pages \cup {NoPage}, v : 0 .. MaxActs]

Statuses == {"saved", "saving", "unsaved", "error", "retrying"}

Store    == [canvas : Content, dirty : BOOLEAN, status : Statuses, online : BOOLEAN]

NoSave   == [at |-> "none", retries |-> 0]
Request  == [page : Pages, content : ApiContent, applied : BOOLEAN, late : BOOLEAN]
NoLoad   == [at |-> "none", content |-> ApiFormat(Empty)]

VARIABLES
  page,      \* currentPageId
  open,      \* the editor is open
  load,      \* loadScreen(): not on its way, sent, or read with its content
  store,     \* the store
  debounce,  \* the timer of saveTrigger$ runs
  save,      \* the save the switchMap listens to: it waits for the last of the
             \* requests, or for its next retry
  requests,  \* requests on their way to the API or back, the oldest first
  server,    \* server[p]: the content the API has of screen p
  network,   \* navigator.onLine
  count,     \* counts of what is bounded
  overtaken, \* history: a request was applied after a newer one of its page
  undone,    \* history: undo or redo has changed the canvas since the last save began
  astray     \* history: why a canvas may hold another page's content

editor == <<page, open, load>>
saving == <<save, requests>>
api    == <<server, overtaken>>
vars   == <<editor, store, debounce, saving, api, network, count, undone, astray>>

Count(what, max) == count[what] < max /\ count' = [count EXCEPT ![what] = @ + 1]

Init ==
  /\ page = NoPage /\ open = FALSE /\ load = NoLoad
  /\ store = [canvas |-> Empty, dirty |-> FALSE, status |-> "saved", online |-> TRUE]
  /\ debounce = FALSE /\ save = NoSave /\ requests = <<>>
  /\ server = [p \in Pages |-> ApiFormat([Empty EXCEPT !.of = p])]
  /\ network = TRUE
  /\ count = [acts |-> 0, opens |-> 0, faults |-> 0]
  /\ overtaken = FALSE /\ undone = FALSE /\ astray = FALSE

-----------------------------------------------------------------------------
(* Saving *)

setDirty(s) == [s EXCEPT !.dirty = TRUE, !.status = "unsaved"]

\* The requests still to be applied once nobody waits for an answer: only that
\* of the last is waited for, so only the last can be an answer already.
Unheard == IF requests # <<>> /\ Last(requests).applied THEN Front(requests) ELSE requests

\* performSaveWithRetry() with the store s, inside the switchMap: what was
\* being saved is not listened to any more.
StartSave(s) ==
  /\ undone' = FALSE
  /\ IF s.online
     THEN /\ store' = [s EXCEPT !.status = "saving"]
          /\ save' = [at |-> "sent", retries |-> 0]
          /\ requests' = Append(Unheard,
               [page |-> page, content |-> ApiFormat(s.canvas), applied |-> FALSE, late |-> FALSE])
     ELSE /\ store' = [s EXCEPT !.status = "error"]
          /\ save' = NoSave /\ requests' = Unheard

\* triggerImmediateSave(): Ctrl+S, the button, a new name, backToList().
SaveNow ==
  /\ open /\ Count("acts", MaxActs)
  /\ StartSave(setDirty(store))
  /\ astray' = (astray \/ load # NoLoad)
  /\ UNCHANGED <<editor, debounce, api, network>>

\* The five minutes of setupFallbackSave() are over.
FallbackSave ==
  /\ open /\ store.dirty /\ Count("acts", MaxActs)
  /\ StartSave(setDirty(store))
  /\ astray' = (astray \/ load # NoLoad)
  /\ UNCHANGED <<editor, debounce, api, network>>

DebounceFiresIdle ==                      \* mutation: exhaustMap for switchMap
  /\ debounce
  /\ debounce' = FALSE
  /\ IF save = NoSave THEN StartSave(store) ELSE UNCHANGED <<store, saving, undone>>
  /\ UNCHANGED <<editor, api, network, count, astray>>
DebounceFires ==
  /\ debounce
  /\ debounce' = FALSE
  /\ StartSave(store)
  /\ UNCHANGED <<editor, api, network, count, astray>>

\* The answer of request i is awaited.
HeardAll(i) == TRUE                       \* mutation: mergeMap for switchMap
Heard(i) == save.at = "sent" /\ i = Len(requests)

\* The API applies a request.
Apply(i) ==
  LET r == requests[i] IN
  /\ ~r.applied
  /\ server' = [server EXCEPT ![r.page] = r.content]
  /\ overtaken' = (overtaken \/ r.late)
  /\ LET marked == [j \in DOMAIN requests |->
                     [requests[j] EXCEPT !.late = @ \/ (j < i /\ requests[j].page = r.page)]] IN
     requests' = IF Heard(i) THEN [marked EXCEPT ![i].applied = TRUE]
                             ELSE RemoveAt(marked, i)
  /\ UNCHANGED <<editor, store, debounce, save, network, count, undone, astray>>

\* The answer of the save arrives: the tap() of performSave().
Answer(i) ==
  /\ requests[i].applied /\ Heard(i)
  /\ requests' = RemoveAt(requests, i)
  /\ store' = [store EXCEPT !.dirty = FALSE, !.status = "saved"]
  /\ save' = NoSave
  /\ UNCHANGED <<editor, debounce, api, network, count, undone, astray>>

\* A request, or its answer, is lost: the network is down, or something on
\* the way or in the API fails.  Every error of the SDK counts as retryable.
RequestFails(i) ==
  /\ \/ ~network /\ UNCHANGED count
     \/ network /\ Count("faults", MaxFaults)
  /\ requests' = RemoveAt(requests, i)
  /\ IF Heard(i)
     THEN /\ store' = [store EXCEPT !.status = "retrying"]
          /\ save' = [at |-> "waits", retries |-> 1]
     ELSE UNCHANGED <<store, save>>
  /\ UNCHANGED <<editor, debounce, api, network, undone, astray>>

\* isRetryInProgress
retrying == save.at = "waits"

\* The delay before a retry is over; the promise is as rejected as before.
Retry ==
  /\ retrying
  /\ IF save.retries < MaxRetries
     THEN /\ save' = [save EXCEPT !.retries = @ + 1]
          /\ store' = [store EXCEPT !.status = "retrying"]
     ELSE /\ save' = NoSave
          /\ store' = [store EXCEPT !.status = "error"]
  /\ UNCHANGED <<editor, debounce, requests, api, network,
                 count, undone, astray>>

-----------------------------------------------------------------------------
(* The network *)

NetworkDown ==
  /\ network /\ Count("faults", MaxFaults)
  /\ network' = FALSE /\ store' = [store EXCEPT !.online = FALSE]
  /\ UNCHANGED <<editor, debounce, saving, api, undone, astray>>

\* handleOnline() with retryPendingSave().
NetworkUp ==
  /\ ~network /\ network' = TRUE
  /\ LET s == [store EXCEPT !.online = TRUE] IN
     IF s.dirty /\ s.status = "error" /\ ~retrying
     THEN StartSave(setDirty(s))
     ELSE store' = s /\ UNCHANGED <<saving, undone>>
  /\ UNCHANGED <<editor, debounce, api, count, astray>>

\* checkNetworkStatus(), every half a minute.
CheckNetwork ==
  /\ store.online # network
  /\ store' = [store EXCEPT !.online = network]
  /\ UNCHANGED <<editor, debounce, saving, api, network,
                 count, undone, astray>>

-----------------------------------------------------------------------------
(* Editing *)

Shown(s) == IF s.canvas = Empty THEN [Empty EXCEPT !.of = page] ELSE s.canvas
Edited(s, v, r) == [s EXCEPT !.canvas = [Shown(s) EXCEPT !.v = v, !.rest = r]]

\* addComponent(), updateComponent() and the like change what is sent,
\* setCanvasBackground(), toggleComponentLock() and the like the rest,
\* composeComponents() both; each with triggerAutoSave().
Edit ==
  /\ open /\ Count("acts", MaxActs)
  /\ \E v \in {Shown(store).v, count.acts + 1}, r \in BOOLEAN :
       store' = setDirty(Edited(store, v, r))
  /\ debounce' = TRUE
  /\ astray' = (astray \/ load # NoLoad)
  /\ UNCHANGED <<editor, saving, api, network, undone>>

\* undo() or redo(), once there are two snapshots: a state of before, of
\* which nothing is saved.  Only the display tells "saving" and "retrying"
\* from "unsaved".
Snapshots ==
  {s \in Store :
     /\ s.canvas.of = page \/ (s.canvas.of \in Pages /\ count.opens > 1)
     /\ s.canvas.v <= count.acts /\ (s.canvas.rest => count.acts > 0)
     /\ s.status \in {"saved", "unsaved", "error"} /\ (s.dirty => s.status # "saved")
     /\ s.status = "error" \/ ~s.online => count.faults > 0}
UndoOrRedo ==
  /\ open /\ count.opens + count.acts > 1 /\ Count("acts", MaxActs)
  /\ store' \in Snapshots
  /\ undone' = TRUE
  /\ astray' = (astray \/ store'.canvas.of # page)
  /\ UNCHANGED <<editor, debounce, saving, api, network>>

-----------------------------------------------------------------------------
(* Pages *)

\* ngOnInit() with initPage(): the canvas stays what it was until the page
\* has been loaded.
OpenPageDirty(p) ==                       \* mutation: initPage() marks the page dirty
  /\ ~open /\ Count("opens", MaxOpens)
  /\ page' = p /\ open' = TRUE /\ load' = [NoLoad EXCEPT !.at = "sent"]
  /\ store' = [store EXCEPT !.dirty = TRUE, !.status = "unsaved"]
  /\ debounce' = TRUE
  /\ astray' = (astray \/ (debounce /\ store.canvas.of # p))
  /\ UNCHANGED <<saving, api, network, undone>>
OpenPage(p) ==
  /\ ~open /\ Count("opens", MaxOpens)
  /\ page' = p /\ open' = TRUE /\ load' = [NoLoad EXCEPT !.at = "sent"]
  /\ store' = [store EXCEPT !.dirty = FALSE, !.status = "saved"]
  /\ astray' = (astray \/ (debounce /\ store.canvas.of # p))
  /\ UNCHANGED <<debounce, saving, api, network, undone>>

LoadReads ==
  /\ load.at = "sent"
  /\ load' = [at |-> "read", content |-> server[page]]
  /\ UNCHANGED <<page, open, store, debounce, saving, api, network,
                 count, undone, astray>>

\* The answer of loadScreen(): the size of the canvas is set, which marks it
\* dirty, and its component added, as if the user had done it.  What the API
\* does not have gets the initial value in a component, and in the style of
\* the canvas stays what the page before has left.
Loaded ==
  /\ load.at = "read"
  /\ load' = NoLoad
  /\ \E rest \in {Empty.rest, store.canvas.rest} :
       store' = [setDirty(store) EXCEPT !.canvas =
                   [of |-> load.content.of, v |-> load.content.v, rest |-> rest]]
  /\ debounce' = TRUE
  /\ undone' = FALSE
  /\ UNCHANGED <<page, open, saving, api, network, count, astray>>

\* The canvas keeps what the page before has left.
LoadFails ==
  /\ load # NoLoad
  /\ \/ ~network /\ UNCHANGED count
     \/ network /\ Count("faults", MaxFaults)
  /\ load' = NoLoad /\ astray' = TRUE
  /\ UNCHANGED <<page, open, store, debounce, saving, api, network, undone>>

\* ngOnDestroy(): the editor is left, by backToList() once it has waited for
\* the save, or by the browser.
Leave ==
  /\ open
  /\ open' = FALSE /\ load' = NoLoad
  /\ UNCHANGED <<page, store, debounce, saving, api, network, count, undone, astray>>

-----------------------------------------------------------------------------

Next ==
  \/ SaveNow \/ FallbackSave \/ DebounceFires \/ Retry
  \/ \E i \in DOMAIN requests : Apply(i) \/ Answer(i) \/ RequestFails(i)
  \/ NetworkDown \/ NetworkUp \/ CheckNetwork
  \/ Edit \/ UndoOrRedo
  \/ \E p \in Pages : OpenPage(p)
  \/ LoadReads \/ Loaded \/ LoadFails
  \/ Leave

Spec == Init /\ [][Next]_vars

\* Timers fire, requests are answered or fail.
Fairness ==
  /\ WF_vars(DebounceFires) /\ WF_vars(Retry)
  /\ WF_vars(\E i \in DOMAIN requests : Apply(i) \/ Answer(i))

FairSpec == Spec /\ Fairness
-----------------------------------------------------------------------------
(* Correctness *)

TypeOK ==
  /\ page \in Pages \cup {NoPage} /\ open \in BOOLEAN
  /\ load \in [at : {"none", "sent", "read"}, content : ApiContent]
  /\ store \in Store
  /\ debounce \in BOOLEAN
  /\ save \in [at : {"none", "sent", "waits"}, retries : 0 .. MaxRetries]
  /\ requests \in Seq(Request)
  /\ server \in [Pages -> ApiContent] /\ network \in BOOLEAN
  /\ count \in [acts : 0 .. MaxActs, opens : 0 .. MaxOpens, faults : 0 .. MaxFaults]
  /\ overtaken \in BOOLEAN /\ undone \in BOOLEAN /\ astray \in BOOLEAN
  \* What is waited for is the last request; a save that waits for its retry
  \* or is over waits for none.
  /\ save.at = "sent" => requests # <<>>
  /\ \A i \in DOMAIN requests : requests[i].applied => Heard(i)

Quiet == ~debounce /\ requests = <<>> /\ load = NoLoad

\* Once no timer and no request is left, "saved" means that the API has what
\* a save sends of the canvas that is shown (not the rest of it, which is
\* shown as saved too), however edits, saves and answers were interleaved,
\* unless undo or redo has changed the canvas, which saves nothing, or the API
\* has applied two saves in the wrong order.
SavedTellsTruth ==
  Quiet /\ open /\ store.status = "saved" /\ ~undone /\ ~overtaken /\ ~astray =>
    server[page] = ApiFormat(store.canvas)

\* A screen gets another screen's content only if it was opened while a save
\* of the other was pending, could not be loaded or was changed before it
\* was, or undo has reached into the other's history.
OwnContent == ~astray => \A p \in Pages : server[p].of = p

\* It never remains so that the editor shows something a save would send and
\* the API does not have without saying that it could not be saved.
EditArrives ==
  []<>(\/ ~open \/ load # NoLoad \/ store.status = "error" \/ undone \/ overtaken \/ astray
       \/ server[page] = ApiFormat(store.canvas))
=============================================================================
