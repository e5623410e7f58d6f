------------------------ MODULE ScreenEditor_proofs ------------------------
(***************************************************************************)
(* Proofs about ScreenEditor, for any screens, retries, edits, openings    *)
(* and faults: the types; that a screen gets only its own content          *)
(* (OwnContent); and that "saved" is true of what a save sends of the      *)
(* canvas that is shown (SavedTellsTruth).                                 *)
(*                                                                         *)
(* A screen's own content is all there is as long as nothing went astray:  *)
(* in the API, in the requests, in what has been read, and on the canvas   *)
(* wherever it may still be saved from (Own).  "Saved" is true because,    *)
(* with no timer running, the last save took what is shown, and whatever   *)
(* else is still on its way for the page is older than what the API has    *)
(* (Truth).                                                                *)
(***************************************************************************)
EXTENDS ScreenEditor, SequenceTheorems, TLAPS

\* What may be saved is of a page; a page is loaded while the editor is open.
Shape ==
  /\ open \/ debounce \/ store.dirty => page \in Pages
  /\ load.at # "none" => open
  /\ load.at = "none" => load = NoLoad

Own ==
  ~astray =>
    /\ \A p \in Pages : server[p].of = p
    /\ \A i \in 1 .. Len(requests) : requests[i].content.of = requests[i].page
    /\ load.at = "read" => load.content.of = page
    /\ (open /\ load.at = "none") \/ store.dirty \/ debounce => store.canvas.of = page

\* Of the requests but the i-th, those for the page are older than what the
\* API has.
OthersLate(i) == \A j \in 1 .. Len(requests) : j # i /\ requests[j].page = page => requests[j].late

Truth ==
  open /\ load = NoLoad /\ ~debounce /\ ~undone /\ ~overtaken /\ ~astray =>
    /\ save.at = "sent" =>
         LET r == requests[Len(requests)] IN
         /\ r.page = page /\ r.content = ApiFormat(store.canvas)
         /\ r.applied => server[page] = ApiFormat(store.canvas) /\ OthersLate(Len(requests))
    /\ save.at # "sent" /\ store.status = "saved" =>
         server[page] = ApiFormat(store.canvas) /\ OthersLate(0)

EditorInv == TypeOK /\ Shape /\ Own /\ Truth

-----------------------------------------------------------------------------
(* Sequences of requests. *)

LEMMA ConcatLen ==
  ASSUME NEW S, NEW u \in Seq(S), NEW v \in Seq(S)
  PROVE  u \o v \in Seq(S) /\ Len(u \o v) = Len(u) + Len(v)
OBVIOUS

LEMMA ConcatAt ==
  ASSUME NEW S, NEW u \in Seq(S), NEW v \in Seq(S), NEW j \in 1 .. Len(u) + Len(v)
  PROVE  (u \o v)[j] = IF j <= Len(u) THEN u[j] ELSE v[j - Len(u)]
OBVIOUS

LEMMA RemoveAtFacts ==
  ASSUME NEW S, NEW s \in Seq(S), NEW i \in 1 .. Len(s)
  PROVE  /\ RemoveAt(s, i) \in Seq(S) /\ Len(RemoveAt(s, i)) = Len(s) - 1
         /\ \A j \in 1 .. Len(s) - 1 : RemoveAt(s, i)[j] = IF j < i THEN s[j] ELSE s[j + 1]
<1> DEFINE a == SubSeq(s, 1, i - 1)
           b == SubSeq(s, i + 1, Len(s))
<1>1. Len(s) \in Nat /\ i \in Nat /\ i >= 1 /\ i <= Len(s)
  OBVIOUS
<1>2. a \in Seq(S) /\ Len(a) = i - 1 /\ \A j \in 1 .. i - 1 : a[j] = s[j]
  BY <1>1
<1>3. b \in Seq(S) /\ Len(b) = Len(s) - i /\ \A j \in 1 .. Len(s) - i : b[j] = s[i + j]
  BY <1>1
<1>4. RemoveAt(s, i) = a \o b
  BY DEF RemoveAt
<1> HIDE DEF a, b
<1>5. a \o b \in Seq(S) /\ Len(a \o b) = Len(a) + Len(b)
  BY <1>2, <1>3, ConcatLen
<1>6. \A j \in 1 .. Len(a) + Len(b) : (a \o b)[j] = IF j <= Len(a) THEN a[j] ELSE b[j - Len(a)]
  <2>1. a \in Seq(S) /\ b \in Seq(S)
    BY <1>2, <1>3
  <2> QED
    BY <2>1, ConcatAt
<1>7. ASSUME NEW j \in 1 .. Len(s) - 1
      PROVE  (a \o b)[j] = IF j < i THEN s[j] ELSE s[j + 1]
  <2>1. CASE j < i
    BY <1>1, <1>2, <1>3, <1>6, <2>1
  <2>2. CASE ~ (j < i)
    <3>1. j - (i - 1) \in 1 .. Len(s) - i /\ i + (j - (i - 1)) = j + 1
      BY <1>1, <2>2
    <3>2. j \in 1 .. Len(a) + Len(b) /\ ~ (j <= Len(a)) /\ j - Len(a) = j - (i - 1)
      BY <1>1, <1>2, <1>3, <2>2
    <3>3. (a \o b)[j] = b[j - (i - 1)]
      BY <1>6, <3>2
    <3>4. b[j - (i - 1)] = s[i + (j - (i - 1))]
      BY <1>3, <3>1
    <3> QED
      BY <2>2, <3>1, <3>3, <3>4
  <2> QED
    BY <2>1, <2>2
<1> QED
  BY <1>1, <1>2, <1>3, <1>4, <1>5, <1>7

LEMMA FrontFacts ==
  ASSUME NEW S, NEW s \in Seq(S), Len(s) > 0
  PROVE  /\ Front(s) \in Seq(S) /\ Len(Front(s)) = Len(s) - 1
         /\ \A i \in 1 .. Len(s) - 1 : Front(s)[i] = s[i]
<1> DEFINE n == Len(s) - 1
<1>1. n \in Nat /\ n < Len(s) /\ Len(s) \in Nat
  OBVIOUS
<1>2. Front(s) = SubSeq(s, 1, n)
  BY DEF Front
<1> HIDE DEF n
<1>3. SubSeq(s, 1, n) \in Seq(S) /\ Len(SubSeq(s, 1, n)) = n
  BY <1>1
<1>4. \A i \in 1 .. n : SubSeq(s, 1, n)[i] = s[i]
  BY <1>1
<1> QED
  BY <1>2, <1>3, <1>4 DEF n

LEMMA RequestFacts ==
  ASSUME TypeOK
  PROVE  /\ requests \in Seq(Request) /\ Len(requests) \in Nat /\ DOMAIN requests = 1 .. Len(requests)
         /\ \A i \in 1 .. Len(requests) : requests[i] \in Request /\ (requests[i].applied => Heard(i))
BY DEF TypeOK

LEMMA UnheardFacts ==
  ASSUME TypeOK
  PROVE  /\ Unheard \in Seq(Request) /\ Len(Unheard) \in Nat /\ Len(Unheard) <= Len(requests)
         /\ \A i \in 1 .. Len(Unheard) : Unheard[i] = requests[i] /\ ~ Unheard[i].applied
<1>1. /\ requests \in Seq(Request) /\ Len(requests) \in Nat
      /\ \A i \in 1 .. Len(requests) : requests[i].applied => i = Len(requests)
  BY RequestFacts DEF Heard
<1>2. CASE requests # <<>> /\ Last(requests).applied
  <2>1. Unheard = Front(requests)
    BY <1>2 DEF Unheard
  <2>2. /\ Unheard \in Seq(Request) /\ Len(Unheard) = Len(requests) - 1 /\ Len(requests) > 0
        /\ \A i \in 1 .. Len(requests) - 1 : Unheard[i] = requests[i]
    <3>1. Len(requests) > 0
      BY <1>1, <1>2
    <3> QED
      BY <1>1, <2>1, <3>1, FrontFacts
  <2>3. ASSUME NEW i \in 1 .. Len(Unheard)
        PROVE  Unheard[i] = requests[i] /\ ~ Unheard[i].applied
    <3>1. i \in 1 .. Len(requests) - 1 /\ i \in 1 .. Len(requests) /\ i # Len(requests)
      BY <1>1, <2>2
    <3>2. Unheard[i] = requests[i]
      BY <2>2, <3>1
    <3>3. ~ requests[i].applied
      BY <1>1, <3>1
    <3> QED
      BY <3>2, <3>3
  <2>4. Len(Unheard) \in Nat /\ Len(Unheard) <= Len(requests)
    BY <1>1, <2>2
  <2> QED
    BY <2>2, <2>3, <2>4
<1>3. CASE ~ (requests # <<>> /\ Last(requests).applied)
  <2>1. Unheard = requests
    BY <1>3 DEF Unheard
  <2>2. requests # <<>> => ~ requests[Len(requests)].applied
    BY <1>3 DEF Last
  <2>3. \A i \in 1 .. Len(requests) : requests # <<>>
    BY <1>1
  <2> QED
    BY <1>1, <2>1, <2>2, <2>3
<1> QED
  BY <1>2, <1>3

-----------------------------------------------------------------------------
(* Contents. *)

LEMMA FormatFacts ==
  /\ Empty \in Content /\ NoLoad.at = "none"
  /\ \A c \in Content : ApiFormat(c) \in ApiContent /\ ApiFormat(c).of = c.of
  /\ NoLoad \in [at : {"none", "sent", "read"}, content : ApiContent]
<1>1. 0 \in 0 .. MaxActs
  BY EditorAssumption DEF EditorAssumption
<1>2. Empty \in Content
  BY <1>1 DEF Empty, Content
<1>3. \A c \in Content : ApiFormat(c) \in ApiContent /\ ApiFormat(c).of = c.of
  BY DEF ApiFormat, Content, ApiContent
<1> QED
  BY <1>2, <1>3 DEF NoLoad

-----------------------------------------------------------------------------
(* Saves. *)

\* What a save sends.
Sent(s) == [page |-> page, content |-> ApiFormat(s.canvas), applied |-> FALSE, late |-> FALSE]

\* What it does: it sends the state s of the canvas, or says that it cannot.
Saves(s) ==
  /\ undone' = FALSE
  /\ store' \in Store /\ store'.canvas = s.canvas /\ store'.dirty = s.dirty
  /\ save' \in [at : {"none", "sent", "waits"}, retries : 0 .. MaxRetries]
  /\ requests' \in Seq(Request) /\ Len(requests') \in Nat
  /\ \A i \in 1 .. Len(requests') :
       /\ ~ requests'[i].applied
       /\ (i \in 1 .. Len(requests) /\ requests'[i] = requests[i]) \/ requests'[i] = Sent(s)
  /\ \/ save'.at = "sent" /\ requests' # <<>> /\ requests'[Len(requests')] = Sent(s)
     \/ save'.at = "none" /\ store'.status = "error"

LEMMA StartSaveFacts ==
  ASSUME TypeOK, NEW s \in Store, page \in Pages, StartSave(s)
  PROVE  Saves(s)
<1> DEFINE r == Sent(s)
<1>0. /\ Unheard \in Seq(Request) /\ Len(Unheard) \in Nat /\ Len(Unheard) <= Len(requests)
      /\ \A i \in 1 .. Len(Unheard) : Unheard[i] = requests[i] /\ ~ Unheard[i].applied
      /\ Len(requests) \in Nat /\ MaxRetries \in Nat
  BY UnheardFacts, RequestFacts, EditorAssumption DEF EditorAssumption
<1>1. r \in Request /\ ~ r.applied
  BY FormatFacts DEF Request, Sent, Store
<1>2. CASE s.online
  <2>1. /\ undone' = FALSE /\ store' = [s EXCEPT !.status = "saving"]
        /\ save' = [at |-> "sent", retries |-> 0] /\ requests' = Append(Unheard, r)
    BY <1>2 DEF StartSave, Sent
  <2>2. store' \in Store /\ store'.canvas = s.canvas /\ store'.dirty = s.dirty
    BY <2>1 DEF Store, Statuses
  <2> HIDE DEF r
  <2>3. /\ requests' \in Seq(Request) /\ Len(requests') = Len(Unheard) + 1 /\ requests' # <<>>
        /\ requests'[Len(Unheard) + 1] = r
        /\ \A i \in 1 .. Len(Unheard) : requests'[i] = Unheard[i]
    BY <1>0, <1>1, <2>1, AppendProperties
  <2>4. \A i \in 1 .. Len(requests') : i \in 1 .. Len(Unheard) \/ i = Len(Unheard) + 1
    BY <1>0, <2>3
  <2>5. \A i \in 1 .. Len(requests') :
          /\ ~ requests'[i].applied
          /\ (i \in 1 .. Len(requests) /\ requests'[i] = requests[i]) \/ requests'[i] = r
    BY <1>0, <1>1, <2>3, <2>4
  <2>6. save' \in [at : {"none", "sent", "waits"}, retries : 0 .. MaxRetries] /\ save'.at = "sent"
    BY <1>0, <2>1
  <2> QED
    BY <1>0, <2>1, <2>2, <2>3, <2>5, <2>6 DEF Saves, r
<1>3. CASE ~ s.online
  <2>1. /\ undone' = FALSE /\ store' = [s EXCEPT !.status = "error"]
        /\ save' = NoSave /\ requests' = Unheard
    BY <1>3 DEF StartSave
  <2>2. store' \in Store /\ store'.canvas = s.canvas /\ store'.dirty = s.dirty /\ store'.status = "error"
    BY <2>1 DEF Store, Statuses
  <2>3. save' \in [at : {"none", "sent", "waits"}, retries : 0 .. MaxRetries] /\ save'.at = "none"
    BY <1>0, <2>1 DEF NoSave
  <2> QED
    BY <1>0, <2>1, <2>2, <2>3 DEF Saves
<1> QED
  BY <1>2, <1>3

-----------------------------------------------------------------------------
(* Requests that are applied or fail. *)

\* The i-th request is gone; of the others some may have become late.
Gone(i) ==
  /\ requests' \in Seq(Request) /\ Len(requests') = Len(requests) - 1
  /\ \A j \in 1 .. Len(requests) - 1 :
       LET r == requests[IF j < i THEN j ELSE j + 1] IN
       /\ requests'[j].page = r.page /\ requests'[j].content = r.content
       /\ requests'[j].applied => r.applied
       /\ r.late => requests'[j].late

\* The i-th request, the last, has been applied and its answer is awaited.
Applied(i) ==
  /\ requests' \in Seq(Request) /\ Len(requests') = Len(requests)
  /\ \A j \in 1 .. Len(requests) :
       /\ requests'[j].page = requests[j].page /\ requests'[j].content = requests[j].content
       /\ requests'[j].applied => requests[j].applied \/ j = i
       /\ j < i /\ requests[j].page = requests[i].page => requests'[j].late

LEMMA RemoveAtGone ==
  ASSUME TypeOK, NEW i \in 1 .. Len(requests), requests' = RemoveAt(requests, i)
  PROVE  Gone(i)
<1>1. requests \in Seq(Request) /\ Len(requests) \in Nat
  BY RequestFacts
<1>2. /\ requests' \in Seq(Request) /\ Len(requests') = Len(requests) - 1
      /\ \A j \in 1 .. Len(requests) - 1 :
           requests'[j] = IF j < i THEN requests[j] ELSE requests[j + 1]
  BY <1>1, RemoveAtFacts
<1>3. ASSUME NEW j \in 1 .. Len(requests) - 1
      PROVE  requests'[j] = requests[IF j < i THEN j ELSE j + 1]
  BY <1>2
<1> QED
  BY <1>2, <1>3 DEF Gone

LEMMA ApplyFacts ==
  ASSUME TypeOK, NEW i \in 1 .. Len(requests), Apply(i)
  PROVE  /\ Heard(i) => Applied(i)
         /\ ~ Heard(i) => Gone(i)
<1> DEFINE Mark(j) == [requests[j] EXCEPT
                         !.late = @ \/ (j < i /\ requests[j].page = requests[i].page)]
           marked == [j \in 1 .. Len(requests) |-> Mark(j)]
<1>1. requests \in Seq(Request) /\ Len(requests) \in Nat /\ DOMAIN requests = 1 .. Len(requests)
  BY RequestFacts
<1>2. ASSUME NEW j \in 1 .. Len(requests)
      PROVE  /\ Mark(j) \in Request
             /\ Mark(j).page = requests[j].page /\ Mark(j).content = requests[j].content
             /\ Mark(j).applied => requests[j].applied
             /\ requests[j].late => Mark(j).late
             /\ j < i /\ requests[j].page = requests[i].page => Mark(j).late
  <2>1. requests[j] \in Request
    BY <1>1
  <2> QED
    BY <2>1 DEF Request
<1>3. requests' = IF Heard(i) THEN [marked EXCEPT ![i].applied = TRUE] ELSE RemoveAt(marked, i)
  BY <1>1 DEF Apply
<1> HIDE DEF Mark
<1>4. marked \in Seq(Request) /\ Len(marked) = Len(requests)
  BY <1>1, <1>2
<1>5. \A j \in 1 .. Len(requests) : marked[j] = Mark(j)
  OBVIOUS
<1>6. CASE Heard(i)
  <2> DEFINE last == [Mark(i) EXCEPT !.applied = TRUE]
  <2>1. requests' = [marked EXCEPT ![i] = last]
    BY <1>3, <1>5, <1>6
  <2>2. /\ last \in Request /\ last.applied /\ last.page = Mark(i).page
        /\ last.content = Mark(i).content
    BY <1>2 DEF Request
  <2> HIDE DEF last, marked
  <2>3. requests' \in Seq(Request) /\ Len(requests') = Len(requests)
    BY <1>4, <2>1, <2>2
  <2>4. \A j \in 1 .. Len(requests) : requests'[j] = IF j = i THEN last ELSE Mark(j)
    BY <1>4, <1>5, <2>1
  <2>5. ASSUME NEW j \in 1 .. Len(requests)
        PROVE  /\ requests'[j].page = requests[j].page /\ requests'[j].content = requests[j].content
               /\ requests'[j].applied => requests[j].applied \/ j = i
               /\ j < i /\ requests[j].page = requests[i].page => requests'[j].late
    <3>1. CASE j = i
      <4>1. requests'[j] = last /\ ~ (j < i)
        BY <1>1, <2>4, <3>1
      <4> QED
        BY <1>2, <2>2, <3>1, <4>1
    <3>2. CASE j # i
      BY <1>2, <2>4, <3>2
    <3> QED
      BY <3>1, <3>2
  <2> QED
    BY <1>6, <2>3, <2>5 DEF Applied
<1>7. CASE ~ Heard(i)
  <2> HIDE DEF marked
  <2>1. requests' = RemoveAt(marked, i) /\ i \in 1 .. Len(marked)
    BY <1>3, <1>4, <1>7
  <2>2. /\ requests' \in Seq(Request) /\ Len(requests') = Len(requests) - 1
        /\ \A j \in 1 .. Len(requests) - 1 :
             requests'[j] = IF j < i THEN marked[j] ELSE marked[j + 1]
    BY <1>4, <2>1, RemoveAtFacts
  <2>3. ASSUME NEW j \in 1 .. Len(requests) - 1, NEW k, k = IF j < i THEN j ELSE j + 1
        PROVE  k \in 1 .. Len(requests) /\ requests'[j] = Mark(k)
    <3>1. k \in 1 .. Len(requests)
      BY <1>1, <2>3
    <3> QED
      BY <1>5, <2>2, <2>3, <3>1
  <2>4. ASSUME NEW j \in 1 .. Len(requests) - 1, NEW k, k = IF j < i THEN j ELSE j + 1
        PROVE  /\ requests'[j].page = requests[k].page /\ requests'[j].content = requests[k].content
               /\ requests'[j].applied => requests[k].applied
               /\ requests[k].late => requests'[j].late
    BY <1>2, <2>3, <2>4
  <2> QED
    BY <1>7, <2>2, <2>4 DEF Gone
<1> QED
  BY <1>6, <1>7

-----------------------------------------------------------------------------
(* The types. *)

Counts == [acts : 0 .. MaxActs, opens : 0 .. MaxOpens, faults : 0 .. MaxFaults]

LEMMA CountFacts ==
  ASSUME TypeOK
  PROVE  /\ count \in Counts /\ count.acts \in 0 .. MaxActs
         /\ Count("acts", MaxActs) => count' \in Counts /\ count.acts + 1 \in 0 .. MaxActs
         /\ Count("opens", MaxOpens) => count' \in Counts
         /\ Count("faults", MaxFaults) => count' \in Counts
<1>1. count \in Counts /\ MaxActs \in Nat /\ MaxOpens \in Nat /\ MaxFaults \in Nat
  BY EditorAssumption DEF TypeOK, Counts, EditorAssumption
<1>2. Count("acts", MaxActs) => count' \in Counts /\ count.acts + 1 \in 0 .. MaxActs
  BY <1>1 DEF Count, Counts
<1>3. Count("opens", MaxOpens) => count' \in Counts
  BY <1>1 DEF Count, Counts
<1>4. Count("faults", MaxFaults) => count' \in Counts
  BY <1>1 DEF Count, Counts
<1> QED
  BY <1>1, <1>2, <1>3, <1>4 DEF Counts

LEMMA StoreFacts ==
  ASSUME TypeOK
  PROVE  /\ store \in Store /\ setDirty(store) \in Store
         /\ setDirty(store).canvas = store.canvas /\ setDirty(store).dirty
         /\ \A b \in BOOLEAN : [store EXCEPT !.online = b] \in Store
         /\ \A st \in Statuses : [store EXCEPT !.status = st] \in Store
BY DEF TypeOK, Store, setDirty, Statuses

LEMMA EditFacts ==
  ASSUME TypeOK, page \in Pages, Edit
  PROVE  /\ store' \in Store
         /\ store'.canvas.of = IF store.canvas = Empty THEN page ELSE store.canvas.of
<1> DEFINE shown == Shown(store)
<1>1. shown \in Content /\ shown.of = IF store.canvas = Empty THEN page ELSE store.canvas.of
  BY FormatFacts DEF Shown, TypeOK, Store, Content
<1>2. count.acts + 1 \in 0 .. MaxActs
  BY CountFacts DEF Edit
<1>3. PICK v \in {shown.v, count.acts + 1}, r \in BOOLEAN :
        store' = setDirty([store EXCEPT !.canvas = [shown EXCEPT !.v = v, !.rest = r]])
  BY DEF Edit, Edited
<1> HIDE DEF shown
<1>4. [shown EXCEPT !.v = v, !.rest = r] \in Content /\ [shown EXCEPT !.v = v, !.rest = r].of = shown.of
  BY <1>1, <1>2, <1>3 DEF Content
<1>5. ASSUME NEW c \in Content, store' = setDirty([store EXCEPT !.canvas = c])
      PROVE  store' \in Store /\ store'.canvas = c
  BY <1>5 DEF setDirty, TypeOK, Store, Statuses
<1> QED
  BY <1>1, <1>3, <1>4, <1>5

LEMMA LoadedFacts ==
  ASSUME TypeOK, Loaded
  PROVE  store' \in Store /\ store'.canvas.of = load.content.of
<1>1. PICK rest \in {Empty.rest, store.canvas.rest} :
        store' = [setDirty(store) EXCEPT !.canvas =
                    [of |-> load.content.of, v |-> load.content.v, rest |-> rest]]
  BY DEF Loaded
<1> DEFINE c == [of |-> load.content.of, v |-> load.content.v, rest |-> rest]
<1>2. load.content \in ApiContent /\ rest \in BOOLEAN
  BY FormatFacts DEF TypeOK, Store, Content
<1>3. c \in Content /\ c.of = load.content.of
  BY <1>2 DEF Content, ApiContent
<1> HIDE DEF c
<1>4. store' = [setDirty(store) EXCEPT !.canvas = c] /\ setDirty(store) \in Store
  BY <1>1, StoreFacts DEF c
<1> QED
  BY <1>3, <1>4 DEF Store

LEMMA SavesType ==
  ASSUME TypeOK, NEW s, Saves(s),
         page' = page, open' = open, load' = load, server' = server, overtaken' = overtaken,
         debounce' \in BOOLEAN, network' \in BOOLEAN, count' \in Counts, astray' \in BOOLEAN
  PROVE  TypeOK'
<1>1. /\ page' \in Pages \cup {NoPage} /\ open' \in BOOLEAN
      /\ load' \in [at : {"none", "sent", "read"}, content : ApiContent]
      /\ server' \in [Pages -> ApiContent] /\ overtaken' \in BOOLEAN
  BY DEF TypeOK
<1>2. /\ store' \in Store /\ undone' \in BOOLEAN
      /\ save' \in [at : {"none", "sent", "waits"}, retries : 0 .. MaxRetries]
      /\ requests' \in Seq(Request)
      /\ save'.at = "sent" => requests' # <<>>
  BY DEF Saves
<1>3. \A i \in DOMAIN requests' : ~ requests'[i].applied
  BY DEF Saves
<1> QED
  BY <1>1, <1>2, <1>3 DEF TypeOK, Counts

\* The requests are as they were, and the save waits for the last of them as
\* it did, or for none that could have been applied.
LEMMA OtherType ==
  ASSUME TypeOK, requests' = requests, save' = save,
         page' \in Pages \cup {NoPage}, open' \in BOOLEAN,
         load' \in [at : {"none", "sent", "read"}, content : ApiContent],
         store' \in Store, server' \in [Pages -> ApiContent], overtaken' \in BOOLEAN,
         debounce' \in BOOLEAN, network' \in BOOLEAN, count' \in Counts,
         undone' \in BOOLEAN, astray' \in BOOLEAN
  PROVE  TypeOK'
BY DEF TypeOK, Counts, Heard

LEMMA GoneType ==
  ASSUME TypeOK, NEW i \in 1 .. Len(requests), Gone(i),
         IF Heard(i) THEN save' \in [at : {"none", "waits"}, retries : 0 .. MaxRetries] ELSE save' = save,
         page' = page, open' = open, load' = load,
         store' \in Store, server' \in [Pages -> ApiContent], overtaken' \in BOOLEAN,
         debounce' \in BOOLEAN, network' \in BOOLEAN, count' \in Counts,
         undone' \in BOOLEAN, astray' \in BOOLEAN
  PROVE  TypeOK'
<1>1. /\ page' \in Pages \cup {NoPage} /\ open' \in BOOLEAN
      /\ load' \in [at : {"none", "sent", "read"}, content : ApiContent]
      /\ save' \in [at : {"none", "sent", "waits"}, retries : 0 .. MaxRetries]
  BY DEF TypeOK
<1>2. /\ Len(requests) \in Nat
      /\ \A j \in 1 .. Len(requests) : requests[j].applied => j = Len(requests) /\ save.at = "sent"
  BY RequestFacts DEF Heard
<1>3. requests' \in Seq(Request) /\ Len(requests') = Len(requests) - 1
  BY DEF Gone
<1>4. save'.at = "sent" => requests' # <<>>
  <2>1. save'.at = "sent" => save' = save /\ i # Len(requests)
    BY DEF Heard
  <2>2. save'.at = "sent" => Len(requests') > 0
    BY <1>2, <1>3, <2>1
  <2> QED
    BY <1>3, <2>2
<1>5. ASSUME NEW j \in DOMAIN requests', requests'[j].applied
      PROVE  Heard(j)'
  <2>1. j \in 1 .. Len(requests) - 1
    BY <1>3, <1>5
  <2> DEFINE k == IF j < i THEN j ELSE j + 1
  <2>2. k \in 1 .. Len(requests) /\ requests[k].applied
    BY <1>2, <1>5, <2>1 DEF Gone
  <2>3. k = Len(requests) /\ save.at = "sent" /\ k # i
    BY <1>2, <2>1, <2>2
  <2>4. j = Len(requests) - 1 /\ save' = save
    BY <1>2, <2>1, <2>3 DEF Heard
  <2> QED
    BY <1>3, <2>3, <2>4 DEF Heard
<1> QED
  BY <1>1, <1>3, <1>4, <1>5 DEF TypeOK, Counts

\* A save is begun of what is on the canvas.
Sends ==
  \E s \in Store : s.canvas = store.canvas /\ (s.dirty => store.dirty \/ open) /\ Saves(s)

LEMMA SendsFacts ==
  ASSUME TypeOK, Shape, SaveNow \/ FallbackSave \/ DebounceFires
  PROVE  page \in Pages /\ Sends
<1>1. CASE SaveNow \/ FallbackSave
  <2>1. open /\ page \in Pages /\ StartSave(setDirty(store))
    BY <1>1 DEF SaveNow, FallbackSave, Shape
  <2>2. Saves(setDirty(store))
    BY <2>1, StartSaveFacts, StoreFacts
  <2> QED
    BY <2>1, <2>2, StoreFacts DEF Sends
<1>2. CASE DebounceFires
  <2>1. page \in Pages /\ StartSave(store) /\ store \in Store
    BY <1>2, StoreFacts DEF DebounceFires, Shape
  <2>2. Saves(store)
    BY <2>1, StartSaveFacts
  <2> QED
    BY <2>1, <2>2 DEF Sends
<1> QED
  BY <1>1, <1>2

LEMMA NetworkUpFacts ==
  ASSUME TypeOK, Shape, NetworkUp
  PROVE  \/ page \in Pages /\ store.dirty /\ Sends
         \/ /\ store' = [store EXCEPT !.online = TRUE] /\ undone' = undone
            /\ save' = save /\ requests' = requests
<1> DEFINE s == [store EXCEPT !.online = TRUE]
           t == setDirty(s)
<1>1. /\ s \in Store /\ s.dirty = store.dirty /\ t \in Store /\ t.canvas = store.canvas
  BY StoreFacts DEF Store, setDirty, Statuses
<1>2. \/ s.dirty /\ StartSave(t)
      \/ store' = s /\ save' = save /\ requests' = requests /\ undone' = undone
  BY DEF NetworkUp, saving
<1> HIDE DEF s, t
<1>3. CASE s.dirty /\ StartSave(t)
  <2>1. page \in Pages /\ store.dirty
    BY <1>1, <1>3 DEF Shape
  <2>2. Saves(t)
    BY <1>1, <1>3, <2>1, StartSaveFacts
  <2> QED
    BY <1>1, <2>1, <2>2 DEF Sends
<1> QED
  BY <1>2, <1>3 DEF s

LEMMA TypeStep ==
  ASSUME TypeOK, Shape, [Next]_vars
  PROVE  TypeOK'
<1> USE DEF editor, saving, api
<1>0. /\ page \in Pages \cup {NoPage} /\ open \in BOOLEAN
      /\ load \in [at : {"none", "sent", "read"}, content : ApiContent]
      /\ store \in Store /\ debounce \in BOOLEAN
      /\ server \in [Pages -> ApiContent] /\ network \in BOOLEAN /\ count \in Counts
      /\ overtaken \in BOOLEAN /\ undone \in BOOLEAN /\ astray \in BOOLEAN
  BY DEF TypeOK, Counts
<1>1. CASE SaveNow \/ FallbackSave
  <2>1. Sends
    BY <1>1, SendsFacts
  <2>2. PICK s \in Store : Saves(s)
    BY <2>1 DEF Sends
  <2>3. /\ page' = page /\ open' = open /\ load' = load /\ server' = server /\ overtaken' = overtaken
        /\ debounce' = debounce /\ network' = network /\ count' \in Counts
        /\ astray' = (astray \/ load # NoLoad)
    BY <1>1, CountFacts DEF SaveNow, FallbackSave
  <2>4. astray' \in BOOLEAN
    BY <2>3
  <2> QED
    BY <1>0, <2>2, <2>3, <2>4, SavesType
<1>2. CASE DebounceFires
  <2>1. PICK s \in Store : Saves(s)
    BY <1>2, SendsFacts DEF Sends
  <2> QED
    BY <1>0, <1>2, <2>1, SavesType DEF DebounceFires
<1>3. CASE Retry
  <2>1. save.at = "waits" /\ requests' = requests /\ save.retries \in Nat
    BY <1>3 DEF Retry, retrying, TypeOK
  <2>2. \A i \in DOMAIN requests : ~ requests[i].applied
    BY <2>1 DEF TypeOK, Heard
  <2>3. save' \in [at : {"none", "sent", "waits"}, retries : 0 .. MaxRetries] /\ save'.at # "sent"
    BY <1>3, <2>1, EditorAssumption DEF Retry, retrying, TypeOK, NoSave, EditorAssumption
  <2>4. store' \in Store
    BY <1>3, StoreFacts DEF Retry, Statuses
  <2> QED
    BY <1>3, <2>1, <2>2, <2>3, <2>4 DEF Retry, TypeOK
<1>4. CASE \E i \in DOMAIN requests : Apply(i)
  <2>1. PICK i \in 1 .. Len(requests) : Apply(i)
    BY <1>4, RequestFacts
  <2>2. requests[i] \in Request
    BY RequestFacts
  <2>3. /\ page' = page /\ open' = open /\ load' = load /\ store' = store /\ save' = save
        /\ debounce' = debounce /\ network' = network /\ count' = count
        /\ undone' = undone /\ astray' = astray
        /\ server' = [server EXCEPT ![requests[i].page] = requests[i].content]
        /\ overtaken' = (overtaken \/ requests[i].late)
    BY <2>1 DEF Apply
  <2>4. server' \in [Pages -> ApiContent] /\ overtaken' \in BOOLEAN
    BY <1>0, <2>2, <2>3 DEF Request
  <2>5. CASE Heard(i)
    <3>1. Applied(i)
      BY <2>1, <2>5, ApplyFacts
    <3>2. Len(requests) \in Nat /\ i = Len(requests) /\ save.at = "sent"
      BY <2>5, RequestFacts DEF Heard
    <3>3. requests' \in Seq(Request) /\ Len(requests') = Len(requests) /\ requests' # <<>>
      BY <3>1, <3>2 DEF Applied
    <3>4. ASSUME NEW j \in DOMAIN requests', requests'[j].applied
          PROVE  Heard(j)'
      <4>1. j \in 1 .. Len(requests)
        BY <3>3
      <4>2. j = Len(requests)
        BY <3>1, <3>2, <3>4, <4>1, RequestFacts DEF Applied, Heard
      <4> QED
        BY <2>3, <3>2, <3>3, <4>2 DEF Heard
    <3> QED
      BY <1>0, <2>3, <2>4, <3>3, <3>4 DEF TypeOK, Counts
  <2>6. CASE ~ Heard(i)
    BY <1>0, <2>1, <2>3, <2>4, <2>6, ApplyFacts, GoneType
  <2> QED
    BY <2>5, <2>6
<1>5. CASE \E i \in DOMAIN requests : Answer(i)
  <2>1. PICK i \in 1 .. Len(requests) : Answer(i)
    BY <1>5, RequestFacts
  <2>2. Gone(i)
    BY <2>1, RemoveAtGone DEF Answer
  <2>3. store' \in Store /\ Heard(i)
    BY <1>0, <2>1 DEF Answer, Store, Statuses
  <2>4. save' \in [at : {"none", "waits"}, retries : 0 .. MaxRetries]
    BY <2>1, EditorAssumption DEF Answer, NoSave, EditorAssumption
  <2> QED
    BY <1>0, <2>1, <2>2, <2>3, <2>4, GoneType DEF Answer
<1>6. CASE \E i \in DOMAIN requests : RequestFails(i)
  <2>1. PICK i \in 1 .. Len(requests) : RequestFails(i)
    BY <1>6, RequestFacts
  <2>2. Gone(i)
    BY <2>1, RemoveAtGone DEF RequestFails
  <2>3. /\ store' \in Store
        /\ IF Heard(i) THEN save' \in [at : {"none", "waits"}, retries : 0 .. MaxRetries] ELSE save' = save
    BY <1>0, <2>1, StoreFacts, EditorAssumption DEF RequestFails, Statuses, EditorAssumption
  <2>4. count' \in Counts
    BY <1>0, <2>1, CountFacts DEF RequestFails
  <2>5. /\ page' = page /\ open' = open /\ load' = load /\ server' = server /\ overtaken' = overtaken
        /\ debounce' = debounce /\ network' = network /\ undone' = undone /\ astray' = astray
    BY <2>1 DEF RequestFails
  <2> QED
    BY <1>0, <2>2, <2>3, <2>4, <2>5, GoneType
<1>7. CASE NetworkDown
  BY <1>0, <1>7, CountFacts, StoreFacts, OtherType DEF NetworkDown
<1>8. CASE NetworkUp
  <2>1. /\ page' = page /\ open' = open /\ load' = load /\ server' = server /\ overtaken' = overtaken
        /\ debounce' = debounce /\ network' = TRUE /\ count' = count /\ astray' = astray
    BY <1>8 DEF NetworkUp
  <2>2. CASE Sends
    <3>1. PICK s \in Store : Saves(s)
      BY <2>2 DEF Sends
    <3> QED
      BY <1>0, <2>1, <3>1, SavesType
  <2>3. CASE /\ store' = [store EXCEPT !.online = TRUE] /\ undone' = undone
             /\ save' = save /\ requests' = requests
    BY <1>0, <2>1, <2>3, StoreFacts, OtherType
  <2> QED
    BY <1>8, <2>2, <2>3, NetworkUpFacts
<1>9. CASE CheckNetwork
  BY <1>0, <1>9, StoreFacts, OtherType DEF CheckNetwork
<1>10. CASE Edit
  <2>1. count' \in Counts /\ count.acts + 1 \in 0 .. MaxActs
    BY <1>10, CountFacts DEF Edit
  <2>2. page \in Pages
    BY <1>10 DEF Edit, Shape
  <2>3. store' \in Store
    BY <1>10, <2>2, EditFacts
  <2>4. /\ requests' = requests /\ save' = save /\ page' = page /\ open' = open /\ load' = load
        /\ server' = server /\ overtaken' = overtaken /\ debounce' = TRUE /\ network' = network
        /\ undone' = undone /\ astray' = (astray \/ load # NoLoad)
    BY <1>10 DEF Edit
  <2>5. astray' \in BOOLEAN
    BY <2>4
  <2> QED
    BY <1>0, <2>1, <2>3, <2>4, <2>5, OtherType
<1>11. CASE UndoOrRedo
  <2>1. /\ requests' = requests /\ save' = save /\ page' = page /\ open' = open /\ load' = load
        /\ server' = server /\ overtaken' = overtaken /\ debounce' = debounce /\ network' = network
        /\ undone' = TRUE /\ astray' = (astray \/ store'.canvas.of # page)
        /\ count' \in Counts
    BY <1>11, CountFacts DEF UndoOrRedo
  <2>2. store' \in Store
    BY <1>11 DEF UndoOrRedo, Snapshots
  <2>3. astray' \in BOOLEAN
    BY <2>1
  <2> QED
    BY <1>0, <2>1, <2>2, <2>3, OtherType
<1>12. CASE \E p \in Pages : OpenPage(p)
  <2>1. PICK p \in Pages : OpenPage(p)
    BY <1>12
  <2>2. /\ requests' = requests /\ save' = save /\ page' = p /\ open' = TRUE
        /\ load' = [NoLoad EXCEPT !.at = "sent"]
        /\ server' = server /\ overtaken' = overtaken /\ debounce' = debounce /\ network' = network
        /\ undone' = undone /\ astray' = (astray \/ (debounce /\ store.canvas.of # p))
        /\ count' \in Counts
        /\ store' = [store EXCEPT !.dirty = FALSE, !.status = "saved"]
    BY <2>1, CountFacts DEF OpenPage
  <2>3. astray' \in BOOLEAN /\ store' \in Store
    BY <1>0, <2>2 DEF Store, Statuses
  <2>4. load' \in [at : {"none", "sent", "read"}, content : ApiContent]
    BY <2>2, FormatFacts
  <2> QED
    BY <1>0, <2>2, <2>3, <2>4, OtherType
<1>13. CASE LoadReads
  <2>1. load.at # "none" /\ load' = [at |-> "read", content |-> server[page]]
    BY <1>13 DEF LoadReads
  <2>2. load' \in [at : {"none", "sent", "read"}, content : ApiContent]
    BY <1>0, <2>1 DEF Shape
  <2> QED
    BY <1>0, <1>13, <2>2, OtherType DEF LoadReads
<1>14. CASE Loaded
  <2>1. store' \in Store
    BY <1>14, LoadedFacts
  <2>2. load' \in [at : {"none", "sent", "read"}, content : ApiContent]
    BY <1>14, FormatFacts DEF Loaded
  <2> QED
    BY <1>0, <1>14, <2>1, <2>2, OtherType DEF Loaded
<1>15. CASE LoadFails
  <2>1. load' \in [at : {"none", "sent", "read"}, content : ApiContent]
    BY <1>15, FormatFacts DEF LoadFails
  <2>2. count' \in Counts
    BY <1>0, <1>15, CountFacts DEF LoadFails
  <2> QED
    BY <1>0, <1>15, <2>1, <2>2, OtherType DEF LoadFails
<1>16. CASE Leave
  <2>1. load' \in [at : {"none", "sent", "read"}, content : ApiContent]
    BY <1>16, FormatFacts DEF Leave
  <2> QED
    BY <1>0, <1>16, <2>1, OtherType DEF Leave
<1>17. CASE UNCHANGED vars
  BY <1>0, <1>17, OtherType DEF vars
<1> QED
  BY <1>1, <1>2, <1>3, <1>4, <1>5, <1>6, <1>7, <1>8, <1>9, <1>10, <1>11, <1>12, <1>13,
     <1>14, <1>15, <1>16, <1>17 DEF Next

-----------------------------------------------------------------------------
(* What may be saved is of a page. *)

LEMMA ShapeStep ==
  ASSUME TypeOK, Shape, [Next]_vars
  PROVE  Shape'
<1> USE DEF editor, saving, api
<1>1. CASE SaveNow \/ FallbackSave
  BY <1>1, SendsFacts DEF SaveNow, FallbackSave, Shape
<1>2. CASE DebounceFires
  BY <1>2, SendsFacts DEF DebounceFires, Shape
<1>3. CASE Retry
  BY <1>3, StoreFacts DEF Retry, Shape, Store
<1>4. CASE \E i \in DOMAIN requests : Apply(i) \/ Answer(i) \/ RequestFails(i)
  <2>1. PICK i \in DOMAIN requests : Apply(i) \/ Answer(i) \/ RequestFails(i)
    BY <1>4
  <2>2. /\ page' = page /\ open' = open /\ load' = load /\ debounce' = debounce
        /\ store'.dirty => store.dirty
    BY <2>1, StoreFacts DEF Apply, Answer, RequestFails, Store
  <2> QED
    BY <2>2 DEF Shape
<1>5. CASE NetworkDown \/ CheckNetwork
  BY <1>5, StoreFacts DEF NetworkDown, CheckNetwork, Shape, Store
<1>6. CASE NetworkUp
  <2>1. page' = page /\ open' = open /\ load' = load /\ debounce' = debounce
    BY <1>6 DEF NetworkUp
  <2>2. store'.dirty => page \in Pages
    BY <1>6, NetworkUpFacts, StoreFacts DEF Shape, Store
  <2> QED
    BY <2>1, <2>2 DEF Shape
<1>7. CASE Edit
  BY <1>7 DEF Edit, Shape
<1>8. CASE UndoOrRedo
  BY <1>8 DEF UndoOrRedo, Shape
<1>9. CASE \E p \in Pages : OpenPage(p)
  BY <1>9 DEF OpenPage, Shape, NoLoad
<1>10. CASE LoadReads \/ Loaded \/ LoadFails
  BY <1>10 DEF LoadReads, Loaded, LoadFails, Shape, NoLoad
<1>11. CASE Leave
  BY <1>11 DEF Leave, Shape, NoLoad
<1>12. CASE UNCHANGED vars
  BY <1>12 DEF vars, Shape
<1> QED
  BY <1>1, <1>2, <1>3, <1>4, <1>5, <1>6, <1>7, <1>8, <1>9, <1>10, <1>11, <1>12 DEF Next

-----------------------------------------------------------------------------
(* The content of a screen is its own. *)

\* What a save sends is of its page if what is on the canvas is.
LEMMA SendsOwn ==
  ASSUME TypeOK, Own, ~ astray, Sends, store.canvas.of = page,
         page' = page, load' = load, server' = server
  PROVE  Own'
<1>1. PICK s \in Store : s.canvas = store.canvas /\ Saves(s)
  BY DEF Sends
<1>2. store'.canvas.of = page
  BY <1>1 DEF Saves
<1>3. ASSUME NEW i \in 1 .. Len(requests')
      PROVE  requests'[i].content.of = requests'[i].page
  <2>1. CASE i \in 1 .. Len(requests) /\ requests'[i] = requests[i]
    BY <2>1 DEF Own
  <2>2. CASE requests'[i] = Sent(s)
    BY <1>1, <2>2, FormatFacts DEF Sent, TypeOK, Store
  <2> QED
    BY <1>1, <2>1, <2>2 DEF Saves
<1> QED
  BY <1>2, <1>3 DEF Own

\* The requests and the API are as they were.
LEMMA OtherOwn ==
  ASSUME Own, ~ astray' => ~ astray, requests' = requests, server' = server,
         ~ astray' /\ load'.at = "read" => load'.content.of = page',
         ~ astray' /\ ((open' /\ load'.at = "none") \/ store'.dirty \/ debounce') =>
           store'.canvas.of = page'
  PROVE  Own'
BY DEF Own

\* A request is gone, of which the API may have got the content.
LEMMA GoneOwn ==
  ASSUME TypeOK, Own, NEW i \in 1 .. Len(requests), Gone(i) \/ Applied(i),
         \/ server' = server
         \/ server' = [server EXCEPT ![requests[i].page] = requests[i].content],
         page' = page, load' = load, open' = open, debounce' = debounce, astray' = astray,
         store'.canvas = store.canvas, store'.dirty => store.dirty
  PROVE  Own'
<1> SUFFICES ASSUME ~ astray
             PROVE  /\ \A p \in Pages : server'[p].of = p
                    /\ \A j \in 1 .. Len(requests') : requests'[j].content.of = requests'[j].page
  BY DEF Own
<1>1. /\ \A p \in Pages : server[p].of = p
      /\ \A j \in 1 .. Len(requests) : requests[j].content.of = requests[j].page
  BY DEF Own
<1>2. server \in [Pages -> ApiContent] /\ Len(requests) \in Nat
  BY RequestFacts DEF TypeOK
<1>3. \A p \in Pages : server'[p].of = p
  BY <1>1, <1>2
<1>4. ASSUME NEW j \in 1 .. Len(requests')
      PROVE  requests'[j].content.of = requests'[j].page
  <2>1. CASE Gone(i)
    <3>1. j \in 1 .. Len(requests) - 1
      BY <2>1 DEF Gone
    <3> DEFINE k == IF j < i THEN j ELSE j + 1
    <3>2. /\ k \in 1 .. Len(requests) /\ requests'[j].page = requests[k].page
          /\ requests'[j].content = requests[k].content
      BY <1>2, <2>1, <3>1 DEF Gone
    <3> QED
      BY <1>1, <3>2
  <2>2. CASE Applied(i)
    BY <1>1, <2>2 DEF Applied
  <2> QED
    BY <2>1, <2>2
<1> QED
  BY <1>3, <1>4

LEMMA OwnStep ==
  ASSUME TypeOK, Shape, Own, [Next]_vars
  PROVE  Own'
<1> USE DEF editor, saving, api
<1>1. CASE SaveNow \/ FallbackSave
  <2>1. /\ Sends /\ open /\ page' = page /\ load' = load /\ server' = server
        /\ astray' = (astray \/ load # NoLoad)
    BY <1>1, SendsFacts DEF SaveNow, FallbackSave
  <2>2. ~ astray' => ~ astray /\ load = NoLoad
    BY <2>1
  <2>3. ~ astray' => store.canvas.of = page
    <3>1. NoLoad.at = "none"
      BY DEF NoLoad
    <3> QED
      BY <2>1, <2>2, <3>1 DEF Own
  <2> QED
    BY <2>1, <2>2, <2>3, SendsOwn DEF Own
<1>2. CASE DebounceFires
  <2>1. Sends /\ debounce /\ page' = page /\ load' = load /\ server' = server /\ astray' = astray
    BY <1>2, SendsFacts DEF DebounceFires
  <2>2. ~ astray => store.canvas.of = page
    BY <2>1 DEF Own
  <2> QED
    BY <2>1, <2>2, SendsOwn DEF Own
<1>3. CASE Retry
  <2>1. store'.canvas = store.canvas /\ store'.dirty = store.dirty
    BY <1>3, StoreFacts DEF Retry, Store
  <2> QED
    BY <1>3, <2>1 DEF Retry, Own
<1>4. CASE \E i \in DOMAIN requests : Apply(i) \/ Answer(i) \/ RequestFails(i)
  <2>1. PICK i \in 1 .. Len(requests) : Apply(i) \/ Answer(i) \/ RequestFails(i)
    BY <1>4, RequestFacts
  <2>2. /\ page' = page /\ load' = load /\ open' = open /\ debounce' = debounce /\ astray' = astray
        /\ store'.canvas = store.canvas /\ (store'.dirty => store.dirty)
    BY <2>1, StoreFacts DEF Apply, Answer, RequestFails, Store
  <2>3. Gone(i) \/ Applied(i)
    BY <2>1, ApplyFacts, RemoveAtGone DEF Answer, RequestFails
  <2>4. \/ server' = server
        \/ server' = [server EXCEPT ![requests[i].page] = requests[i].content]
    BY <2>1 DEF Apply, Answer, RequestFails
  <2> QED
    BY <2>2, <2>3, <2>4, GoneOwn
<1>5. CASE NetworkDown \/ CheckNetwork
  <2>1. store'.canvas = store.canvas /\ store'.dirty = store.dirty
    BY <1>5, StoreFacts DEF NetworkDown, CheckNetwork, Store
  <2> QED
    BY <1>5, <2>1 DEF NetworkDown, CheckNetwork, Own
<1>6. CASE NetworkUp
  <2>1. /\ page' = page /\ load' = load /\ open' = open /\ server' = server
        /\ debounce' = debounce /\ astray' = astray
    BY <1>6 DEF NetworkUp
  <2>2. CASE store.dirty /\ Sends
    <3>1. ~ astray => store.canvas.of = page
      BY <2>2 DEF Own
    <3> QED
      BY <2>1, <2>2, <3>1, SendsOwn DEF Own
  <2>3. CASE store' = [store EXCEPT !.online = TRUE] /\ requests' = requests
    <3>1. store'.canvas = store.canvas /\ store'.dirty = store.dirty
      BY <2>3, StoreFacts DEF Store
    <3> QED
      BY <2>1, <2>3, <3>1 DEF Own
  <2> QED
    BY <1>6, <2>2, <2>3, NetworkUpFacts
<1>7. CASE Edit
  <2>1. /\ page' = page /\ load' = load /\ open /\ server' = server /\ requests' = requests
        /\ astray' = (astray \/ load # NoLoad)
    BY <1>7 DEF Edit
  <2>2. ~ astray' => ~ astray /\ load = NoLoad
    BY <2>1
  <2>3. ~ astray' => load.at = "none" /\ store.canvas.of = page
    <3>1. NoLoad.at = "none"
      BY DEF NoLoad
    <3> QED
      BY <2>1, <2>2, <3>1 DEF Own
  <2>4. store'.canvas.of = IF store.canvas = Empty THEN page ELSE store.canvas.of
    <3>1. page \in Pages
      BY <2>1 DEF Shape
    <3> QED
      BY <1>7, <3>1, EditFacts
  <2> QED
    BY <2>1, <2>2, <2>3, <2>4, OtherOwn
<1>8. CASE UndoOrRedo
  <2>1. /\ page' = page /\ load' = load /\ open' = open /\ server' = server /\ requests' = requests
        /\ astray' = (astray \/ store'.canvas.of # page)
    BY <1>8 DEF UndoOrRedo
  <2>2. load'.at = "read" /\ ~ astray' => load'.content.of = page'
    BY <2>1 DEF Own
  <2> QED
    BY <2>1, <2>2, OtherOwn
<1>9. CASE \E p \in Pages : OpenPage(p)
  <2>1. PICK p \in Pages : OpenPage(p)
    BY <1>9
  <2>2. /\ page' = p /\ load'.at = "sent" /\ server' = server /\ requests' = requests
        /\ debounce' = debounce /\ astray' = (astray \/ (debounce /\ store.canvas.of # p))
        /\ store' = [store EXCEPT !.dirty = FALSE, !.status = "saved"]
    BY <2>1 DEF OpenPage, NoLoad
  <2>3. store'.canvas = store.canvas /\ ~ store'.dirty
    BY <2>2, StoreFacts DEF Store
  <2> QED
    BY <2>2, <2>3, OtherOwn
<1>10. CASE LoadReads
  <2>1. /\ page' = page /\ load' = [at |-> "read", content |-> server[page]] /\ page \in Pages
        /\ store' = store /\ debounce' = debounce /\ astray' = astray
        /\ server' = server /\ requests' = requests
    BY <1>10 DEF LoadReads, Shape
  <2> QED
    BY <2>1, OtherOwn DEF Own
<1>11. CASE Loaded
  <2>1. /\ page' = page /\ load' = NoLoad /\ load.at = "read" /\ astray' = astray
        /\ server' = server /\ requests' = requests
    BY <1>11 DEF Loaded
  <2>2. store'.canvas.of = load.content.of
    BY <1>11, LoadedFacts
  <2> QED
    BY <2>1, <2>2, OtherOwn DEF Own, NoLoad
<1>12. CASE LoadFails
  BY <1>12 DEF LoadFails, Own
<1>13. CASE Leave
  BY <1>13, OtherOwn DEF Leave, Own, NoLoad
<1>14. CASE UNCHANGED vars
  BY <1>14 DEF vars, Own
<1> QED
  BY <1>1, <1>2, <1>3, <1>4, <1>5, <1>6, <1>7, <1>8, <1>9, <1>10, <1>11, <1>12, <1>13, <1>14 DEF Next

-----------------------------------------------------------------------------
(* "Saved" is true of what is shown. *)

\* The last request has what is on the canvas, or it is said that it could
\* not be sent.
LEMMA SendsTruth ==
  ASSUME TypeOK, Sends, page' = page
  PROVE  Truth'
<1>1. PICK s \in Store : s.canvas = store.canvas /\ Saves(s)
  BY DEF Sends
<1>2. CASE save'.at = "sent" /\ requests' # <<>> /\ requests'[Len(requests')] = Sent(s)
  <2> DEFINE r == requests'[Len(requests')]
  <2>1. r.page = page' /\ r.content = ApiFormat(store'.canvas) /\ ~ r.applied
    BY <1>1, <1>2 DEF Sent, Saves
  <2> QED
    BY <1>2, <2>1 DEF Truth
<1>3. CASE save'.at = "none" /\ store'.status = "error"
  BY <1>3 DEF Truth
<1> QED
  BY <1>1, <1>2, <1>3 DEF Saves

\* The same of the next state, for an index that is not of the next state.
NowLate(i) ==
  \A j \in 1 .. Len(requests') : j # i /\ requests'[j].page = page => requests'[j].late

\* A request nobody waits for is gone.  If the API has applied it, it was of
\* another page, or it has overtaken a newer one.
LEMMA GoneTruth ==
  ASSUME TypeOK, Truth, NEW i \in 1 .. Len(requests), Gone(i), ~ Heard(i),
         page' = page, open' = open, load' = load, store' = store, save' = save,
         debounce' = debounce, undone' = undone, astray' = astray,
         open => page \in Pages,
         \/ server' = server /\ overtaken' = overtaken
         \/ /\ server' = [server EXCEPT ![requests[i].page] = requests[i].content]
            /\ overtaken' = (overtaken \/ requests[i].late)
  PROVE  Truth'
<1> DEFINE n == Len(requests)
           Premise == open /\ load = NoLoad /\ ~ debounce /\ ~ undone /\ ~ overtaken /\ ~ astray
<1>1. SUFFICES ASSUME Premise, ~ overtaken'
               PROVE  /\ save.at = "sent" =>
                           LET r == requests'[Len(requests')] IN
                           /\ r.page = page /\ r.content = ApiFormat(store.canvas)
                           /\ r.applied =>
                                server'[page] = ApiFormat(store.canvas) /\ NowLate(Len(requests'))
                      /\ save.at # "sent" /\ store.status = "saved" =>
                           server'[page] = ApiFormat(store.canvas) /\ NowLate(0)
  <2>1. ~ overtaken' => ~ overtaken
    OBVIOUS
  <2> QED
    BY <2>1 DEF Truth, OthersLate, NowLate
<1>2. /\ save.at = "sent" =>
           /\ requests[n].page = page /\ requests[n].content = ApiFormat(store.canvas)
           /\ requests[n].applied => server[page] = ApiFormat(store.canvas) /\ OthersLate(n)
      /\ save.at # "sent" /\ store.status = "saved" =>
           server[page] = ApiFormat(store.canvas) /\ OthersLate(0)
  BY <1>1 DEF Truth
<1>3. n \in Nat /\ Len(requests') = n - 1 /\ (save.at = "sent" => i # n)
  BY RequestFacts DEF Gone, Heard
<1>4. \/ server' = server
      \/ /\ ~ requests[i].late
         /\ server' = [server EXCEPT ![requests[i].page] = requests[i].content]
  BY <1>1
<1>5. requests[i].page # page \/ requests[i].late => server'[page] = server[page]
  <2>1. page \in Pages /\ server \in [Pages -> ApiContent]
    BY <1>1 DEF TypeOK
  <2> QED
    BY <1>4, <2>1
<1> HIDE DEF Premise
<1>6. ASSUME NEW j \in 1 .. n - 1, NEW k, k = IF j < i THEN j ELSE j + 1
      PROVE  /\ k \in 1 .. n /\ k # i
             /\ requests'[j].page = requests[k].page /\ requests'[j].content = requests[k].content
             /\ requests'[j].applied => requests[k].applied
             /\ requests[k].late => requests'[j].late
  <2>1. k \in 1 .. n /\ k # i
    BY <1>3, <1>6
  <2> QED
    BY <1>6, <2>1 DEF Gone
<1>7. CASE save.at = "sent"
  <2>1. n - 1 \in 1 .. n - 1 /\ n = IF n - 1 < i THEN n - 1 ELSE (n - 1) + 1
    BY <1>3, <1>7
  <2>2. /\ requests'[n - 1].page = requests[n].page
        /\ requests'[n - 1].content = requests[n].content
        /\ requests'[n - 1].applied => requests[n].applied
    BY <1>6, <2>1
  <2>3. ASSUME requests[n].applied
        PROVE  server'[page] = ApiFormat(store.canvas) /\ NowLate(n - 1)
    <3>1. server[page] = ApiFormat(store.canvas) /\ OthersLate(n)
      BY <1>2, <1>7, <2>3
    <3>2. requests[i].page # page \/ requests[i].late
      BY <1>3, <1>7, <3>1 DEF OthersLate
    <3>3. ASSUME NEW j \in 1 .. n - 1, j # n - 1, requests'[j].page = page
          PROVE  requests'[j].late
      <4> DEFINE k == IF j < i THEN j ELSE j + 1
      <4>1. k \in 1 .. n /\ k # n
        BY <1>3, <3>3
      <4> HIDE DEF k
      <4>2. requests'[j].page = requests[k].page /\ (requests[k].late => requests'[j].late)
        BY <1>6 DEF k
      <4> QED
        BY <3>1, <3>3, <4>1, <4>2 DEF OthersLate
    <3> QED
      BY <1>3, <1>5, <3>1, <3>2, <3>3 DEF NowLate
  <2> QED
    BY <1>2, <1>3, <1>7, <2>2, <2>3
<1>8. CASE save.at # "sent" /\ store.status = "saved"
  <2>1. server[page] = ApiFormat(store.canvas) /\ OthersLate(0)
    BY <1>2, <1>8
  <2>2. requests[i].page # page \/ requests[i].late
    BY <1>3, <2>1 DEF OthersLate
  <2>3. ASSUME NEW j \in 1 .. n - 1, requests'[j].page = page
        PROVE  requests'[j].late
    <3> DEFINE k == IF j < i THEN j ELSE j + 1
    <3>1. k \in 1 .. n /\ k # 0
      BY <1>3, <2>3
    <3> HIDE DEF k
    <3>2. requests'[j].page = requests[k].page /\ (requests[k].late => requests'[j].late)
      BY <1>6 DEF k
    <3> QED
      BY <2>1, <2>3, <3>1, <3>2 DEF OthersLate
  <2> QED
    BY <1>3, <1>5, <1>8, <2>1, <2>2, <2>3 DEF NowLate
<1> QED
  BY <1>7, <1>8

\* The request whose answer is awaited has been applied: the API has what is
\* shown, and the requests before it of the page are late.
LEMMA AppliedTruth ==
  ASSUME TypeOK, Truth, NEW i \in 1 .. Len(requests), Applied(i), Heard(i), page \in Pages,
         page' = page, open' = open, load' = load, store' = store, save' = save,
         debounce' = debounce, undone' = undone, astray' = astray,
         server' = [server EXCEPT ![requests[i].page] = requests[i].content],
         overtaken' = (overtaken \/ requests[i].late)
  PROVE  Truth'
<1> DEFINE n == Len(requests)
<1>1. n \in Nat /\ Len(requests') = n /\ i = n /\ save.at = "sent" /\ server \in [Pages -> ApiContent]
  BY RequestFacts DEF Applied, Heard, TypeOK
<1>2. SUFFICES ASSUME open, load = NoLoad, ~ debounce, ~ undone, ~ overtaken, ~ astray
               PROVE  /\ requests'[n].page = page /\ requests'[n].content = ApiFormat(store.canvas)
                      /\ server'[page] = ApiFormat(store.canvas) /\ OthersLate(n)'
  <2>1. ~ overtaken' => ~ overtaken
    OBVIOUS
  <2> QED
    BY <1>1, <2>1 DEF Truth
<1>3. requests[n].page = page /\ requests[n].content = ApiFormat(store.canvas)
  BY <1>1, <1>2 DEF Truth
<1>4. requests'[n].page = page /\ requests'[n].content = ApiFormat(store.canvas)
  BY <1>1, <1>3 DEF Applied
<1>5. server'[page] = ApiFormat(store.canvas)
  BY <1>1, <1>3
<1>6. ASSUME NEW j \in 1 .. n, j # n, requests'[j].page = page
      PROVE  requests'[j].late
  <2>1. j < i /\ requests[j].page = requests[i].page
    BY <1>1, <1>3, <1>6 DEF Applied
  <2> QED
    BY <2>1 DEF Applied
<1> QED
  BY <1>1, <1>4, <1>5, <1>6 DEF OthersLate

LEMMA TruthStep ==
  ASSUME TypeOK, Shape, Truth, [Next]_vars
  PROVE  Truth'
<1> USE DEF editor, saving, api
<1>1. CASE SaveNow \/ FallbackSave \/ DebounceFires
  BY <1>1, SendsFacts, SendsTruth DEF SaveNow, FallbackSave, DebounceFires
<1>2. CASE Retry
  <2>1. save'.at # "sent" /\ store'.status # "saved"
    BY <1>2, StoreFacts DEF Retry, retrying, TypeOK, NoSave, Store
  <2> QED
    BY <2>1 DEF Truth
<1>3. CASE \E i \in DOMAIN requests : Apply(i)
  <2>1. PICK i \in 1 .. Len(requests) : Apply(i)
    BY <1>3, RequestFacts
  <2>2. /\ page' = page /\ open' = open /\ load' = load /\ store' = store /\ save' = save
        /\ debounce' = debounce /\ undone' = undone /\ astray' = astray
        /\ server' = [server EXCEPT ![requests[i].page] = requests[i].content]
        /\ overtaken' = (overtaken \/ requests[i].late)
    BY <2>1 DEF Apply
  <2>3. CASE Heard(i)
    <3>1. Applied(i)
      BY <2>1, <2>3, ApplyFacts
    <3>2. CASE open
      BY <2>2, <2>3, <3>1, <3>2, AppliedTruth DEF Shape
    <3>3. CASE ~ open
      BY <2>2, <3>3 DEF Truth
    <3> QED
      BY <3>2, <3>3
  <2>4. CASE ~ Heard(i)
    <3>1. Gone(i)
      BY <2>1, <2>4, ApplyFacts
    <3> QED
      BY <2>2, <2>4, <3>1, GoneTruth DEF Shape
  <2> QED
    BY <2>3, <2>4
<1>4. CASE \E i \in DOMAIN requests : Answer(i)
  <2> DEFINE n == Len(requests)
  <2>1. PICK i \in 1 .. n : Answer(i)
    BY <1>4, RequestFacts
  <2>2. n \in Nat /\ i = n /\ save.at = "sent" /\ requests[n].applied
    BY <2>1, RequestFacts DEF Answer, Heard
  <2>3. Gone(i)
    BY <2>1, RemoveAtGone DEF Answer
  <2>4. /\ page' = page /\ open' = open /\ load' = load /\ save' = NoSave /\ server' = server
        /\ debounce' = debounce /\ undone' = undone /\ astray' = astray /\ overtaken' = overtaken
        /\ store'.canvas = store.canvas
    BY <2>1, StoreFacts DEF Answer, Store
  <2>5. SUFFICES ASSUME open, load = NoLoad, ~ debounce, ~ undone, ~ overtaken, ~ astray
                 PROVE  server[page] = ApiFormat(store.canvas) /\ OthersLate(0)'
    BY <2>4 DEF Truth, NoSave
  <2>6. server[page] = ApiFormat(store.canvas) /\ OthersLate(n)
    BY <2>2, <2>5 DEF Truth
  <2>7. ASSUME NEW j \in 1 .. Len(requests'), requests'[j].page = page
        PROVE  requests'[j].late
    <3>1. j \in 1 .. n - 1 /\ j < i /\ j # n /\ j \in 1 .. n
      BY <2>2, <2>3 DEF Gone
    <3>2. requests'[j].page = requests[j].page /\ (requests[j].late => requests'[j].late)
      BY <2>3, <3>1 DEF Gone
    <3> QED
      BY <2>6, <2>7, <3>1, <3>2 DEF OthersLate
  <2> QED
    BY <2>4, <2>6, <2>7 DEF OthersLate
<1>5. CASE \E i \in DOMAIN requests : RequestFails(i)
  <2>1. PICK i \in 1 .. Len(requests) : RequestFails(i)
    BY <1>5, RequestFacts
  <2>2. /\ page' = page /\ open' = open /\ load' = load /\ server' = server
        /\ debounce' = debounce /\ undone' = undone /\ astray' = astray /\ overtaken' = overtaken
        /\ Gone(i)
    BY <2>1, RemoveAtGone DEF RequestFails
  <2>3. CASE Heard(i)
    <3>1. save'.at # "sent" /\ store'.status # "saved"
      BY <2>1, <2>3, StoreFacts DEF RequestFails, Store
    <3> QED
      BY <3>1 DEF Truth
  <2>4. CASE ~ Heard(i)
    <3>1. store' = store /\ save' = save
      BY <2>1, <2>4 DEF RequestFails
    <3> QED
      BY <2>2, <2>4, <3>1, GoneTruth DEF Shape
  <2> QED
    BY <2>3, <2>4
<1>6. CASE NetworkDown \/ CheckNetwork
  <2>1. store'.canvas = store.canvas /\ store'.status = store.status
    BY <1>6, StoreFacts DEF NetworkDown, CheckNetwork, Store
  <2> QED
    BY <1>6, <2>1 DEF NetworkDown, CheckNetwork, Truth, OthersLate
<1>7. CASE NetworkUp
  <2>1. /\ page' = page /\ load' = load /\ open' = open /\ server' = server
        /\ debounce' = debounce /\ astray' = astray /\ overtaken' = overtaken
    BY <1>7 DEF NetworkUp
  <2>2. CASE Sends
    BY <2>1, <2>2, SendsTruth
  <2>3. CASE /\ store' = [store EXCEPT !.online = TRUE] /\ undone' = undone
             /\ save' = save /\ requests' = requests
    <3>1. store'.canvas = store.canvas /\ store'.status = store.status
      BY <2>3, StoreFacts DEF Store
    <3> QED
      BY <2>1, <2>3, <3>1 DEF Truth, OthersLate
  <2> QED
    BY <1>7, <2>2, <2>3, NetworkUpFacts
<1>8. CASE Edit \/ UndoOrRedo \/ Loaded
  BY <1>8 DEF Edit, UndoOrRedo, Loaded, Truth
<1>9. CASE \E p \in Pages : OpenPage(p)
  <2>1. load' # NoLoad
    BY <1>9 DEF OpenPage, NoLoad
  <2> QED
    BY <2>1 DEF Truth
<1>10. CASE LoadReads
  <2>1. load' # NoLoad
    BY <1>10 DEF LoadReads, NoLoad
  <2> QED
    BY <2>1 DEF Truth
<1>11. CASE LoadFails \/ Leave
  BY <1>11 DEF LoadFails, Leave, Truth
<1>12. CASE UNCHANGED vars
  BY <1>12 DEF vars, Truth, OthersLate
<1> QED
  BY <1>1, <1>2, <1>3, <1>4, <1>5, <1>6, <1>7, <1>8, <1>9, <1>10, <1>11, <1>12 DEF Next

-----------------------------------------------------------------------------

LEMMA EditorInit == Init => EditorInv
<1> SUFFICES ASSUME Init
             PROVE  EditorInv
  OBVIOUS
<1>1. MaxRetries \in Nat /\ MaxActs \in Nat /\ MaxOpens \in Nat /\ MaxFaults \in Nat
  BY EditorAssumption DEF EditorAssumption
<1>2. /\ Empty \in Content
      /\ \A p \in Pages : ApiFormat([Empty EXCEPT !.of = p]) \in ApiContent
                         /\ ApiFormat([Empty EXCEPT !.of = p]).of = p
  <2>1. \A p \in Pages : [Empty EXCEPT !.of = p] \in Content /\ [Empty EXCEPT !.of = p].of = p
    BY FormatFacts DEF Empty, Content
  <2> QED
    BY <2>1, FormatFacts
<1>3. /\ store \in Store /\ ~ store.dirty /\ server \in [Pages -> ApiContent]
      /\ \A p \in Pages : server[p].of = p
  BY <1>2 DEF Init, Store, Statuses
<1>4. TypeOK
  <2>1. /\ load \in [at : {"none", "sent", "read"}, content : ApiContent]
        /\ save \in [at : {"none", "sent", "waits"}, retries : 0 .. MaxRetries]
        /\ save.at = "none"
    BY <1>1, FormatFacts DEF Init, NoSave
  <2>2. count \in [acts : 0 .. MaxActs, opens : 0 .. MaxOpens, faults : 0 .. MaxFaults]
    BY <1>1 DEF Init
  <2>3. requests \in Seq(Request) /\ \A i \in DOMAIN requests : FALSE
    BY DEF Init
  <2> QED
    BY <1>3, <2>1, <2>2, <2>3 DEF Init, TypeOK
<1>5. Shape /\ Own /\ Truth
  BY <1>3 DEF Init, Shape, Own, Truth, NoLoad
<1> QED
  BY <1>4, <1>5 DEF EditorInv

LEMMA EditorInvariant == Spec => []EditorInv
<1>1. EditorInv /\ [Next]_vars => EditorInv'
  BY TypeStep, ShapeStep, OwnStep, TruthStep DEF EditorInv
<1> QED
  BY EditorInit, <1>1, PTL DEF Spec

\* Whatever the editor does, its state keeps its types, and only an answer
\* that is still awaited is on its way: a new save forgets the one before
\* (switchMap).
THEOREM EditorTypeCorrect == Spec => []TypeOK
<1>1. EditorInv => TypeOK
  BY DEF EditorInv
<1> QED
  BY <1>1, EditorInvariant, PTL

\* As long as no save was pending when another screen was opened, none failed
\* to load or was changed before it had been loaded, and undo stayed within
\* the screen, the API gets for a screen only the screen's own content.
THEOREM EditorOwnContent == Spec => []OwnContent
<1>1. EditorInv => OwnContent
  BY DEF EditorInv, Own, OwnContent
<1> QED
  BY <1>1, EditorInvariant, PTL

\* When no timer and no request is left, "saved" means that the API has what a
\* save sends of the canvas shown, but for undo and redo and saves applied in
\* the wrong order.
THEOREM EditorSavedTellsTruth == Spec => []SavedTellsTruth
<1>1. EditorInv => SavedTellsTruth
  <2> SUFFICES ASSUME EditorInv, Quiet, open, store.status = "saved",
                      ~ undone, ~ overtaken, ~ astray
               PROVE  server[page] = ApiFormat(store.canvas)
    BY DEF SavedTellsTruth
  <2>1. save.at # "sent"
    BY DEF EditorInv, TypeOK, Quiet
  <2> QED
    BY <2>1 DEF EditorInv, Truth, Quiet
<1> QED
  BY <1>1, EditorInvariant, PTL
=============================================================================
