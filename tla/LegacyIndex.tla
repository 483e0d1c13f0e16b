---------------------------- MODULE LegacyIndex ----------------------------
(***************************************************************************)
(* The image index of the event application (facefindr/): photographers    *)
(* upload, directories are scanned, and callers search by a face.          *)
(*                                                                         *)
(* Uploads and searches run in two pools of threads; a scan runs threads   *)
(* of its own, each of its files a call here.  An image is named by the    *)
(* call that adds it (a fresh uuid each time), a face by its image and the *)
(* person it shows: two faces match when they show the same person.        *)
(***************************************************************************)
EXTENDS LegacyBase

CONSTANTS
  UploadWorkers,   \* threads of upload_executor
  SearchWorkers,   \* threads of search_executor
  MaxResults,      \* how many matches a search answers at most
  AnyEvent         \* no event: a search in all of them, an image of none

VARIABLES
  details,   \* the cuser_details table, by the call that added the row
  cusers,    \* the cusers table
  history,   \* the cuser_event_history table
  images,    \* the images table
  faces,     \* the faces table
  lost       \* history: the faces that could not be stored

indexVars == <<details, cusers, history, images, faces, lost>>
rowVars == <<images, faces, lost>>

ASSUME PoolsAssumption == UploadWorkers \in Nat \ {0} /\ SearchWorkers \in Nat \ {0}
ASSUME MaxResultsAssumption == MaxResults \in Nat

Indexing == {"upload", "index", "urlSearch"}
Searching == {"search", "urlSearch"}
ThreadPlaces == {"info", "add", "face", "mark", "snapshot", "format"}

IndexTypeOK ==
  /\ DOMAIN images \subseteq Calls \cup DOMAIN scene.images
  /\ \A i \in DOMAIN images : /\ DOMAIN images[i] = {"source", "event", "processed"}
                              /\ images[i].processed \in BOOLEAN
  /\ \A f \in faces : f[1] \in DOMAIN images
  /\ history \subseteq Calls /\ details \subseteq Calls

IndexInit ==
  /\ details = {} /\ history = {}
  /\ cusers = scene.cusers
  /\ images = scene.images
  /\ faces = scene.faces
  /\ lost = {}

-----------------------------------------------------------------------------
\* create_cuser: the details, then the user, in two transactions.
CreateCuser(c) ==
  /\ Call(c).op = "createCuser"
  /\ \/ pc[c] = "start" /\ details' = details \cup {c} /\ Move(c, "insert") /\ UNCHANGED cusers
     \/ /\ pc[c] = "insert"
        /\ cusers' = cusers \cup {Call(c).cuser}
        /\ Move(c, "done") /\ UNCHANGED details
  /\ UNCHANGED <<shared, history, rowVars>>

\* upload-to-db up to its job: the look-ups, the history, the object.
Upload(c) ==
  /\ Call(c).op = "upload"
  /\ \/ /\ pc[c] = "start"
        /\ Move(c, IF Call(c).cuser \in cusers /\ Call(c).event \in events
                   THEN "history" ELSE "failed")
        /\ UNCHANGED <<history, bucket>>
     \/ pc[c] = "history" /\ history' = history \cup {c} /\ Move(c, "object") /\ UNCHANGED bucket
     \/ pc[c] = "object" /\ Put(c) /\ Move(c, "queued") /\ UNCHANGED history
  /\ UNCHANGED <<events, details, cusers, rowVars>>

\* search-image and search-image-url hand their work to the pool.
Queue(c) ==
  /\ At(c, "start", Searching)
  /\ Move(c, "queued")
  /\ UNCHANGED <<shared, indexVars>>

Busy(ops) == Cardinality({c \in Calls : pc[c] \in ThreadPlaces /\ Call(c).op \in ops})

ThreadFree(c) ==
  CASE Call(c).op = "upload"    -> Busy({"upload"}) < UploadWorkers
    [] Call(c).op \in Searching -> Busy(Searching) < SearchWorkers
    [] OTHER                    -> TRUE

Ready(c) ==
  \/ pc[c] = "queued" /\ ThreadFree(c)
  \/ At(c, "start", {"index", "searchImage"})

\* What a call answers, and what its thread has still to do.
Result(todo, answer, bare) == [todo |-> todo, answer |-> answer, bare |-> bare]
Empty == Result({}, {}, {})

\* Where a call stands when it has its matches: search-image-url awaits an answer
\* that process_image_for_search_async does not return.
EndOf(c) ==
  CASE Call(c).op = "urlSearch"   -> "failed"
    [] Call(c).op = "searchImage" -> "delete"
    [] OTHER                      -> "done"

\* process_image reads the image; to search it by a file it only finds its faces.
ReadImage(c) ==
  /\ Ready(c)
  /\ IF Call(c).op \in Indexing THEN MoveWith(c, "info", Empty)
     ELSE MoveWith(c, IF Call(c).people = {} THEN EndOf(c) ELSE "snapshot", Empty)
  /\ UNCHANGED <<shared, indexVars>>

-----------------------------------------------------------------------------
(* process_image.                                                          *)

\* img_url: an upload's object has a name of its own.
SourceOf(c) == IF Call(c).op = "upload" THEN c ELSE Call(c).source

\* Mutant: the stored metadata is not parsed a second time, so the check does
\* find the image, whatever event it was indexed for.
ImageInfoRead(c) == {i \in DOMAIN images : images[i].source = SourceOf(c)}

\* get_image_info: the driver has parsed the row's metadata, so parsing it again
\* raises, and the answer is None whether there is a row or not.
ImageInfo(c) == {}

\* get_faces_by_image.
FacesOf(source) == {f \in faces \ scene.corrupt : images[f[1]].source = source}

CheckProcessed(c) ==
  /\ pc[c] = "info"
  /\ IF \E i \in ImageInfo(c) : images[i].processed
     THEN MoveWith(c, EndOf(c), Result({}, FacesOf(SourceOf(c)), {}))
     ELSE Move(c, "add")
  /\ UNCHANGED <<shared, indexVars>>

\* Mutant: the row is inserted as processed.
NewImageProcessed(c) == [source |-> SourceOf(c), event |-> Call(c).event, processed |-> TRUE]

NewImage(c) == [source |-> SourceOf(c), event |-> Call(c).event, processed |-> FALSE]

AfterFace(rest) == IF rest = {} THEN "mark" ELSE "face"

\* add_image, under the foreign keys of images, and the detection of the faces.
AddImage(c) ==
  /\ pc[c] = "add"
  /\ IF Call(c).event \in events \cup {AnyEvent}
     THEN /\ images' = Extend(images, c, NewImage(c))
          /\ MoveWith(c, AfterFace(Call(c).people), Result(Call(c).people, {}, {}))
     ELSE Move(c, EndOf(c)) /\ UNCHANGED images
  /\ UNCHANGED <<shared, details, cusers, history, faces, lost>>

\* add_face; it is refused when the image has been deleted meanwhile.
AddFace(c) ==
  /\ pc[c] = "face"
  /\ \E p \in seen[c].todo :
       LET rest == seen[c].todo \ {p}
           face == <<c, p>>
       IN  IF c \in DOMAIN images
           THEN /\ faces' = faces \cup {face} /\ UNCHANGED lost
                /\ MoveWith(c, AfterFace(rest), Result(rest, seen[c].answer \cup {face}, {}))
           ELSE /\ lost' = lost \cup {face} /\ UNCHANGED faces
                /\ MoveWith(c, AfterFace(rest), Result(rest, seen[c].answer, {}))
  /\ UNCHANGED <<shared, details, cusers, history, images>>

\* A face that fails is skipped.
LoseFace(c) ==
  /\ pc[c] = "face"
  /\ \E p \in seen[c].todo :
       LET rest == seen[c].todo \ {p} IN
         /\ lost' = lost \cup {<<c, p>>}
         /\ Fault(c, AfterFace(rest), Result(rest, seen[c].answer, {}))
  /\ UNCHANGED <<shared, details, cusers, history, images, faces>>

\* mark_image_processed, an update of no row when the image is gone.
MarkProcessed(c) ==
  /\ pc[c] = "mark"
  /\ images' = IF c \in DOMAIN images THEN [images EXCEPT ![c].processed = TRUE] ELSE images
  /\ Move(c, IF Call(c).op = "urlSearch" /\ seen[c].answer # {} THEN "snapshot" ELSE EndOf(c))
  /\ UNCHANGED <<shared, details, cusers, history, faces, lost>>

\* Anything else that raises in process_image, and what does in the search, is
\* logged, and the answer is that there are no faces.
JobFails(c) ==
  /\ Ready(c) \/ pc[c] \in {"add", "mark", "snapshot"}
  /\ Fault(c, EndOf(c), Empty)
  /\ UNCHANGED <<shared, indexVars>>

-----------------------------------------------------------------------------
(* Searching, and the upkeep of the index.                                 *)

\* get_all_face_embeddings, get_face_embeddings_by_event_id.
Candidates(e) == {f \in faces \ scene.corrupt : e = AnyEvent \/ images[f[1]].event = e}

Matches(c) == {f \in Candidates(Call(c).event) : f[2] \in Call(c).people}

\* The best of the matches.
Snapshot(c) ==
  /\ pc[c] = "snapshot"
  /\ \E best \in SUBSET Matches(c) :
       /\ Cardinality(best) <= MaxResults
       /\ Cardinality(best) = MaxResults \/ best = Matches(c)
       /\ MoveWith(c, IF best = {} \/ Call(c).op = "searchImage" THEN EndOf(c) ELSE "format",
                   Result(best, {}, {}))
  /\ UNCHANGED <<shared, indexVars>>

\* get_image_by_id for one match after the other; its image may be gone.
Format(c) ==
  /\ pc[c] = "format"
  /\ \E f \in seen[c].todo :
       LET rest == seen[c].todo \ {f}
           bare == IF f[1] \in DOMAIN images THEN {} ELSE {f}
       IN  MoveWith(c, IF rest = {} THEN EndOf(c) ELSE "format",
                    Result(rest, seen[c].answer \cup {f}, seen[c].bare \cup bare))
  /\ UNCHANGED <<shared, indexVars>>

\* get_image_by_id fails: the match is shown without its image.
FormatBare(c) ==
  /\ pc[c] = "format"
  /\ \E f \in seen[c].todo :
       LET rest == seen[c].todo \ {f}
       IN  Fault(c, IF rest = {} THEN EndOf(c) ELSE "format",
                 Result(rest, seen[c].answer \cup {f}, seen[c].bare \cup {f}))
  /\ UNCHANGED <<shared, indexVars>>

\* delete_image_and_faces, for delete_image_from_db and for search_image, which
\* clears away its query; a face that its image's job adds meanwhile refuses it.
DeleteImage(c) ==
  /\ At(c, "start", {"delete"}) \/ At(c, "delete", {"searchImage"})
  /\ LET i == Call(c).image IN
       \/ /\ images' = [j \in DOMAIN images \ {i} |-> images[j]]
          /\ faces' = {f \in faces : f[1] # i}
          /\ Move(c, "done")
       \/ i \in Calls /\ pc[i] = "face" /\ Move(c, "failed") /\ UNCHANGED <<images, faces>>
  /\ UNCHANGED <<shared, details, cusers, history, lost>>

ClearCorruptedFaces(c) ==
  /\ At(c, "start", {"clear"})
  /\ faces' = faces \ scene.corrupt
  /\ Move(c, "done")
  /\ UNCHANGED <<shared, details, cusers, history, images, lost>>

IndexStep(c) ==
  \/ CreateCuser(c) \/ Upload(c) \/ Queue(c) \/ ReadImage(c)
  \/ CheckProcessed(c) \/ AddImage(c) \/ AddFace(c) \/ LoseFace(c) \/ MarkProcessed(c)
  \/ JobFails(c) \/ Snapshot(c) \/ Format(c) \/ FormatBare(c)
  \/ DeleteImage(c) \/ ClearCorruptedFaces(c)

-----------------------------------------------------------------------------
(* Properties.                                                             *)

\* An image that is marked as processed has every face that was found in it,
\* but for those whose own insert failed: a worker that dies, or fails, between
\* add_image and mark_image_processed leaves the image unmarked.
ProcessedMeansIndexed ==
  \A c \in Calls \cap DOMAIN images : images[c].processed =>
    \A p \in Call(c).people : <<c, p>> \in faces \cup lost

EventOf(i) == IF i \in Calls THEN Call(i).event ELSE scene.images[i].event

\* What an upload, a scan or a search in one event answers are faces of images of
\* that event, and never those of a query that was searched by its URL, which the
\* index keeps; a match is shown without its image only when that was deleted
\* or could not be read.
AnswersOfEvent ==
  \A c \in Calls : (pc[c] = "done" /\ Call(c).op \in {"upload", "index", "search"}) =>
    /\ Call(c).event # AnyEvent => \A f \in seen[c].answer : EventOf(f[1]) = Call(c).event
    /\ \A f \in seen[c].bare : f[1] \notin DOMAIN images \/ c \in faulted
=============================================================================
