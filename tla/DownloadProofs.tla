--------------------------- MODULE DownloadProofs ---------------------------
(***************************************************************************)
(* Proofs about downloads.  About SongPool, for any songs, links, engines, *)
(* names and numbers of requests: what the pool holds, and that the        *)
(* downloads implement SongRequests.  About DownloadWorker, for any number *)
(* of downloads, any size of the executor and both modes: when the         *)
(* concierge may trust what it hears of a job.                             *)
(***************************************************************************)
EXTENDS SongPool, DownloadWorker, SequenceTheorems, TLAPS

LEMMA Given ==
  /\ NameOf \in [Songs -> Names] /\ Part \in Copies /\ MaxEvents \in Nat
  /\ "" \notin Copies /\ "local" \notin Songs
BY SongPoolAssumption DEF SongPoolAssumption

LEMMA AskTypes ==
  /\ NoAsk.songs = {} /\ NoAsk.source = "local"
  /\ \A a \in Asks : /\ a.source \in Songs \cup {"local"} /\ a.songs \subseteq Songs
                     /\ a.engines \in Seq(Engines)
  /\ \A a, b \in Asks : a.source = b.source /\ a.source # "local" => a.songs = b.songs
<1>1. Asks \subseteq [source : Songs \cup {"local"}, songs : SUBSET Songs, titled : BOOLEAN,
                      engines : Seq(Engines)]
  BY SongPoolAssumption DEF SongPoolAssumption
<1>2. \A a, b \in Asks : a.source = b.source /\ a.source # "local" => a.songs = b.songs
  BY SongPoolAssumption DEF SongPoolAssumption
<1> QED
  BY <1>1, <1>2 DEF NoAsk

-----------------------------------------------------------------------------
(* The fields of a job after each kind of step.                             *)

LEMMA JobFields ==
  \A x \in JobRecords :
    /\ x.status \in {"none", "pending", "processing", "completed", "failed"}
    /\ x.ask \in Asks \cup {NoAsk} /\ x.step \in Steps /\ x.left \in Seq(Engines)
    /\ x.folder \in SUBSET Files /\ x.file \in Files \cup {None}
    /\ x.path \in Paths \cup {NoPath} /\ x.track \in Rows \cup {NoTrack} /\ x.count \in {0, 1}
BY DEF JobRecords

LEMMA NoJobFields ==
  /\ NoJob \in JobRecords /\ NoJob.status = "none" /\ NoJob.step = "idle"
  /\ NoJob.folder = {} /\ NoJob.count = 0 /\ NoJob.ask = NoAsk
BY DEF NoJob, JobRecords, Steps

LEMMA EndedJob ==
  ASSUME NEW ask \in Asks \cup {NoAsk}, NEW status \in {"pending", "completed", "failed"}
  PROVE  LET y == Ended(ask, status)
         IN /\ y \in JobRecords
            /\ y.status = status /\ y.ask = ask /\ y.step = "idle"
            /\ y.folder = {} /\ y.count = 0
BY NoJobFields DEF Ended, JobRecords

LEMMA RaisedJob ==
  ASSUME NEW ask \in Asks \cup {NoAsk},
         NEW status \in {"none", "pending", "processing", "completed", "failed"}
  PROVE  LET y == Abandoned(ask, status)
         IN /\ y \in JobRecords
            /\ y.status = status /\ y.ask = ask /\ y.step = "raised"
            /\ y.folder = {} /\ y.count = 0
BY NoJobFields DEF Abandoned, JobRecords, Steps

LEMMA AskedJob ==
  ASSUME NEW a \in Asks
  PROVE  LET y == [NoJob EXCEPT !.status = "pending", !.ask = a, !.step = "queued"]
         IN /\ y \in JobRecords
            /\ y.status = "pending" /\ y.ask = a /\ y.step = "queued"
            /\ y.folder = {} /\ y.count = 0
BY NoJobFields DEF Steps, JobRecords

LEMMA BegunJob ==
  ASSUME NEW x \in JobRecords
  PROVE  LET y == [x EXCEPT !.status = "processing", !.step = "look"]
         IN /\ y \in JobRecords
            /\ y.status = "processing" /\ y.step = "look"
            /\ y.ask = x.ask /\ y.folder = x.folder /\ y.count = x.count
BY DEF Steps, JobRecords

LEMMA FetchingJob ==
  ASSUME NEW x \in JobRecords, NEW left \in Seq(Engines)
  PROVE  LET y == [x EXCEPT !.step = "fetch", !.left = left]
         IN /\ y \in JobRecords
            /\ y.status = x.status /\ y.step = "fetch"
            /\ y.ask = x.ask /\ y.folder = x.folder /\ y.count = x.count
BY DEF Steps, JobRecords

LEMMA FetchedJob ==
  ASSUME NEW x \in JobRecords, NEW got \in SUBSET Files
  PROVE  LET y == [x EXCEPT !.step = "files", !.folder = @ \cup got]
         IN /\ y \in JobRecords
            /\ y.status = x.status /\ y.step = "files"
            /\ y.ask = x.ask /\ y.folder = x.folder \cup got /\ y.count = x.count
BY DEF Steps, JobRecords

LEMMA MissedJob ==
  ASSUME NEW x \in JobRecords, NEW part \in SUBSET Files, NEW left \in Seq(Engines)
  PROVE  LET y == [x EXCEPT !.folder = @ \cup part, !.left = left]
         IN /\ y \in JobRecords
            /\ y.status = x.status /\ y.step = x.step
            /\ y.ask = x.ask /\ y.folder = x.folder \cup part /\ y.count = x.count
BY DEF Steps, JobRecords

LEMMA LessJob ==
  ASSUME NEW x \in JobRecords, NEW f
  PROVE  LET y == [x EXCEPT !.folder = @ \ {f}]
         IN /\ y \in JobRecords
            /\ y.status = x.status /\ y.step = x.step
            /\ y.ask = x.ask /\ y.folder = x.folder \ {f} /\ y.count = x.count
BY DEF Steps, JobRecords

LEMMA CountedJob ==
  ASSUME NEW x \in JobRecords, NEW f
  PROVE  LET y == [x EXCEPT !.step = "files", !.folder = @ \ {f}, !.count = 1, !.file = None,
                            !.path = NoPath, !.track = NoTrack]
         IN /\ y \in JobRecords
            /\ y.status = x.status /\ y.step = "files"
            /\ y.ask = x.ask /\ y.folder = x.folder \ {f} /\ y.count = 1
BY DEF Steps, JobRecords

LEMMA TakenJob ==
  ASSUME NEW x \in JobRecords,
         NEW step \in {"placing", "restoring"}, NEW f \in Files, NEW path \in Paths,
         NEW r \in Rows \cup {NoTrack}
  PROVE  LET y == [x EXCEPT !.step = step, !.file = f, !.path = path, !.track = r]
         IN /\ y \in JobRecords
            /\ y.status = x.status /\ y.step = step
            /\ y.ask = x.ask /\ y.folder = x.folder /\ y.count = x.count
            /\ y.file = f /\ y.path = path /\ y.track = r
BY DEF Steps, JobRecords

LEMMA PlacedJob ==
  ASSUME NEW x \in JobRecords
  PROVE  LET y == [x EXCEPT !.step = "placed"]
         IN /\ y \in JobRecords
            /\ y.status = x.status /\ y.step = "placed"
            /\ y.ask = x.ask /\ y.folder = x.folder /\ y.count = x.count
            /\ y.file = x.file /\ y.path = x.path /\ y.track = x.track
BY DEF Steps, JobRecords

-----------------------------------------------------------------------------
(* What requests and rows have to do with each other: what an engine        *)
(* brought is of the link, and a counted file is of a song with a row.      *)

Meant(f, ask) == f.source = ask.source /\ f.song \in ask.songs
Fits(r, f) == r.song = f.song \/ (r.source = f.source /\ r.source # "local")

JobInv(x, known) ==
  /\ x.step = "idle" <=> x.status \notin {"pending", "processing"}
  /\ x.step = "queued" => x.status = "pending"
  /\ x.status = "pending" => x.step \in {"queued", "raised"}
  /\ x.step # "idle" => x.ask \in Asks
  /\ \A f \in x.folder : Meant(f, x.ask)
  /\ x.count = 1 => x.ask.songs \cap known # {}
  /\ x.step \in {"placing", "placed", "restoring"} =>
       x.file \in Files /\ x.path \in Paths /\ Meant(x.file, x.ask)
  /\ x.step = "restoring" =>
       /\ x.track \in Rows /\ x.track.path = x.path /\ Fits(x.track, x.file)
       /\ x.track.song \in x.ask.songs \cap known

RowInv(r, known) ==
  /\ r.song \in known
  /\ r.source # "local" => \A a \in Asks : a.source = r.source => r.song \in a.songs

Meaning ==
  /\ \A j \in Jobs : JobInv(job[j], ever)
  /\ \A r \in rows : RowInv(r, ever)

LEMMA JobInvGrows ==
  ASSUME NEW x, NEW known, NEW more, known \subseteq more, JobInv(x, known)
  PROVE  JobInv(x, more)
BY DEF JobInv

LEMMA RowInvGrows ==
  ASSUME NEW r, NEW known, NEW more, known \subseteq more, RowInv(r, known)
  PROVE  RowInv(r, more)
BY DEF RowInv

(* A job that is over asks nothing any more. *)
LEMMA EndedInv ==
  ASSUME NEW ask \in Asks \cup {NoAsk}, NEW status \in {"completed", "failed"}, NEW known
  PROVE  Ended(ask, status) \in JobRecords /\ JobInv(Ended(ask, status), known)
BY EndedJob DEF JobInv

LEMMA FileTypes ==
  \A f \in Files : f.song \in Songs /\ f.copy \in Copies /\ f.source \in Songs \cup {"local"}
BY DEF Files

LEMMA RowTypes ==
  /\ \A r \in Rows : r.song \in Songs /\ r.copy \in Copies /\ r.path \in Paths
                     /\ r.source \in Songs \cup {"local"}
  /\ \A f \in Files, p \in Paths :
       /\ RowFor(f, p) \in Rows /\ RowFor(f, p).song = f.song
       /\ RowFor(f, p).source = f.source /\ RowFor(f, p).path = p
BY FileTypes DEF Rows, RowFor

(* A track that is found for a request is of a song it asks for. *)
LEMMA KnownIsMeant ==
  ASSUME Meaning, NEW a \in Asks, NEW r \in rows, r \in KnownBefore(a)
  PROVE  r.song \in a.songs \cap ever
<1>1. RowInv(r, ever)
  BY DEF Meaning
<1>2. CASE r \in BySource(a.source)
  BY <1>1, <1>2 DEF BySource, RowInv
<1>3. CASE \E s \in a.songs : r \in BySong(s)
  BY <1>1, <1>3 DEF BySong, RowInv
<1> QED
  BY <1>2, <1>3 DEF KnownBefore

LEMMA KnownFits ==
  ASSUME Meaning, NEW a \in Asks, NEW f, Meant(f, a), NEW r \in rows, r \in Known(f)
  PROVE  Fits(r, f) /\ r.song \in a.songs \cap ever
<1>1. RowInv(r, ever)
  BY DEF Meaning
<1>2. CASE r \in BySource(f.source)
  BY <1>1, <1>2 DEF BySource, RowInv, Meant, Fits
<1>3. CASE r.song = f.song
  BY <1>1, <1>3 DEF RowInv, Meant, Fits
<1> QED
  BY <1>2, <1>3 DEF Known, ByContent, BySong

LEMMA PathTypes == \A f \in Files : PathFor(f) \in Paths
BY FileTypes, Given DEF PathFor, Paths

LEMMA Tails ==
  /\ \A s \in Seq(Engines) : s # <<>> => Tail(s) \in Seq(Engines)
  /\ <<"query">> \in Seq(Engines)
<1>1. \A s \in Seq(Engines) : s # <<>> => Tail(s) \in Seq(Engines)
  BY HeadTailProperties
<1>2. \A e \in Engines : <<e>> \in Seq(Engines)
  OBVIOUS
<1>3. "query" \in Engines
  BY DEF Engines
<1> QED
  BY <1>1, <1>2, <1>3

(* What a thread makes of its job. *)
LEMMA ThreadJob ==
  ASSUME TypeOK, Meaning, NEW j \in Jobs, ThreadStep(j)
  PROVE  /\ job'[j] \in JobRecords /\ JobInv(job'[j], ever') /\ ever \subseteq ever'
         /\ job' = [job EXCEPT ![j] = job'[j]]
<1> DEFINE x == job[j]
           ask == x.ask
<1>1. x \in JobRecords /\ JobInv(x, ever) /\ ask \in Asks \cup {NoAsk}
  BY JobFields DEF TypeOK, Meaning
<1>2. ASSUME NEW y, Becomes(j, y)
      PROVE  job'[j] = y /\ job' = [job EXCEPT ![j] = job'[j]]
  BY <1>2 DEF Becomes, TypeOK
<1>3. ASSUME NEW status \in {"completed", "failed"}, End(j, status)
      PROVE  job'[j] \in JobRecords /\ JobInv(job'[j], ever') /\ job' = [job EXCEPT ![j] = job'[j]]
  BY <1>1, <1>2, <1>3, EndedInv DEF End
<1>r. ASSUME x.step # "idle", Raised(j)
      PROVE  /\ job'[j] \in JobRecords /\ JobInv(job'[j], ever)
             /\ job' = [job EXCEPT ![j] = job'[j]]
  <2> DEFINE y == Abandoned(ask, x.status)
  <2>1. y \in JobRecords /\ y.status = x.status /\ y.ask = ask /\ y.step = "raised"
        /\ y.folder = {} /\ y.count = 0
    BY <1>1, RaisedJob, JobFields
  <2>2. JobInv(y, ever)
    BY <1>1, <1>r, <2>1 DEF JobInv
  <2> HIDE DEF y
  <2>3. Becomes(j, y)
    BY <1>r DEF Raised, y
  <2> QED
    BY <1>2, <2>1, <2>2, <2>3
<1>f. ASSUME x.step # "idle", Fails(j), UNCHANGED ever
      PROVE  job'[j] \in JobRecords /\ JobInv(job'[j], ever') /\ job' = [job EXCEPT ![j] = job'[j]]
  BY <1>3, <1>r, <1>f DEF Fails
<1>4. CASE Begin(j)
  <2> DEFINE y == [x EXCEPT !.status = "processing", !.step = "look"]
  <2>1. y \in JobRecords /\ y.status = "processing" /\ y.step = "look"
        /\ y.ask = ask /\ y.folder = x.folder /\ y.count = x.count
    BY <1>1, BegunJob
  <2>2. JobInv(y, ever)
    BY <1>1, <1>4, <2>1 DEF JobInv, Begin, Served, At
  <2> QED
    BY <1>2, <1>4, <2>1, <2>2 DEF Begin
<1>5. CASE Refuse(j) \/ GiveUp(j)
  BY <1>f, <1>5 DEF Refuse, GiveUp, Served, At
<1>6. CASE Look(j)
  <2>1. CASE End(j, "completed")
    BY <1>3, <1>6, <2>1 DEF Look
  <2>r. CASE Raised(j)
    BY <1>r, <1>6, <2>r DEF Look, At
  <2>2. CASE Becomes(j, [x EXCEPT !.step = "fetch", !.left = ask.engines])
    <3> DEFINE y == [x EXCEPT !.step = "fetch", !.left = ask.engines]
    <3>1. ask \in Asks /\ x.status = "processing"
      BY <1>1, <1>6, JobFields DEF Look, At, JobInv
    <3>2. y \in JobRecords /\ y.status = "processing" /\ y.step = "fetch"
          /\ y.ask = ask /\ y.folder = x.folder /\ y.count = x.count
      BY <1>1, <3>1, FetchingJob, AskTypes
    <3>3. JobInv(y, ever)
      BY <1>1, <3>1, <3>2 DEF JobInv
    <3> QED
      BY <1>2, <1>6, <2>2, <3>2, <3>3 DEF Look
  <2> QED
    BY <1>6, <2>1, <2>r, <2>2 DEF Look
<1>7. CASE Attempt(j)
  <2>0. ask \in Asks /\ x.status = "processing" /\ x.step = "fetch" /\ UNCHANGED ever
    BY <1>1, <1>7, JobFields DEF Attempt, At, JobInv
  <2>1. ASSUME NEW c \in SUBSET Copies PROVE Produced(j, c) \in SUBSET Files
                                             /\ \A f \in Produced(j, c) : Meant(f, ask)
    <3>1. ask.songs \subseteq Songs /\ ask.source \in Songs \cup {"local"}
      BY <2>0, AskTypes
    <3> QED
      BY <3>1 DEF Produced, Files, Meant
  <2>a. \A part \in SUBSET Files, left \in Seq(Engines) :
          LET y == [x EXCEPT !.folder = @ \cup part, !.left = left]
          IN /\ y \in JobRecords /\ y.status = x.status /\ y.step = x.step
             /\ y.ask = ask /\ y.folder = x.folder \cup part /\ y.count = x.count
    BY <1>1 DEF JobRecords, Steps
  <2>2. ASSUME NEW got \in SUBSET Produced(j, Copies \ {Part}),
               Delivers(j, got)
        PROVE  job'[j] \in JobRecords /\ JobInv(job'[j], ever)
    <3> DEFINE y == [x EXCEPT !.step = "files", !.folder = @ \cup got]
    <3>1. got \in SUBSET Files /\ \A f \in got : Meant(f, ask)
      BY <2>1
    <3>2. y \in JobRecords /\ y.status = x.status /\ y.step = "files"
          /\ y.ask = ask /\ y.folder = x.folder \cup got /\ y.count = x.count
      BY <1>1, <3>1, FetchedJob
    <3>3. JobInv(y, ever)
      BY <1>1, <2>0, <3>1, <3>2 DEF JobInv
    <3> QED
      BY <1>2, <2>2, <3>2, <3>3 DEF Delivers
  <2>3. ASSUME NEW part \in SUBSET Parts(j),
               NEW left \in {Tail(x.left), <<"query">>, <<>>},
               x.left # <<>>, Leaves(j, part, left)
        PROVE  job'[j] \in JobRecords /\ JobInv(job'[j], ever)
    <3> DEFINE y == [x EXCEPT !.folder = @ \cup part, !.left = left]
    <3>1. part \in SUBSET Files /\ \A f \in part : Meant(f, ask)
      BY <2>1, Given DEF Parts
    <3>2. left \in Seq(Engines)
      <4>1. x.left \in Seq(Engines)
        BY <1>1, JobFields
      <4>2. Tail(x.left) \in Seq(Engines) /\ <<"query">> \in Seq(Engines)
        BY <2>3, <4>1, Tails
      <4>3. <<>> \in Seq(Engines)
        OBVIOUS
      <4> QED
        BY <4>2, <4>3
    <3>3. y \in JobRecords /\ y.status = x.status /\ y.step = x.step
          /\ y.ask = ask /\ y.folder = x.folder \cup part /\ y.count = x.count
      BY <2>a, <3>1, <3>2
    <3>4. JobInv(y, ever)
      BY <1>1, <2>0, <3>1, <3>3 DEF JobInv
    <3> QED
      BY <1>2, <2>3, <3>3, <3>4 DEF Leaves
  <2>4. Whole(j) = Produced(j, Copies \ {Part}) /\ Rest(j) = Tail(x.left)
    BY DEF Whole, Rest
  <2>5. job'[j] \in JobRecords /\ JobInv(job'[j], ever)
    <3>1. CASE FetchRemote(j)
      BY <1>7, <2>2, <2>3, <2>4, <3>1 DEF FetchRemote, Attempt
    <3>2. CASE RunCommand(j)
      BY <1>7, <2>2, <2>3, <2>4, <3>2 DEF RunCommand, Attempt
    <3>3. CASE RunYtdlp(j)
      BY <1>7, <2>2, <2>3, <2>4, <3>3 DEF RunYtdlp, Attempt
    <3> QED
      BY <1>7, <3>1, <3>2, <3>3 DEF Attempt
  <2>6. \E y : Becomes(j, y)
    BY <1>7 DEF Attempt, FetchRemote, RunCommand, RunYtdlp, Delivers, Leaves
  <2> QED
    BY <1>2, <2>0, <2>5, <2>6
<1>8. CASE Unreadable(j)
  <2>1. PICK f \in x.folder : Becomes(j, [x EXCEPT !.folder = @ \ {f}])
    BY <1>8 DEF Unreadable
  <2> DEFINE y == [x EXCEPT !.folder = @ \ {f}]
  <2>2. y \in JobRecords /\ y.status = x.status /\ y.step = x.step
        /\ y.ask = ask /\ y.folder = x.folder \ {f} /\ y.count = x.count
    BY <1>1, LessJob
  <2>3. x.step = "files"
    BY <1>8 DEF Unreadable, At
  <2>4. JobInv(y, ever)
    BY <1>1, <2>2, <2>3 DEF JobInv
  <2> QED
    BY <1>2, <1>8, <2>1, <2>2, <2>4 DEF Unreadable
<1>9. ASSUME NEW f, NEW known, Count(j, f), x.status = "processing", x.step # "idle",
             JobInv(x, known), x.ask.songs \cap known # {}
      PROVE  /\ job'[j] \in JobRecords /\ JobInv(job'[j], known)
             /\ job' = [job EXCEPT ![j] = job'[j]]
  <2> DEFINE y == [x EXCEPT !.step = "files", !.folder = @ \ {f}, !.count = 1, !.file = None,
                            !.path = NoPath, !.track = NoTrack]
  <2>1. y \in JobRecords /\ y.status = x.status /\ y.step = "files"
        /\ y.ask = ask /\ y.folder = x.folder \ {f} /\ y.count = 1
    BY <1>1, CountedJob
  <2>2. JobInv(y, known)
    BY <1>9, <2>1 DEF JobInv
  <2> QED
    BY <1>2, <1>9, <2>1, <2>2 DEF Count
<1>10. CASE Take(j)
  <2>1. PICK f \in x.folder :
          \/ Known(f) = {} /\ Place(j, f, "placing", PathFor(f), NoTrack)
          \/ \E r \in Known(f) : IF Free(r.path) THEN Place(j, f, "restoring", r.path, r)
                                                 ELSE Count(j, f)
    BY <1>10 DEF Take
  <2>2. x.step = "files" /\ x.status = "processing" /\ ask \in Asks /\ UNCHANGED ever
    BY <1>1, <1>10, JobFields DEF Take, At, JobInv
  <2>3. f \in Files /\ Meant(f, ask)
    BY <1>1, JobFields DEF JobInv
  <2>4. \A r \in Known(f) : r \in rows /\ r \in Rows /\ r.path \in Paths
                            /\ Fits(r, f) /\ r.song \in ask.songs \cap ever
    BY <2>2, <2>3, KnownFits, RowTypes DEF TypeOK, Known, BySource, ByContent, BySong
  <2>5. ASSUME NEW r \in Known(f), Count(j, f)
        PROVE  job'[j] \in JobRecords /\ JobInv(job'[j], ever') /\ job' = [job EXCEPT ![j] = job'[j]]
    BY <1>1, <1>9, <2>2, <2>4, <2>5
  <2>6. ASSUME NEW step \in {"placing", "restoring"}, NEW path \in Paths, NEW r \in Rows \cup {NoTrack},
               step = "restoring" => r \in Known(f) /\ path = r.path,
               Place(j, f, step, path, r)
        PROVE  job'[j] \in JobRecords /\ JobInv(job'[j], ever') /\ job' = [job EXCEPT ![j] = job'[j]]
    <3> DEFINE y == [x EXCEPT !.step = step, !.file = f, !.path = path, !.track = r]
    <3>1. y \in JobRecords /\ y.status = x.status /\ y.step = step
          /\ y.ask = ask /\ y.folder = x.folder /\ y.count = x.count
          /\ y.file = f /\ y.path = path /\ y.track = r
      BY <1>1, <2>3 DEF JobRecords, Steps
    <3>2. JobInv(y, ever)
      BY <1>1, <2>2, <2>3, <2>4, <2>6, <3>1 DEF JobInv
    <3> QED
      BY <1>2, <2>2, <2>6, <3>1, <3>2 DEF Place
  <2> QED
    BY <2>1, <2>2, <2>3, <2>4, <2>5, <2>6, PathTypes
<1>11. CASE Put(j)
  <2> DEFINE y == [x EXCEPT !.step = "placed"]
  <2>1. y \in JobRecords /\ y.status = x.status /\ y.step = "placed"
        /\ y.ask = ask /\ y.folder = x.folder /\ y.count = x.count
        /\ y.file = x.file /\ y.path = x.path /\ y.track = x.track
    BY <1>1, PlacedJob
  <2>2. x.step = "placing"
    BY <1>11 DEF Put, At
  <2>3. JobInv(y, ever)
    BY <1>1, <2>1, <2>2 DEF JobInv
  <2> QED
    BY <1>2, <1>11, <2>1, <2>3 DEF Put
<1>12. CASE Commit(j)
  <2>1. x.step = "placed" /\ x.status = "processing" /\ Meant(x.file, ask)
    BY <1>1, <1>12, JobFields DEF Commit, At, JobInv
  <2>2. CASE Fails(j) /\ UNCHANGED ever
    BY <1>f, <2>1, <2>2
  <2>3. CASE Count(j, x.file) /\ ever' = ever \cup {x.file.song}
    <3>1. JobInv(x, ever') /\ x.ask.songs \cap ever' # {} /\ ever \subseteq ever'
      BY <1>1, <2>1, <2>3, JobInvGrows DEF Meant
    <3> QED
      BY <1>9, <2>1, <2>3, <3>1
  <2> QED
    BY <1>12, <2>2, <2>3 DEF Commit
<1>13. CASE Restore(j)
  <2>1. x.step = "restoring" /\ x.status = "processing" /\ UNCHANGED ever
        /\ x.track.song \in ask.songs \cap ever
    BY <1>1, <1>13, JobFields DEF Restore, At, JobInv
  <2>2. CASE Fails(j)
    BY <1>f, <2>1, <2>2
  <2>3. CASE Count(j, x.file)
    BY <1>1, <1>9, <2>1, <2>3
  <2> QED
    BY <1>13, <2>2, <2>3 DEF Restore
<1>14. CASE Finish(j)
  <2>1. (Fails(j) \/ End(j, "completed")) /\ UNCHANGED ever /\ x.step = "files"
    BY <1>14 DEF Finish, At
  <2> QED
    BY <1>3, <1>f, <2>1
<1> QED
  BY <1>4, <1>5, <1>6, <1>7, <1>8, <1>10, <1>11, <1>12, <1>13, <1>14 DEF ThreadStep

(* And of the pool and the tracks. *)
LEMMA ThreadPool ==
  ASSUME TypeOK, Meaning, NEW j \in Jobs, ThreadStep(j)
  PROVE  /\ pool' \in [Paths -> Files \cup {None}] /\ stray' \subseteq Paths
         /\ rows' \subseteq Rows /\ ever' \subseteq Songs /\ UNCHANGED deletes
         /\ \A r \in rows' : RowInv(r, ever')
<1> USE DEF TypeOK
<1>1. JobInv(job[j], ever) /\ \A r \in rows : RowInv(r, ever)
  BY DEF Meaning
<1>2. CASE UNCHANGED <<pool, rows, deletes, stray, ever>>
  BY <1>1, <1>2
<1>3. CASE Put(j)
  <2>1. job[j].file \in Files /\ job[j].path \in Paths
    BY <1>1, <1>3 DEF Put, At, JobInv
  <2> QED
    BY <1>1, <1>3, <2>1 DEF Put
<1>4. CASE Restore(j)
  <2>1. job[j].file \in Files /\ job[j].path \in Paths
    BY <1>1, <1>4 DEF Restore, At, JobInv
  <2> QED
    BY <1>1, <1>4, <2>1 DEF Restore
<1>5. CASE Commit(j)
  <2> DEFINE f == job[j].file
             p == job[j].path
  <2>1. f \in Files /\ p \in Paths /\ Meant(f, job[j].ask) /\ job[j].ask \in Asks
    BY <1>1, <1>5 DEF Commit, At, JobInv
  <2>2. CASE rows' = rows \cup {RowFor(f, p)} /\ ever' = ever \cup {f.song} /\ UNCHANGED pool
    <3>1. RowInv(RowFor(f, p), ever')
      BY <2>1, <2>2, RowTypes, AskTypes DEF RowInv, Meant
    <3>2. \A r \in rows : RowInv(r, ever')
      BY <1>1, <2>2, RowInvGrows
    <3>3. RowFor(f, p) \in Rows /\ f.song \in Songs
      BY <2>1, RowTypes, FileTypes
    <3> QED
      BY <1>5, <2>2, <3>1, <3>2, <3>3 DEF Commit
  <2>3. CASE pool' = [pool EXCEPT ![p] = None] /\ UNCHANGED <<rows, ever>>
    BY <1>1, <1>5, <2>3 DEF Commit
  <2> QED
    BY <1>5, <2>2, <2>3 DEF Commit
<1> QED
  BY <1>2, <1>3, <1>4, <1>5 DEF ThreadStep, Begin, Refuse, Look, Attempt, GiveUp, Unreadable,
                                 Take, Finish

LEMMA ImportTypes ==
  ASSUME TypeOK, NEW s \in Songs, NEW c \in Copies
  PROVE  LET f == [song |-> s, copy |-> c, source |-> "local"]
         IN f \in Files /\ PathFor(f) \in Paths
BY PathTypes DEF Files

LEMMA TypeAndMeaning == TypeOK /\ Meaning /\ [Next]_vars => TypeOK' /\ Meaning'
<1> SUFFICES ASSUME TypeOK, Meaning, [Next]_vars PROVE TypeOK' /\ Meaning'
  OBVIOUS
<1>1. ever \subseteq ever' /\ UNCHANGED <<job>> => \A k \in Jobs : JobInv(job'[k], ever')
  BY JobInvGrows DEF Meaning
<1>2. MaxEvents \in Nat
  BY Given
<1>3. ASSUME NEW j \in Jobs, NEW y \in JobRecords, JobInv(y, ever'), ever \subseteq ever',
             job' = [job EXCEPT ![j] = y]
      PROVE  job' \in [Jobs -> JobRecords] /\ \A k \in Jobs : JobInv(job'[k], ever')
  <2>1. \A k \in Jobs : job'[k] = IF k = j THEN y ELSE job[k]
    BY <1>3 DEF TypeOK
  <2>2. \A k \in Jobs : JobInv(job[k], ever')
    BY <1>3, JobInvGrows DEF Meaning
  <2>3. job' \in [Jobs -> JobRecords]
    BY <1>3 DEF TypeOK
  <2> QED
    BY <1>3, <2>1, <2>2, <2>3
<1>4. ASSUME NEW j \in Jobs, NEW a \in Asks, Ask(j, a), UNCHANGED events
      PROVE  TypeOK' /\ Meaning'
  <2> DEFINE y == [NoJob EXCEPT !.status = "pending", !.ask = a, !.step = "queued"]
  <2>1. y \in JobRecords /\ y.status = "pending" /\ y.ask = a /\ y.step = "queued"
        /\ y.folder = {} /\ y.count = 0
    BY AskedJob
  <2>2. JobInv(y, ever)
    BY <2>1 DEF JobInv
  <2>3. job' = [job EXCEPT ![j] = y] /\ UNCHANGED ever
    BY <1>4 DEF Ask, Becomes
  <2>4. job' \in [Jobs -> JobRecords] /\ \A k \in Jobs : JobInv(job'[k], ever')
    <3> HIDE DEF y
    <3> QED
      BY <1>3, <2>1, <2>2, <2>3
  <2> QED
    BY <1>4, <2>4 DEF Ask, TypeOK, Meaning
<1>5. ASSUME NEW j \in Jobs, ThreadStep(j), UNCHANGED events PROVE TypeOK' /\ Meaning'
  <2>1. job' \in [Jobs -> JobRecords] /\ \A k \in Jobs : JobInv(job'[k], ever')
    BY <1>3, <1>5, ThreadJob
  <2> QED
    BY <1>5, <2>1, ThreadPool DEF TypeOK, Meaning
<1>6. ASSUME NEW p \in deletes, RemoveFile(p), UNCHANGED events PROVE TypeOK' /\ Meaning'
  <2>1. pool' \in [Paths -> Files \cup {None}] /\ stray' \subseteq Paths /\ deletes' \subseteq Paths
    BY <1>6 DEF RemoveFile, TypeOK
  <2> QED
    BY <1>1, <1>6, <2>1 DEF RemoveFile, TypeOK, Meaning
<1>7. ASSUME NEW r \in rows, DeleteRow(r) PROVE (events' \in 0..MaxEvents => TypeOK') /\ Meaning'
  <2>1. deletes' \subseteq Paths
    BY <1>7, RowTypes DEF DeleteRow, TypeOK
  <2> QED
    BY <1>1, <1>7, <2>1 DEF DeleteRow, TypeOK, Meaning
<1>8. ASSUME NEW s \in Songs, NEW c \in Copies \ {Part}, ImportLocal(s, c)
      PROVE  (events' \in 0..MaxEvents => TypeOK') /\ Meaning'
  <2> DEFINE f == [song |-> s, copy |-> c, source |-> "local"]
             p == PathFor(f)
  <2>1. f \in Files /\ p \in Paths /\ f.song = s /\ f.source = "local"
    BY ImportTypes
  <2>2. pool' \in [Paths -> Files \cup {None}]
    BY <1>8, <2>1 DEF ImportLocal, TypeOK
  <2>3. UNCHANGED <<job, deletes>> /\ ever \subseteq ever'
    BY <1>8 DEF ImportLocal
  <2>4. \/ rows' = rows \cup {RowFor(f, p)} /\ ever' = ever \cup {s} /\ UNCHANGED stray
        \/ stray' = stray \cup {p} /\ UNCHANGED <<rows, ever>>
    BY <1>8 DEF ImportLocal
  <2>5. RowFor(f, p) \in Rows /\ (s \in ever' => RowInv(RowFor(f, p), ever'))
    BY <2>1, RowTypes DEF RowInv
  <2>6. rows' \subseteq Rows /\ ever' \subseteq Songs /\ stray' \subseteq Paths
    <3> HIDE DEF f, p
    <3> QED
      BY <2>1, <2>4, <2>5 DEF TypeOK
  <2>7. \A r \in rows' : RowInv(r, ever')
    <3>1. \A r \in rows : RowInv(r, ever')
      BY <2>3, RowInvGrows DEF Meaning
    <3> HIDE DEF f, p
    <3> QED
      BY <2>4, <2>5, <3>1
  <2> QED
    BY <1>1, <2>2, <2>3, <2>6, <2>7 DEF TypeOK, Meaning
<1>9. CASE Restart /\ events' \in 0..MaxEvents
  <2>1. \A j \in Jobs : job[j] \in JobRecords /\ Ended(job[j].ask, "failed") \in JobRecords
                        /\ JobInv(Ended(job[j].ask, "failed"), ever)
    BY EndedInv, JobFields DEF TypeOK
  <2>2. \A j \in Jobs : job'[j] = IF At(j, "idle") THEN job[j] ELSE Ended(job[j].ask, "failed")
    BY <1>9 DEF Restart
  <2>3. job' \in [Jobs -> JobRecords] /\ \A j \in Jobs : JobInv(job'[j], ever)
    <3>1. job' = [j \in Jobs |-> job'[j]]
      BY <1>9 DEF Restart
    <3> QED
      BY <2>1, <2>2, <3>1 DEF Meaning
  <2>4. stray' \subseteq Paths
    <3>1. \A j \in Jobs : At(j, "placed") => job[j].path \in Paths
      BY DEF Meaning, JobInv, At
    <3> QED
      BY <1>9, <3>1 DEF Restart, TypeOK
  <2> QED
    BY <1>9, <2>3, <2>4 DEF Restart, TypeOK, Meaning
<1>10. CASE Event /\ events < MaxEvents /\ events' = events + 1
  <2>1. events' \in 0..MaxEvents
    BY <1>2, <1>10 DEF TypeOK
  <2> QED
    BY <1>7, <1>8, <1>9, <1>10, <2>1 DEF Event
<1>11. CASE UNCHANGED vars
  BY <1>1, <1>11 DEF vars, TypeOK, Meaning
<1> QED
  BY <1>4, <1>5, <1>6, <1>10, <1>11 DEF Next

LEMMA TypeInit == Init => TypeOK /\ Meaning
<1> SUFFICES ASSUME Init PROVE TypeOK /\ Meaning
  OBVIOUS
<1>1. TypeOK
  <2>1. pool \in [Paths -> Files \cup {None}]
    BY DEF Init
  <2>2. job \in [Jobs -> JobRecords]
    BY NoJobFields DEF Init
  <2>3. events \in 0..MaxEvents
    <3>1. MaxEvents \in Nat /\ events = 0
      BY Given DEF Init
    <3> QED
      BY <3>1
  <2> QED
    BY <2>1, <2>2, <2>3 DEF Init, TypeOK
<1>2. JobInv(NoJob, {})
  BY NoJobFields DEF JobInv
<1> QED
  BY <1>1, <1>2 DEF Init, Meaning

(* Tracks, files and jobs keep their types through every step of the        *)
(* download threads, deletions, imports and restarts.                       *)
THEOREM TypeCorrect == Spec => [](TypeOK /\ Meaning)
BY TypeInit, TypeAndMeaning, PTL DEF Spec

-----------------------------------------------------------------------------
(* Files: one that is at a path was put there by a thread that has not      *)
(* inserted its row, or fits the one track of the path, or is on record.    *)

Excused == deletes \cup stray

Held(p) ==
  \/ \E j \in Jobs : At(j, "placed") /\ job[j].path = p /\ job[j].file = pool[p]
  \/ \E r \in rows : r.path = p /\ Fits(r, pool[p])

FileInv ==
  /\ \A r, q \in rows : r.path = q.path => r = q
  /\ \A p \in Paths : pool[p] # None /\ p \notin Excused => Held(p)

(* A step that leaves file, deletions, threads and tracks of a path alone.  *)
LEMMA UniqueStays ==
  ASSUME NEW f \in Files, NEW p \in Paths, Unique(f, p), \A r, q \in rows : r.path = q.path => r = q
  PROVE  \A r, q \in rows \cup {RowFor(f, p)} : r.path = q.path => r = q
BY RowTypes DEF Unique

LEMMA ThreadFiles ==
  ASSUME TypeOK, Meaning, FileInv, NEW j \in Jobs, ThreadStep(j)
  PROVE  FileInv'
<1> USE DEF FileInv, Excused
<1>1. JobInv(job[j], ever) /\ job[j] \in JobRecords
  BY DEF Meaning, TypeOK
<1>2. job' = [job EXCEPT ![j] = job'[j]]
  BY ThreadJob
<1>3. \A k \in Jobs : k # j => job'[k] = job[k]
  BY <1>2 DEF TypeOK
<1>4. ASSUME NEW p \in Paths, pool[p] # None, p \notin Excused, pool'[p] = pool[p],
             rows \subseteq rows', ~(At(j, "placed") /\ job[j].path = p)
      PROVE  Held(p)'
  <2>1. CASE \E r \in rows : r.path = p /\ Fits(r, pool[p])
    BY <1>4, <2>1 DEF Held
  <2>2. ASSUME NEW k \in Jobs, At(k, "placed"), job[k].path = p, job[k].file = pool[p]
        PROVE  Held(p)'
    BY <1>3, <1>4, <2>2 DEF Held, At
  <2> QED
    BY <1>4, <2>1, <2>2 DEF Held
<1>5. CASE UNCHANGED <<pool, rows, deletes, stray>> /\ ~At(j, "placed")
  BY <1>4, <1>5
<1>6. CASE Put(j)
  <2> DEFINE y == [job[j] EXCEPT !.step = "placed"]
  <2>0. PICK p0 \in Paths : p0 = job[j].path
    BY <1>1, <1>6 DEF Put, At, JobInv
  <2>1. ~At(j, "placed")
    BY <1>6 DEF Put, At
  <2>2. job'[j] = y /\ y.step = "placed" /\ y.file = job[j].file /\ y.path = p0
    BY <1>1, <1>6, <2>0, PlacedJob DEF Put, Becomes, TypeOK
  <2>3. Held(p0)'
    BY <1>6, <2>0, <2>2 DEF Put, Held, At, TypeOK
  <2>4. \A p \in Paths : p # p0 => pool'[p] = pool[p]
    BY <1>6, <2>0 DEF Put, TypeOK
  <2>5. UNCHANGED <<rows, deletes, stray>>
    BY <1>6 DEF Put
  <2>6. ASSUME NEW p \in Paths, pool'[p] # None, p \notin Excused PROVE Held(p)'
    BY <1>4, <2>1, <2>3, <2>4, <2>5, <2>6
  <2> QED
    BY <2>5, <2>6
<1>7. CASE Restore(j)
  <2>0. PICK p0 \in Paths, r \in Rows : p0 = job[j].path /\ r = job[j].track
    BY <1>1, <1>7 DEF Restore, At, JobInv
  <2>1. ~At(j, "placed") /\ r.path = p0 /\ Fits(r, job[j].file)
    BY <1>1, <1>7, <2>0 DEF Restore, At, JobInv
  <2>2. \A p \in Paths : p # p0 => pool'[p] = pool[p]
    BY <1>7, <2>0 DEF Restore, TypeOK
  <2>3. pool'[p0] = job[j].file /\ UNCHANGED <<rows, deletes>> /\ stray \subseteq stray'
        /\ (r \notin rows => p0 \in stray')
    BY <1>7, <2>0, <2>1 DEF Restore, TypeOK
  <2>4. p0 \in stray' \/ Held(p0)'
    BY <2>1, <2>3 DEF Held
  <2>5. ASSUME NEW p \in Paths, pool'[p] # None, p \notin Excused' PROVE Held(p)'
    BY <1>4, <2>1, <2>2, <2>3, <2>4, <2>5
  <2> QED
    BY <2>3, <2>5
<1>8. CASE Commit(j)
  <2> DEFINE f == job[j].file
             p0 == job[j].path
  <2>1. f \in Files /\ p0 \in Paths /\ UNCHANGED <<deletes, stray>>
    BY <1>1, <1>8 DEF Commit, At, JobInv
  <2>2. CASE Unique(f, p0) /\ rows' = rows \cup {RowFor(f, p0)} /\ UNCHANGED pool
    <3>1. \A r, q \in rows' : r.path = q.path => r = q
      BY <2>1, <2>2, UniqueStays
    <3>2. RowFor(f, p0).path = p0 /\ RowFor(f, p0).song = f.song
      BY <2>1, RowTypes
    <3>3. ASSUME NEW p \in Paths, pool'[p] # None, p \notin Excused PROVE Held(p)'
      <4>1. CASE p # p0
        BY <1>4, <2>2, <3>3, <4>1
      <4>2. CASE pool[p] = f /\ p = p0
        BY <2>2, <3>2, <4>2 DEF Held, Fits
      <4>3. CASE pool[p] # f
        <5>1. CASE \E r \in rows : r.path = p /\ Fits(r, pool[p])
          BY <2>2, <5>1 DEF Held
        <5>2. ASSUME NEW k \in Jobs, At(k, "placed"), job[k].path = p, job[k].file = pool[p]
              PROVE  Held(p)'
          BY <1>3, <2>2, <4>3, <5>2 DEF Held, At
        <5> QED
          BY <2>2, <3>3, <5>1, <5>2 DEF Held
      <4> QED
        BY <4>1, <4>2, <4>3
    <3> QED
      BY <2>1, <3>1, <3>3
  <2>3. CASE pool' = [pool EXCEPT ![p0] = None] /\ UNCHANGED rows
    <3>1. \A p \in Paths : pool'[p] = IF p = p0 THEN None ELSE pool[p]
      BY <2>1, <2>3 DEF TypeOK
    <3>2. ASSUME NEW p \in Paths, pool'[p] # None, p \notin Excused PROVE Held(p)'
      BY <1>4, <2>3, <3>1, <3>2
    <3> QED
      BY <2>1, <2>3, <3>2
  <2> QED
    BY <1>8, <2>2, <2>3 DEF Commit
<1>9. CASE Begin(j) \/ Refuse(j) \/ Look(j) \/ Attempt(j) \/ GiveUp(j) \/ Unreadable(j) \/ Take(j)
           \/ Finish(j)
  BY <1>5, <1>9 DEF Begin, Served, Refuse, Look, Attempt, GiveUp, Unreadable, Take, Finish, At
<1> QED
  BY <1>6, <1>7, <1>8, <1>9 DEF ThreadStep

LEMMA FilesStay == TypeOK /\ Meaning /\ FileInv /\ [Next]_vars => FileInv'
<1> SUFFICES ASSUME TypeOK, Meaning, FileInv, [Next]_vars PROVE FileInv'
  OBVIOUS
<1> USE DEF FileInv, Excused
<1>1. ASSUME NEW p \in Paths, pool[p] # None, p \notin Excused, pool'[p] = pool[p],
             rows \subseteq rows',
             \A j \in Jobs : At(j, "placed") => job'[j] = job[j]
      PROVE  Held(p)'
  <2>1. Held(p)
    BY <1>1
  <2> QED
    BY <1>1, <2>1 DEF Held, At
<1>2. CASE UNCHANGED vars
  BY <1>1, <1>2 DEF vars
<1>3. ASSUME NEW j \in Jobs, NEW a \in Asks, Ask(j, a) PROVE FileInv'
  <2>1. job[j] = NoJob /\ \A k \in Jobs : k # j => job'[k] = job[k]
    BY <1>3 DEF Ask, Becomes, TypeOK
  <2>2. \A k \in Jobs : At(k, "placed") => job'[k] = job[k]
    BY <2>1, NoJobFields DEF At
  <2> QED
    BY <1>1, <1>3, <2>2 DEF Ask
<1>4. ASSUME NEW p \in deletes, RemoveFile(p) PROVE FileInv'
  <2>1. UNCHANGED <<rows, job>> /\ deletes' = deletes \ {p}
    BY <1>4 DEF RemoveFile
  <2>2. ASSUME NEW q \in Paths, pool'[q] # None, q \notin Excused' PROVE Held(q)'
    <3>1. q # p /\ q \notin Excused /\ pool'[q] = pool[q]
      BY <1>4, <2>2 DEF RemoveFile, TypeOK
    <3> QED
      BY <1>1, <2>1, <2>2, <3>1
  <2> QED
    BY <2>1, <2>2
<1>5. ASSUME NEW r \in rows, DeleteRow(r) PROVE FileInv'
  <2>1. UNCHANGED <<pool, job, stray>> /\ rows' = rows \ {r} /\ deletes = {} /\ deletes' = {r.path}
    BY <1>5 DEF DeleteRow
  <2>2. ASSUME NEW q \in Paths, pool'[q] # None, q \notin Excused' PROVE Held(q)'
    <3>1. q # r.path /\ Held(q)
      BY <2>1, <2>2
    <3> QED
      BY <2>1, <3>1 DEF Held, At
  <2> QED
    BY <2>1, <2>2
<1>6. ASSUME NEW s \in Songs, NEW c \in Copies \ {Part}, ImportLocal(s, c) PROVE FileInv'
  <2> DEFINE f == [song |-> s, copy |-> c, source |-> "local"]
  <2>1. f \in Files
    BY ImportTypes
  <2>a. PICK p \in Paths : p = PathFor(f)
    BY ImportTypes
  <2>2. UNCHANGED <<job, deletes>> /\ pool' = [pool EXCEPT ![p] = f]
    BY <1>6, <2>a DEF ImportLocal
  <2>3. \/ Unique(f, p) /\ rows' = rows \cup {RowFor(f, p)} /\ UNCHANGED stray
        \/ stray' = stray \cup {p} /\ UNCHANGED rows
    BY <1>6, <2>a DEF ImportLocal
  <2> HIDE DEF f
  <2>4. RowFor(f, p).path = p /\ RowFor(f, p).song = f.song
    BY <2>1, RowTypes
  <2>5. \A r, q \in rows' : r.path = q.path => r = q
    BY <2>1, <2>3, UniqueStays
  <2>6. \A q \in Paths : pool'[q] = IF q = p THEN f ELSE pool[q]
    BY <2>1, <2>2 DEF TypeOK
  <2>7. p \in stray' \/ Held(p)'
    BY <2>1, <2>3, <2>4, <2>6 DEF Held, Fits
  <2>8. ASSUME NEW q \in Paths, pool'[q] # None, q \notin Excused' PROVE Held(q)'
    <3>1. CASE q = p
      BY <2>7, <2>8, <3>1
    <3>2. CASE q # p
      <4>1. q \notin Excused /\ pool'[q] = pool[q] /\ rows \subseteq rows'
        BY <2>2, <2>3, <2>6, <2>8, <3>2
      <4> QED
        BY <1>1, <2>2, <2>8, <4>1
    <3> QED
      BY <3>1, <3>2
  <2> QED
    BY <2>5, <2>8
<1>7. CASE Restart
  <2>1. UNCHANGED <<pool, rows>> /\ deletes \cup stray \subseteq stray'
    BY <1>7 DEF Restart
  <2>2. \A j \in Jobs : At(j, "placed") => job[j].path \in stray'
    BY <1>7 DEF Restart
  <2>3. ASSUME NEW q \in Paths, pool'[q] # None, q \notin Excused' PROVE Held(q)'
    <3>1. Held(q)
      BY <2>1, <2>3
    <3>2. \A j \in Jobs : At(j, "placed") => job[j].path # q
      BY <2>2, <2>3
    <3> QED
      BY <2>1, <3>1, <3>2 DEF Held
  <2> QED
    BY <2>1, <2>3
<1> QED
  BY <1>2, <1>3, <1>4, <1>5, <1>6, <1>7, ThreadFiles DEF Next, Event

LEMMA FileInvInit == Init => FileInv
BY DEF Init, FileInv

(* Every file of the pool is held, and what is not held plays its song:    *)
(* the invariant of _process_download_sync that the next two rest on.      *)
THEOREM FilesAreHeld == Spec => []FileInv
BY TypeInit, FileInvInit, TypeAndMeaning, FilesStay, PTL DEF Spec

(* Every file of the pool has a track, a thread, a deletion or an excuse    *)
(* (_move_into_pool_and_create_track takes back what the table refuses).    *)
THEOREM NoFileIsLost == Spec => []NoOrphans
<1>1. FileInv => NoOrphans
  BY DEF FileInv, Excused, Held, NoOrphans, Placed
<1> QED
  BY <1>1, FilesAreHeld, PTL

(* What stands at the path of a track is its song, or what its own link     *)
(* gave when the file was brought back (_process_download_sync).            *)
THEOREM TracksPlayTheirSong == Spec => []PlaysItsSong
<1>1. TypeOK /\ FileInv => PlaysItsSong
  <2> SUFFICES ASSUME TypeOK, FileInv, NEW r \in rows, r.path \notin Placed \cup deletes \cup stray,
                      pool[r.path] # None
               PROVE  Fits(r, pool[r.path])
    BY DEF PlaysItsSong, Fits
  <2>1. r.path \in Paths
    BY RowTypes DEF TypeOK
  <2>2. Held(r.path)
    BY <2>1 DEF FileInv, Excused
  <2> QED
    BY <2>2 DEF FileInv, Held, Placed
<1>2. Spec => []TypeOK
  BY TypeCorrect, PTL
<1> QED
  BY <1>1, <1>2, FilesAreHeld, PTL

-----------------------------------------------------------------------------
(* The downloads implement SongRequests.                                    *)

(* What a thread's step is to its request: nothing, or a move of its        *)
(* status; a song is gained only while the request is worked on.            *)
Works(x, y) == y.ask = x.ask /\ y.status = x.status
Moves(x, y) ==
  /\ y.ask = x.ask
  /\ \/ x.status = "pending" /\ y.status = "processing"
     \/ x.status \in {"pending", "processing"} /\ y.status = "failed"
     \/ x.status = "processing" /\ y.status = "completed" /\ x.ask.songs \cap ever # {}

LEMMA ThreadMoves ==
  ASSUME TypeOK, Meaning, NEW j \in Jobs, ThreadStep(j)
  PROVE  \/ Works(job[j], job'[j]) /\ UNCHANGED <<rows, ever>>
         \/ Moves(job[j], job'[j]) /\ UNCHANGED <<rows, ever>>
         \/ /\ Works(job[j], job'[j]) /\ job[j].file \in Files
            /\ rows' = rows \cup {RowFor(job[j].file, job[j].path)}
            /\ ever' = ever \cup {job[j].file.song}
<1> DEFINE x == job[j]
           ask == x.ask
<1>1. x \in JobRecords /\ JobInv(x, ever) /\ ask \in Asks \cup {NoAsk}
      /\ x.status \in {"none", "pending", "processing", "completed", "failed"}
  BY JobFields DEF TypeOK, Meaning
<1>2. ASSUME NEW y, Becomes(j, y) PROVE job'[j] = y
  BY <1>2 DEF Becomes, TypeOK
<1>3. ASSUME NEW status \in {"completed", "failed"}, End(j, status),
             x.step # "idle", status = "completed" => x.status = "processing" /\ ask.songs \cap ever # {}
      PROVE  Moves(x, job'[j])
  BY <1>1, <1>2, <1>3, EndedJob DEF End, Moves, JobInv
<1>r. ASSUME Raised(j) PROVE Works(x, job'[j])
  <2> DEFINE y == Abandoned(ask, x.status)
  <2>1. y.status = x.status /\ y.ask = ask
    BY <1>1, RaisedJob
  <2> HIDE DEF y
  <2>2. Becomes(j, y)
    BY <1>r DEF Raised, y
  <2> QED
    BY <1>2, <2>1, <2>2 DEF Works
<1>f. ASSUME x.step # "idle", Fails(j) PROVE Works(x, job'[j]) \/ Moves(x, job'[j])
  BY <1>3, <1>r, <1>f DEF Fails
<1>4. CASE Begin(j)
  <2>1. [x EXCEPT !.status = "processing", !.step = "look"].status = "processing"
        /\ [x EXCEPT !.status = "processing", !.step = "look"].ask = ask
    BY <1>1, BegunJob
  <2>2. x.status = "pending"
    BY <1>1, <1>4 DEF Begin, Served, At, JobInv
  <2> QED
    BY <1>2, <1>4, <2>1, <2>2 DEF Begin, Moves
<1>5. CASE Refuse(j) \/ GiveUp(j)
  BY <1>f, <1>5 DEF Refuse, GiveUp, Served, At
<1>6. CASE Look(j)
  <2>1. x.step = "look" /\ x.status = "processing" /\ ask \in Asks /\ UNCHANGED <<rows, ever>>
    BY <1>1, <1>6 DEF Look, At, JobInv
  <2>2. ASSUME NEW r \in KnownBefore(ask), End(j, "completed") PROVE Moves(x, job'[j])
    <3>1. r \in rows
      BY DEF KnownBefore, BySource, BySong
    <3>2. r.song \in ask.songs \cap ever
      BY <2>1, <3>1, KnownIsMeant
    <3> QED
      BY <1>3, <2>1, <2>2, <3>2
  <2>3. ASSUME NEW left, Becomes(j, [x EXCEPT !.step = "fetch", !.left = left])
        PROVE  Works(x, job'[j])
    BY <1>1, <1>2, <2>3 DEF Works, JobRecords
  <2> QED
    BY <1>6, <1>r, <2>1, <2>2, <2>3 DEF Look
<1>7. CASE Attempt(j)
  <2>1. ASSUME NEW got, Delivers(j, got) PROVE Works(x, job'[j])
    BY <1>1, <1>2, <2>1 DEF Delivers, Works, JobRecords
  <2>2. ASSUME NEW parts, NEW left, Leaves(j, parts, left) PROVE Works(x, job'[j])
    BY <1>1, <1>2, <2>2 DEF Leaves, Works, JobRecords
  <2> QED
    BY <1>7, <2>1, <2>2 DEF Attempt, FetchRemote, RunCommand, RunYtdlp
<1>8. CASE Unreadable(j)
  <2>1. ASSUME NEW f, Becomes(j, [x EXCEPT !.folder = @ \ {f}]) PROVE Works(x, job'[j])
    BY <1>1, <1>2, <2>1 DEF Works, JobRecords
  <2> QED
    BY <1>8, <2>1 DEF Unreadable
<1>9. ASSUME NEW f, Count(j, f) PROVE Works(x, job'[j])
  BY <1>1, <1>2, <1>9 DEF Count, Works, JobRecords
<1>10. CASE Take(j)
  <2>1. ASSUME NEW step, NEW f, NEW path, NEW r, Place(j, f, step, path, r) PROVE Works(x, job'[j])
    BY <1>1, <1>2, <2>1 DEF Place, Works, JobRecords
  <2> QED
    BY <1>9, <1>10, <2>1 DEF Take
<1>11. CASE Put(j)
  <2>1. Becomes(j, [x EXCEPT !.step = "placed"])
    BY <1>11 DEF Put
  <2>2. Works(x, job'[j])
    BY <1>1, <1>2, <2>1 DEF Works, JobRecords
  <2> QED
    BY <1>11, <2>2 DEF Put
<1>12. CASE Commit(j)
  <2>1. x.file \in Files /\ x.step = "placed"
    BY <1>1, <1>12 DEF Commit, At, JobInv
  <2> QED
    BY <1>f, <1>9, <1>12, <2>1 DEF Commit
<1>13. CASE Restore(j)
  BY <1>f, <1>9, <1>13 DEF Restore, At
<1>14. CASE Finish(j)
  <2>1. x.step = "files" /\ x.status = "processing" /\ UNCHANGED <<rows, ever>>
    BY <1>1, <1>14 DEF Finish, At, JobInv
  <2>2. x.count # 0 => ask.songs \cap ever # {}
    BY <1>1, JobFields DEF JobInv
  <2>3. \/ Fails(j)
        \/ End(j, "completed") /\ x.count # 0
    BY <1>14 DEF Finish
  <2> QED
    BY <1>3, <1>f, <2>1, <2>2, <2>3
<1> QED
  BY <1>4, <1>5, <1>6, <1>7, <1>8, <1>10, <1>11, <1>12, <1>13, <1>14 DEF ThreadStep

(* The abstract variables. *)
Status == [j \in Jobs |-> job[j].status]
Wants == [j \in Jobs |-> job[j].ask.songs]
InLibrary == {r.song : r \in rows}

LEMMA OneMoves ==
  ASSUME NEW j \in Jobs, NEW y, TypeOK, job' = [job EXCEPT ![j] = y]
  PROVE  /\ Status' = [Status EXCEPT ![j] = y.status]
         /\ Wants' = [Wants EXCEPT ![j] = y.ask.songs]
BY DEF TypeOK, Status, Wants

LEMMA RefinesInit == Init => Requests!Init
<1> SUFFICES ASSUME Init PROVE Requests!Init
  OBVIOUS
<1>1. \A j \in Jobs : job[j].status = "none" /\ job[j].ask.songs = {}
  BY NoJobFields, AskTypes DEF Init
<1> QED
  BY <1>1 DEF Init, Requests!Init

LEMMA RefinesStep == TypeOK /\ Meaning /\ [Next]_vars => [Requests!Next]_(Requests!vars)
<1> SUFFICES ASSUME TypeOK, Meaning, [Next]_vars, ~UNCHANGED <<Status, Wants, InLibrary, ever>>
             PROVE  Requests!Next
  BY DEF Requests!vars, Status, Wants, InLibrary
<1>1. ~UNCHANGED vars
  BY DEF vars, Status, Wants, InLibrary
<1>2. ASSUME NEW j \in Jobs, NEW a \in Asks, Ask(j, a) PROVE Requests!Next
  <2> DEFINE y == [NoJob EXCEPT !.status = "pending", !.ask = a, !.step = "queued"]
  <2>1. y.status = "pending" /\ y.ask = a /\ a.songs \in SUBSET Songs
    BY AskedJob, AskTypes
  <2>2. job' = [job EXCEPT ![j] = y] /\ UNCHANGED <<rows, ever>> /\ job[j].status = "none"
    BY <1>2, NoJobFields DEF Ask, Becomes
  <2> HIDE DEF y
  <2>3. Status' = [Status EXCEPT ![j] = "pending"] /\ Wants' = [Wants EXCEPT ![j] = a.songs]
    BY <2>1, <2>2, OneMoves
  <2>4. Requests!Ask(j, a.songs)
    BY <2>2, <2>3 DEF Requests!Ask, Requests!Move, Status, Wants
  <2> QED
    BY <2>1, <2>4 DEF Requests!Next
<1>3. ASSUME NEW j \in Jobs, ThreadStep(j) PROVE Requests!Next
  <2>1. job' = [job EXCEPT ![j] = job'[j]]
    BY <1>3, ThreadJob
  <2>2. PICK y : y = job'[j]
    OBVIOUS
  <2>3. /\ Status' = [Status EXCEPT ![j] = y.status]
        /\ Wants' = [Wants EXCEPT ![j] = y.ask.songs]
    BY <2>1, <2>2, OneMoves
  <2>4. CASE Works(job[j], y)
    <3>1. UNCHANGED <<Status, Wants>>
      BY <2>3, <2>4 DEF Works, Status, Wants
    <3>2. job[j].file \in Files /\ ever' = ever \cup {job[j].file.song}
          /\ rows' = rows \cup {RowFor(job[j].file, job[j].path)}
      BY <1>3, <2>2, <2>4, <3>1, ThreadMoves DEF Works, Moves, InLibrary
    <3>3. InLibrary' = InLibrary \cup {job[j].file.song}
      <4>1. RowFor(job[j].file, job[j].path).song = job[j].file.song
        BY DEF RowFor
      <4> QED
        BY <3>2, <4>1 DEF InLibrary
    <3>4. job[j].file.song \in Songs
      BY <3>2, FileTypes
    <3> QED
      BY <3>1, <3>2, <3>3, <3>4 DEF Requests!Next, Requests!Gain, Status, Wants, InLibrary
  <2>5. CASE Moves(job[j], y) /\ UNCHANGED <<rows, ever>>
    <3>1. UNCHANGED <<InLibrary, Wants>>
      BY <2>3, <2>5 DEF Moves, Wants, InLibrary
    <3>2. CASE job[j].status = "pending" /\ y.status = "processing"
      <4>1. Requests!Begin(j)
        BY <2>3, <2>5, <3>1, <3>2 DEF Requests!Begin, Requests!Move, Status, Wants, InLibrary
      <4> QED
        BY <4>1 DEF Requests!Next
    <3>3. CASE job[j].status \in {"pending", "processing"} /\ y.status = "failed"
      <4>1. Requests!Fail(j)
        BY <2>3, <2>5, <3>1, <3>3
        DEF Requests!Fail, Requests!Move, Requests!Active, Status, Wants, InLibrary
      <4> QED
        BY <4>1 DEF Requests!Next
    <3>4. CASE job[j].status = "processing" /\ y.status = "completed"
               /\ job[j].ask.songs \cap ever # {}
      <4>1. Requests!Complete(j)
        BY <2>3, <2>5, <3>1, <3>4 DEF Requests!Complete, Requests!Move, Status, Wants, InLibrary
      <4> QED
        BY <4>1 DEF Requests!Next
    <3> QED
      BY <2>5, <3>2, <3>3, <3>4 DEF Moves
  <2> QED
    BY <1>3, <2>2, <2>4, <2>5, ThreadMoves
<1>4. ASSUME NEW p \in deletes, RemoveFile(p) PROVE FALSE
  BY <1>4 DEF RemoveFile, Status, Wants, InLibrary
<1>5. ASSUME NEW r \in rows, DeleteRow(r) PROVE Requests!Next
  <2>1. UNCHANGED <<Status, Wants, ever>> /\ rows' = rows \ {r}
    BY <1>5 DEF DeleteRow, Status, Wants
  <2>2. InLibrary' = InLibrary \/ InLibrary' = InLibrary \ {r.song}
    BY <2>1 DEF InLibrary
  <2>3. r.song \in Songs
    BY RowTypes DEF TypeOK
  <2> QED
    BY <2>1, <2>2, <2>3 DEF Requests!Next, Requests!Lose, Status, Wants, InLibrary
<1>6. ASSUME NEW s \in Songs, NEW c \in Copies \ {Part}, ImportLocal(s, c) PROVE Requests!Next
  <2> DEFINE f == [song |-> s, copy |-> c, source |-> "local"]
  <2>1. UNCHANGED <<Status, Wants>>
    BY <1>6 DEF ImportLocal, Status, Wants
  <2>2. rows' = rows \cup {RowFor(f, PathFor(f))} /\ ever' = ever \cup {s}
    BY <1>6, <2>1 DEF ImportLocal, InLibrary
  <2>3. RowFor(f, PathFor(f)).song = s
    BY DEF RowFor
  <2>4. InLibrary' = InLibrary \cup {s}
    <3> HIDE DEF f
    <3> QED
      BY <2>2, <2>3 DEF InLibrary
  <2> QED
    BY <2>1, <2>2, <2>4 DEF Requests!Next, Requests!Gain, Status, Wants, InLibrary
<1>7. CASE Restart
  <2>1. \A j \in Jobs : Ended(job[j].ask, "failed").status = "failed"
                        /\ Ended(job[j].ask, "failed").ask = job[j].ask
    BY EndedJob, JobFields DEF TypeOK
  <2>2. \A j \in Jobs : At(j, "idle") <=> job[j].status \notin {"pending", "processing"}
    BY DEF Meaning, JobInv, At
  <2>3. UNCHANGED <<rows, ever>> /\ UNCHANGED Wants
    BY <1>7, <2>1 DEF Restart, Wants
  <2>4. Status' = [j \in Jobs |-> IF Status[j] \in {"pending", "processing"} THEN "failed"
                                  ELSE Status[j]]
    BY <1>7, <2>1, <2>2 DEF Restart, Status
  <2>5. Requests!Sweep
    BY <2>3, <2>4 DEF Requests!Sweep, Requests!Active, Status, Wants, InLibrary
  <2> QED
    BY <2>5 DEF Requests!Next
<1> QED
  BY <1>1, <1>2, <1>3, <1>4, <1>5, <1>6, <1>7 DEF Next, Event

(* Whatever engines, files, deletions, imports and restarts do, a request   *)
(* is worked on once, ends once, and completes only for a song that has had *)
(* a row: downloads.py and downloader_service.py implement SongRequests.    *)
THEOREM ImplementsRequests == Spec => RequestsSpec
<1>1. Spec => Requests!Init /\ [][Requests!Next]_(Requests!vars)
  BY RefinesInit, RefinesStep, TypeInit, TypeAndMeaning, PTL DEF Spec
<1> QED
  BY <1>1 DEF RequestsSpec, Requests!Spec
-----------------------------------------------------------------------------
(* The isolated downloader.                                                *)

(* The states of a job and its thread go together. *)
Matched(a) ==
  /\ thread[a] = "queued" <=> jobs[a] = "pending"
  /\ thread[a] = "active" <=> jobs[a] = "running"

(* A request that can still arrive finds no job of its id, so that the       *)
(* branch of create_job for a known id is never taken; and it was not        *)
(* acknowledged.                                                             *)
Fresh(a) ==
  /\ pc[a] = "idle" => post[a] = "none" /\ jobs[a] = "absent" /\ thread[a] = "none" /\ ~submitted[a]
  /\ post[a] \in {"sent", "late"} => jobs[a] = "absent" /\ thread[a] = "none"
  /\ submitted[a] => post[a] = "none"

(* What the client knows at each place. *)
Informed(a) ==
  /\ pc[a] = "posting" => ~submitted[a]
  /\ pc[a] \in {"copying", "copied", "unusable", "polling", "cancelling", "confirming"} =>
       submitted[a]
  /\ pc[a] \in {"copying", "copied", "unusable"} => thread[a] = "none"
  /\ pc[a] = "legacy" /\ submitted[a] => thread[a] = "none"

Protocol == \A a \in Attempts : Matched(a) /\ Fresh(a) /\ Informed(a)
WorkerInv == WorkerTypeOK /\ Protocol

LEMMA WorkerStarts == WorkerInit => WorkerInv
BY DEF WorkerInit, WorkerInv, WorkerTypeOK, Protocol, Matched, Fresh, Informed, WorkerStatuses, Places

(* Types are kept. *)
LEMMA WorkerTypeStep == WorkerTypeOK /\ [WorkerNext]_downloadVars => WorkerTypeOK'
<1> SUFFICES ASSUME WorkerTypeOK, [WorkerNext]_downloadVars PROVE WorkerTypeOK'
  OBVIOUS
<1> USE DEF WorkerTypeOK, WorkerStatuses, Finished, Places, Outcomes, Goes, Fallback, workerVars, clientVars
<1>a. ASSUME NEW a \in Attempts, NEW p \in Places \cup Outcomes, Goes(a, p)
      PROVE  pc' \in [Attempts -> Places \cup Outcomes]
  BY <1>a
<1>b. ASSUME NEW a \in Attempts, Delete(a) \/ UNCHANGED <<jobs, files, cancel>>
      PROVE  /\ jobs' \in [Attempts -> WorkerStatuses]
             /\ files' \in [Attempts -> {"none", "partial", "audio"}]
             /\ cancel' \in [Attempts -> BOOLEAN]
  BY <1>b DEF Delete
<1>c. Fallback \in Places \cup Outcomes
  OBVIOUS
<1>1. ASSUME NEW a \in Attempts,
             \/ Submit(a) \/ Accepted(a) \/ PostFails(a)
             \/ PollFinished(a) \/ StopPolling(a) \/ Copy(a)
      PROVE  WorkerTypeOK'
  <2>1. CASE Submit(a) \/ Accepted(a)
    BY <2>1 DEF Submit, Accepted
  <2>2. CASE PostFails(a)
    <3>1. pc' \in [Attempts -> Places \cup Outcomes]
      BY <1>a, <1>c, <2>2 DEF PostFails
    <3>2. post' \in [Attempts -> {"none", "sent", "late", "answered"}]
      BY <2>2 DEF PostFails
    <3> QED
      BY <2>2, <3>1, <3>2 DEF PostFails
  <2>3. CASE PollFinished(a) \/ StopPolling(a) \/ Copy(a)
    BY <2>3 DEF PollFinished, StopPolling, Copy
  <2> QED
    BY <1>1, <2>1, <2>2, <2>3
<1>2. ASSUME NEW a \in Attempts, CleanUp(a) \/ Cancel(a) \/ Confirm(a) PROVE WorkerTypeOK'
  <2>1. Delete(a) \/ UNCHANGED <<jobs, files, cancel>>
    BY <1>2 DEF CleanUp, Cancel, Confirm
  <2>2. \E p \in Places \cup Outcomes : Goes(a, p)
    BY <1>2, <1>c DEF CleanUp, Cancel, Confirm
  <2>3. UNCHANGED <<thread, post, submitted>>
    BY <1>2 DEF CleanUp, Cancel, Confirm
  <2> HIDE DEF Goes
  <2> QED
    BY <1>a, <1>b, <2>1, <2>2, <2>3
<1>3. ASSUME NEW a \in Attempts, CreateJob(a) PROVE WorkerTypeOK'
  BY <1>3 DEF CreateJob, Unless
<1>4. ASSUME NEW a \in Attempts,
             ThreadStarts(a) \/ ThreadSkips(a) \/ ThreadCompletes(a) \/ ThreadFails(a)
               \/ ThreadInterrupted(a)
      PROVE  WorkerTypeOK'
  <2>1. CASE ThreadStarts(a) \/ ThreadSkips(a)
    BY <2>1 DEF ThreadStarts, ThreadSkips
  <2>2. CASE ThreadCompletes(a) \/ ThreadFails(a)
    BY <2>2 DEF ThreadCompletes, ThreadFails, ThreadEnds
  <2>3. CASE ThreadInterrupted(a)
    BY <2>3 DEF ThreadInterrupted, ThreadEnds
  <2> QED
    BY <1>4, <2>1, <2>2, <2>3
<1>5. CASE AskStatus
  BY <1>5 DEF AskStatus, Unless
<1>6. CASE Purge
  BY <1>6 DEF Purge, Unless
<1>7. CASE WorkerRestarts
  BY <1>7 DEF WorkerRestarts
<1>8. CASE ConciergeRestarts
  BY <1>8 DEF ConciergeRestarts
<1>9. CASE UNCHANGED downloadVars
  BY <1>9 DEF downloadVars
<1> QED
  BY <1>1, <1>2, <1>3, <1>4, <1>5, <1>6, <1>7, <1>8, <1>9 DEF WorkerNext, ClientStep

(* A step about one download leaves the other ones alone. *)
Kept(b) ==
  /\ UNCHANGED <<thread[b], post[b], pc[b], submitted[b]>>
  /\ jobs'[b] = jobs[b] \/ (jobs[b] \in Finished /\ jobs'[b] = "absent")

LEMMA KeptProtocol ==
  ASSUME NEW b \in Attempts, WorkerTypeOK, Matched(b), Fresh(b), Informed(b), Kept(b)
  PROVE  (Matched(b) /\ Fresh(b) /\ Informed(b))'
BY DEF WorkerTypeOK, Matched, Fresh, Informed, Kept, Finished

LEMMA WorkerProtocolStep == WorkerInv /\ [WorkerNext]_downloadVars => Protocol'
<1> SUFFICES ASSUME WorkerInv, [WorkerNext]_downloadVars, NEW b \in Attempts
             PROVE  (Matched(b) /\ Fresh(b) /\ Informed(b))'
  BY DEF Protocol
<1>0. WorkerTypeOK /\ Matched(b) /\ Fresh(b) /\ Informed(b)
  BY DEF WorkerInv, Protocol
<1> USE <1>0
<1> USE DEF WorkerTypeOK, Matched, Fresh, Informed, Goes, Fallback, workerVars, clientVars, Finished
<1>1. ASSUME NEW a \in Attempts, a # b,
             \/ Submit(a) \/ ClientStep(a) \/ CreateJob(a) \/ ThreadStarts(a) \/ ThreadSkips(a)
             \/ ThreadCompletes(a) \/ ThreadFails(a) \/ ThreadInterrupted(a)
      PROVE  Kept(b)
  BY <1>1 DEF Kept, Submit, ClientStep, CreateJob, GetsThread, ThreadStarts, ThreadSkips,
              ThreadCompletes, ThreadFails, ThreadInterrupted, ThreadEnds, Accepted, PostFails,
              PollFinished, StopPolling, Copy, CleanUp, Cancel, Confirm, Delete, Unless, Prunable
<1>2. CASE Submit(b) \/ Accepted(b) \/ PostFails(b)
  BY <1>2 DEF Submit, Accepted, PostFails
<1>3. CASE PollFinished(b) \/ StopPolling(b) \/ Copy(b)
  BY <1>3 DEF PollFinished, StopPolling, Copy
<1>4. CASE CleanUp(b) \/ Cancel(b) \/ Confirm(b)
  BY <1>4 DEF CleanUp, Cancel, Confirm, Delete
<1>5. CASE CreateJob(b)
  BY <1>5 DEF CreateJob, Unless, Prunable
<1>6. CASE ThreadStarts(b) \/ ThreadSkips(b)
  BY <1>6 DEF ThreadStarts, ThreadSkips, GetsThread
<1>7. CASE ThreadCompletes(b) \/ ThreadFails(b) \/ ThreadInterrupted(b)
  BY <1>7 DEF ThreadCompletes, ThreadFails, ThreadInterrupted, ThreadEnds
<1>8. CASE AskStatus
  BY <1>8 DEF AskStatus, Unless, Prunable
<1>9. CASE WorkerRestarts
  BY <1>9 DEF WorkerRestarts
<1>10. CASE ConciergeRestarts
  BY <1>10 DEF ConciergeRestarts, Outcomes
<1>11. CASE Purge
  BY <1>11 DEF Purge
<1>12. CASE UNCHANGED downloadVars
  BY <1>12 DEF downloadVars
<1> QED
  BY <1>1, <1>2, <1>3, <1>4, <1>5, <1>6, <1>7, <1>8, <1>9, <1>10, <1>11, <1>12,
     KeptProtocol DEF WorkerNext, ClientStep

(* The state of jobs, requests and clients is always what client and worker *)
(* take it for.                                                             *)
THEOREM WorkerInvariant == WorkerSpec => []WorkerInv
BY WorkerStarts, WorkerTypeStep, WorkerProtocolStep, PTL DEF WorkerSpec, WorkerInv

(* The tables and variables of worker and client keep their types. *)
THEOREM WorkerTypes == WorkerSpec => []WorkerTypeOK
BY WorkerInvariant, PTL DEF WorkerInv

(* "The worker may still be writing, so starting legacy fallback is         *)
(* unsafe": after an acknowledged submission the fallback waits for the     *)
(* worker, for any number of downloads.                                     *)
THEOREM SafeFallback == WorkerSpec => []FallbackAfterStop
<1>1. WorkerInv => FallbackAfterStop
  BY DEF WorkerInv, Protocol, Informed, Fresh, FallbackAfterStop, Quiet
<1> QED
  BY <1>1, WorkerInvariant, PTL

(* Nothing is copied from a folder in which a thread is at work. *)
THEOREM QuietCopies == WorkerSpec => []CopiesAtRest
<1>1. WorkerInv => CopiesAtRest
  BY DEF WorkerInv, Protocol, Informed, CopiesAtRest
<1> QED
  BY <1>1, WorkerInvariant, PTL

(* 404 and a final status mean that no thread works on the job. *)
THEOREM KnownThreads == WorkerSpec => []NoHiddenThreads
<1>1. WorkerInv => NoHiddenThreads
  BY DEF WorkerInv, WorkerTypeOK, Protocol, Matched, NoHiddenThreads, Finished
<1> QED
  BY <1>1, WorkerInvariant, PTL
=============================================================================
