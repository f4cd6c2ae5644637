---------------------------- MODULE LibraryProofs ----------------------------
(***************************************************************************)
(* Proofs about Library, for any sizes, any limit and any number of stops: *)
(* the uploads leave the tables to Rooms, whose theorems therefore hold    *)
(* here, and a row of videos or rooms is without its file only when a      *)
(* power failure took it.                                                  *)
(***************************************************************************)
EXTENDS Library, RoomsProofs

-----------------------------------------------------------------------------
(* The inductive invariant. *)

\* What the two properties of files need to know of a video: what a stage of the upload has
\* brought about, and that a file is only there after it.
VideoOK(v) ==
  /\ stage[v] # "new" => sender[v] \in User
  /\ stage[v] = "copied" => sent[v] <= MaxBytes
  /\ stage[v] = "saved" => file[v] # NoFile
  /\ owner[v] # NoUser => file[v] # NoFile \/ v \in torn
  /\ file[v] # NoFile =>
       /\ stage[v] \in {"saved", "done", "failed"}
       /\ v \in torn \/ (file[v] = sent[v] /\ sent[v] <= MaxBytes)
  /\ v \in temp => stage[v] \in {"open", "copied"} \/ v \in left
  /\ file[v] # NoFile /\ owner[v] = NoUser => stage[v] = "saved" \/ v \in left

LibraryInv == LibraryTypeOK /\ RoomsHaveTheirVideo /\ \A v \in Video : VideoOK(v)

LEMMA InitLibraryInv == LibraryInit => LibraryInv
<1> SUFFICES ASSUME LibraryInit
             PROVE  LibraryInv
  OBVIOUS
<1>1. LibraryTypeOK
  BY InitTypeOK, MaxStopsAssumption DEF LibraryInit, LibraryTypeOK, InSave
<1>2. RoomsHaveTheirVideo
  BY DEF LibraryInit, Init, RoomsHaveTheirVideo
<1>3. \A v \in Video : VideoOK(v)
  BY DEF LibraryInit, Init, VideoOK
<1>4. QED
  BY <1>1, <1>2, <1>3 DEF LibraryInv

\* A step of one upload, away from the tables.
UploadStep(v) ==
  \/ \E u \in User, n \in Size : Receive(v, u, n)
  \/ CreateTemp(v) \/ CopyFile(v) \/ Rename(v) \/ SaveFails(v) \/ InsertFails(v) \/ WriteBack(v)

LEMMA UploadStepType ==
  ASSUME LibraryTypeOK, NEW v \in Video, UploadStep(v)
  PROVE  LibraryTypeOK' /\ UNCHANGED vars
<1>1. UNCHANGED vars
  BY DEF UploadStep, Receive, CreateTemp, CopyFile, Rename, SaveFails, InsertFails, WriteBack
<1>2. TypeOK'
  BY <1>1, NextTypeOK DEF LibraryTypeOK
<1>3. Limited(sent[v]) \in Nat
  BY SizeAssumption DEF Limited, LibraryTypeOK
<1>4. QED
  BY <1>1, <1>2, <1>3, SizeAssumption
     DEF LibraryTypeOK, UploadStep, Receive, CreateTemp, CopyFile, Rename, SaveFails,
         InsertFails, WriteBack, Moves, InSave

\* What is copied within the limit is all that was sent.
LEMMA LimitedWhole ==
  ASSUME NEW n \in Nat, n <= MaxBytes
  PROVE  Limited(n) = n
  BY DEF Limited

LEMMA LimitedTooBig ==
  ASSUME NEW n \in Nat, Limited(n) <= MaxBytes
  PROVE  n <= MaxBytes
  BY SizeAssumption DEF Limited

LEMMA UploadStepKeepsVideos ==
  ASSUME LibraryInv, NEW v \in Video, UploadStep(v), NEW w \in Video
  PROVE  VideoOK(w)'
<1> USE DEF LibraryInv, LibraryTypeOK, VideoOK, InSave
<1>1. ASSUME NEW u \in User, NEW n \in Size, Receive(v, u, n)
      PROVE  VideoOK(w)'
  BY <1>1 DEF Receive, Moves, vars
<1>2. CASE CreateTemp(v)
  BY <1>2 DEF CreateTemp, Moves, vars
<1>3. CASE CopyFile(v)
  BY <1>3, LimitedTooBig DEF CopyFile, Moves, vars
<1>4. CASE Rename(v)
  <2>1. Limited(sent[v]) = sent[v] /\ sent[v] <= MaxBytes /\ sent[v] # NoFile
    BY <1>4, LimitedWhole DEF Rename, Moves, NoFile
  <2>2. CASE w = v
    BY <1>4, <2>1, <2>2 DEF Rename, Moves, vars
  <2>3. CASE w # v
    BY <1>4, <2>3 DEF Rename, Moves, vars
  <2>4. QED
    BY <2>2, <2>3
<1>5. CASE SaveFails(v)
  BY <1>5 DEF SaveFails, vars
<1>6. CASE InsertFails(v)
  BY <1>6 DEF InsertFails, Moves, vars
<1>7. CASE WriteBack(v)
  BY <1>7 DEF WriteBack, vars
<1>8. QED
  BY <1>1, <1>2, <1>3, <1>4, <1>5, <1>6, <1>7 DEF UploadStep

\* No upload takes away a file, nor is what was lost forgotten.
LEMMA UploadStepKeepsFiles ==
  ASSUME LibraryInv, NEW v \in Video, UploadStep(v), NEW w \in Video
  PROVE  (file[w] # NoFile => file'[w] # NoFile) /\ torn' = torn
<1>1. Limited(sent[v]) # NoFile
  BY SizeAssumption DEF Limited, LibraryInv, LibraryTypeOK, NoFile
<1>2. QED
  BY <1>1 DEF LibraryInv, LibraryTypeOK, UploadStep, Receive, CreateTemp, CopyFile, Rename,
              SaveFails, InsertFails, WriteBack

-----------------------------------------------------------------------------
(* The steps. *)

LEMMA UploadStepKeepsInv ==
  ASSUME LibraryInv, NEW v \in Video, UploadStep(v)
  PROVE  LibraryInv' /\ UNCHANGED vars
<1>1. LibraryTypeOK' /\ UNCHANGED vars
  BY UploadStepType DEF LibraryInv
<1>2. \A w \in Video : VideoOK(w)'
  BY UploadStepKeepsVideos
<1>3. RoomsHaveTheirVideo'
  <2> SUFFICES ASSUME NEW r \in Room, rooms[r] # NoRow
               PROVE  /\ owner[rooms[r].video] # NoUser
                      /\ file'[rooms[r].video] # NoFile \/ rooms[r].video \in torn'
    BY <1>1 DEF RoomsHaveTheirVideo, vars
  <2>1. rooms[r].video \in Video
    BY DEF LibraryInv, LibraryTypeOK, TypeOK, RoomRow
  <2>2. QED
    BY <2>1, UploadStepKeepsFiles DEF LibraryInv, RoomsHaveTheirVideo
<1>4. QED
  BY <1>1, <1>2, <1>3 DEF LibraryInv

\* The INSERT is a statement of Rooms, for the user who sent the file.
LEMMA InsertKeepsInv ==
  ASSUME LibraryInv, NEW v \in Video, InsertVideo(v)
  PROVE  LibraryInv' /\ Next
<1>1. sender[v] \in User
  BY DEF LibraryInv, InsertVideo, Moves, VideoOK
<1>2. Next
  BY <1>1 DEF InsertVideo, Next
<1>3. LibraryTypeOK'
  BY <1>2, NextTypeOK DEF LibraryInv, LibraryTypeOK, InsertVideo, Moves
<1>4. \A w \in Video : VideoOK(w)'
  BY <1>1, NoUserAssumption
     DEF LibraryInv, LibraryTypeOK, TypeOK, InsertVideo, CreateVideo, Moves, VideoOK
<1>5. RoomsHaveTheirVideo'
  <2> SUFFICES ASSUME NEW r \in Room, rooms[r] # NoRow
               PROVE  /\ owner'[rooms[r].video] # NoUser
                      /\ file[rooms[r].video] # NoFile \/ rooms[r].video \in torn
    BY DEF RoomsHaveTheirVideo, InsertVideo, CreateVideo
  <2>1. rooms[r].video \in Video
    BY DEF LibraryInv, LibraryTypeOK, TypeOK, RoomRow
  <2>2. QED
    BY <1>1, <2>1, NoUserAssumption
       DEF LibraryInv, LibraryTypeOK, TypeOK, RoomsHaveTheirVideo, InsertVideo, CreateVideo
<1>6. QED
  BY <1>2, <1>3, <1>4, <1>5 DEF LibraryInv

\* What a restart may find of the files: what is not as it was is torn, and no file comes
\* of nothing.
FilesKept ==
  /\ file' \in [Video -> Nat \cup {NoFile}] /\ torn' \subseteq Video /\ dirty' \subseteq Video
  /\ torn \subseteq torn'
  /\ \A v \in Video : file'[v] = file[v] \/ v \in torn'
  /\ \A v \in Video : file'[v] # NoFile => file[v] # NoFile

LEMMA RestartKeepsInv ==
  ASSUME LibraryInv, NEW names \in SUBSET Video, Restart(names), FilesKept
  PROVE  LibraryInv' /\ UNCHANGED vars
<1>1. UNCHANGED vars
  BY DEF Restart
<1>2. TypeOK'
  BY <1>1, NextTypeOK DEF LibraryInv, LibraryTypeOK
<1>3. LibraryTypeOK'
  BY <1>2, MaxStopsAssumption DEF LibraryInv, LibraryTypeOK, Restart, FilesKept, InSave
<1>4. ASSUME NEW w \in Video
      PROVE  VideoOK(w)'
  <2>1. /\ stage'[w] = IF stage[w] \in InSave \cup {"saved"} THEN "failed" ELSE stage[w]
        /\ owner' = owner /\ sender' = sender /\ sent' = sent /\ temp' = names
        /\ w \in left' <=> w \in left \cup names \/ stage[w] = "saved"
    BY <1>1 DEF Restart, vars, LibraryInv, LibraryTypeOK
  <2>2. /\ w \in torn => w \in torn'
        /\ file'[w] = file[w] \/ w \in torn'
        /\ file'[w] # NoFile => file[w] # NoFile
    BY DEF FilesKept
  <2>3. VideoOK(w)
    BY DEF LibraryInv
  <2>4. QED
    BY <2>1, <2>2, <2>3 DEF VideoOK, InSave
<1>5. RoomsHaveTheirVideo'
  <2> SUFFICES ASSUME NEW r \in Room, rooms[r] # NoRow
               PROVE  /\ owner[rooms[r].video] # NoUser
                      /\ file'[rooms[r].video] # NoFile \/ rooms[r].video \in torn'
    BY <1>1 DEF RoomsHaveTheirVideo, vars
  <2>1. rooms[r].video \in Video
    BY DEF LibraryInv, LibraryTypeOK, TypeOK, RoomRow
  <2>2. QED
    BY <2>1 DEF LibraryInv, RoomsHaveTheirVideo, FilesKept
<1>6. QED
  BY <1>1, <1>3, <1>4, <1>5 DEF LibraryInv

LEMMA StopKeepsInv ==
  ASSUME LibraryInv, Stop
  PROVE  LibraryInv' /\ UNCHANGED vars
<1>1. temp \in SUBSET Video /\ FilesKept
  BY DEF LibraryInv, LibraryTypeOK, Stop, FilesKept
<1>2. QED
  BY <1>1, RestartKeepsInv DEF Stop

LEMMA PowerFailsKeepsInv ==
  ASSUME LibraryInv, NEW emptied \in SUBSET Video, NEW undone \in SUBSET Video,
         NEW back \in SUBSET Video, PowerFails(emptied, undone, back)
  PROVE  LibraryInv' /\ UNCHANGED vars
<1>1. (temp \ undone) \cup back \in SUBSET Video
  BY DEF LibraryInv, LibraryTypeOK
<1>2. FilesKept
  <2>1. file' \in [Video -> Nat \cup {NoFile}]
    BY DEF LibraryInv, LibraryTypeOK, PowerFails
  <2>2. torn' \subseteq Video /\ dirty' \subseteq Video /\ torn \subseteq torn'
    BY DEF LibraryInv, LibraryTypeOK, PowerFails
  <2>3. QED
    BY <2>1, <2>2 DEF PowerFails, FilesKept
<1>3. QED
  BY <1>1, <1>2, RestartKeepsInv DEF PowerFails

\* A room keeps its video, and a new one is for a video that has a row.
LEMMA RoomsKeepTheirVideo ==
  ASSUME TypeOK, RoomNext, NEW q \in Room, rooms'[q] # NoRow
  PROVE  /\ owner' = owner
         /\ \/ rooms[q] # NoRow /\ rooms'[q].video = rooms[q].video
            \/ rooms'[q].video \in Video /\ owner[rooms'[q].video] # NoUser
<1> USE DEF TypeOK
<1>1. ASSUME NEW r \in Room, NEW v \in Video, NEW u \in User, CreateRoom(r, v, u)
      PROVE  owner' = owner /\ \/ rooms'[q] = rooms[q]
                               \/ rooms'[q].video = v /\ owner[v] = u
  BY <1>1 DEF CreateRoom
<1>2. ASSUME NEW r \in Room, NEW u \in User, JoinRoom(r, u) \/ \E h \in User : KickMember(r, h, u)
      PROVE  owner' = owner /\ rooms' = rooms
  BY <1>2 DEF JoinRoom, KickMember
<1>3. ASSUME NEW r \in Room, ExpireInvite(r)
      PROVE  owner' = owner /\ rooms'[q].video = rooms[q].video /\ rooms[q] # NoRow
  BY <1>3, InviteWritten, NoRowAssumption DEF ExpireInvite
<1>4. ASSUME NEW r \in Room, NEW u \in User, NEW b \in BOOLEAN, NEW p \in Sought,
             UpdatePlayback(r, u, b, p)
      PROVE  owner' = owner /\ rooms'[q].video = rooms[q].video /\ rooms[q] # NoRow
  BY <1>4, PlaybackWritten, NoRowAssumption DEF UpdatePlayback
<1>5. ASSUME NEW r \in Room, NEW h \in User, NEW b \in BOOLEAN, SetRoomLocked(r, h, b)
      PROVE  owner' = owner /\ rooms'[q].video = rooms[q].video /\ rooms[q] # NoRow
  BY <1>5, LockWritten, NoRowAssumption DEF SetRoomLocked
<1>6. ASSUME NEW r \in Room, NEW h \in User, NEW u \in User, TransferHost(r, h, u)
      PROVE  owner' = owner /\ rooms'[q].video = rooms[q].video /\ rooms[q] # NoRow
  BY <1>6, HostWritten, NoRowAssumption DEF TransferHost
<1>7. QED
  BY <1>1, <1>2, <1>3, <1>4, <1>5, <1>6, NoUserAssumption DEF RoomNext

LEMMA RoomNextKeepsInv ==
  ASSUME LibraryInv, RoomNext, UNCHANGED media
  PROVE  LibraryInv'
<1>1. TypeOK /\ TypeOK'
  BY NextTypeOK DEF LibraryInv, LibraryTypeOK, Next
<1>2. LibraryTypeOK'
  BY <1>1 DEF LibraryInv, LibraryTypeOK, media
<1>3. owner' = owner
  BY DEF RoomNext, CreateRoom, JoinRoom, ExpireInvite, UpdatePlayback, KickMember,
         SetRoomLocked, TransferHost
<1>4. \A w \in Video : VideoOK(w)'
  BY <1>3 DEF LibraryInv, VideoOK, media
<1>5. RoomsHaveTheirVideo'
  <2> SUFFICES ASSUME NEW r \in Room, rooms'[r] # NoRow
               PROVE  /\ owner[rooms'[r].video] # NoUser
                      /\ file[rooms'[r].video] # NoFile \/ rooms'[r].video \in torn
    BY <1>3 DEF RoomsHaveTheirVideo, media
  <2>1. CASE rooms[r] # NoRow /\ rooms'[r].video = rooms[r].video
    BY <2>1 DEF LibraryInv, RoomsHaveTheirVideo
  <2>2. CASE rooms'[r].video \in Video /\ owner[rooms'[r].video] # NoUser
    BY <2>2 DEF LibraryInv, VideoOK
  <2>3. QED
    BY <1>1, <2>1, <2>2, RoomsKeepTheirVideo
<1>6. QED
  BY <1>2, <1>4, <1>5 DEF LibraryInv

LEMMA NextLibraryInv ==
  LibraryInv /\ [LibraryNext]_libraryVars => LibraryInv' /\ [Next]_vars
<1> SUFFICES ASSUME LibraryInv, [LibraryNext]_libraryVars
             PROVE  LibraryInv' /\ [Next]_vars
  OBVIOUS
<1>1. ASSUME NEW v \in Video, Upload(v)
      PROVE  LibraryInv' /\ [Next]_vars
  <2>1. CASE UploadStep(v)
    BY <2>1, UploadStepKeepsInv
  <2>2. CASE InsertVideo(v)
    BY <2>2, InsertKeepsInv
  <2>3. QED
    BY <1>1, <2>1, <2>2 DEF Upload, UploadStep
<1>2. CASE Stop
  BY <1>2, StopKeepsInv
<1>3. ASSUME NEW emptied \in SUBSET Video, NEW undone \in SUBSET Video,
             NEW back \in SUBSET Video, PowerFails(emptied, undone, back)
      PROVE  LibraryInv' /\ [Next]_vars
  BY <1>3, PowerFailsKeepsInv
<1>4. CASE RoomNext /\ UNCHANGED media
  BY <1>4, RoomNextKeepsInv DEF Next
<1>5. CASE UNCHANGED libraryVars
  BY <1>5 DEF libraryVars, vars, media, LibraryInv, LibraryTypeOK, TypeOK,
              RoomsHaveTheirVideo, VideoOK
<1>6. QED
  BY <1>1, <1>2, <1>3, <1>4, <1>5 DEF LibraryNext

LEMMA LibraryInvariant == LibrarySpec => []LibraryInv
  BY InitLibraryInv, NextLibraryInv, PTL DEF LibrarySpec

-----------------------------------------------------------------------------
(* Theorems. *)

\* The uploads, the stops and the starts write the tables in no other way than the
\* statements of Rooms do.
THEOREM LibraryImplementsRooms == LibrarySpec => Spec
<1>1. LibraryInit => Init
  BY DEF LibraryInit
<1>2. QED
  BY <1>1, LibraryInvariant, NextLibraryInv, PTL DEF LibrarySpec, Spec

\* So the library keeps what Rooms promises a watch room.
THEOREM LibraryKeepsPromise == LibrarySpec => PromiseKept
  BY LibraryImplementsRooms, ImplementsWatchRoom

\* Whatever upload was cut off where, the video of a room has its row, and its file unless a
\* power failure took that.
THEOREM VideosCorrect == LibrarySpec => []RoomsHaveTheirVideo
<1>1. LibraryInv => RoomsHaveTheirVideo
  BY DEF LibraryInv
<1>2. QED
  BY <1>1, LibraryInvariant, PTL

\* A stored file is all of what was sent, within the limit, unless the machine lost it.
THEOREM WholeCorrect == LibrarySpec => []StoredAreWhole
<1>1. LibraryInv => StoredAreWhole
  BY DEF LibraryInv, VideoOK, StoredAreWhole
<1>2. QED
  BY <1>1, LibraryInvariant, PTL

\* A file without a row is an upload under way, or was left by a stop or a failed INSERT.
THEOREM LeftoversCorrect == LibrarySpec => []LeftoversExplained
<1>1. LibraryInv => LeftoversExplained
  BY DEF LibraryInv, VideoOK, LeftoversExplained
<1>2. QED
  BY <1>1, LibraryInvariant, PTL
=============================================================================
