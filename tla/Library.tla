------------------------------ MODULE Library ------------------------------
(***************************************************************************)
(* Rooms with the videos that are watched in them: uploadVideoHandler of   *)
(* internal/server/handlers.go over internal/media/storage.go and the      *)
(* table videos, with the process and the machine stopping at any point.   *)
(*                                                                         *)
(* A video's id and its storage key are made for it and never used again,  *)
(* so that Video stands for both.  Nothing in the start of the server      *)
(* looks at what the last run left in the directory.                       *)
(***************************************************************************)
EXTENDS Rooms

CONSTANTS MaxBytes,  \* config.MaxUploadBytes
          Size,      \* sizes of the files in the forms that are small enough to be read
          MaxStops   \* bound of the model: how often the server stops and starts again

ASSUME SizeAssumption == MaxBytes \in Nat /\ Size \subseteq Nat
ASSUME MaxStopsAssumption == MaxStops \in Nat

VARIABLES stage,  \* how far the upload of a video has come
          sender, \* who sends it
          sent,   \* the size of what is sent
          temp,   \* videos with an upload-* file in the directory
          file,   \* the size of the file under the video's key, NoFile without one
          dirty   \* videos of which the disk may not have the file or its name as they are now

VARIABLES torn,   \* videos of which a power failure took the contents or the name of a file
          left,   \* videos of which a failed upload left a file behind
          stops   \* how often the server has stopped

media == <<stage, sender, sent, temp, file, dirty, torn, left, stops>>
libraryVars == <<vars, media>>

-----------------------------------------------------------------------------
NoFile == -1

InSave == {"received", "open", "copied"}

LibraryTypeOK ==
  /\ TypeOK
  /\ stage \in [Video -> InSave \cup {"new", "saved", "done", "failed"}]
  /\ sender \in [Video -> User \cup {NoUser}]
  /\ sent \in [Video -> Nat] /\ file \in [Video -> Nat \cup {NoFile}]
  /\ temp \subseteq Video /\ dirty \subseteq Video
  /\ torn \subseteq Video /\ left \subseteq Video
  /\ stops \in 0..MaxStops

LibraryInit ==
  /\ Init
  /\ stage = [v \in Video |-> "new"]
  /\ sender = [v \in Video |-> NoUser]
  /\ sent = [v \in Video |-> 0]
  /\ temp = {}
  /\ file = [v \in Video |-> NoFile]
  /\ dirty = {} /\ torn = {} /\ left = {} /\ stops = 0

-----------------------------------------------------------------------------
(* uploadVideoHandler. *)

Moves(v, from, to) == stage[v] = from /\ stage' = [stage EXCEPT ![v] = to]

\* The whole form has been read; a bigger one is refused while it is read.
Receive(v, u, n) ==
  /\ Moves(v, "new", "received")
  /\ sender' = [sender EXCEPT ![v] = u]
  /\ sent' = [sent EXCEPT ![v] = n]
  /\ UNCHANGED <<vars, temp, file, dirty, torn, left, stops>>

CreateTemp(v) ==
  /\ Moves(v, "received", "open")
  /\ temp' = temp \cup {v}
  /\ dirty' = dirty \cup {v}
  /\ UNCHANGED <<vars, sender, sent, file, torn, left, stops>>

\* Mutant: a LimitReader of maxBytes, without the byte more that shows what is too big.
LimitedExactly(n) == IF n <= MaxBytes THEN n ELSE MaxBytes

\* LimitReader(file, maxBytes + 1): how much of a file of size n is copied.
Limited(n) == IF n <= MaxBytes THEN n ELSE MaxBytes + 1

CopyFile(v) ==
  /\ Moves(v, "open", "copied")
  /\ Limited(sent[v]) <= MaxBytes
  /\ UNCHANGED <<vars, sender, sent, temp, file, dirty, torn, left, stops>>

\* The file goes under its key, whole, and the deferred Remove finds nothing.  Neither the file
\* nor the directory is synced.
Rename(v) ==
  /\ Moves(v, "copied", "saved")
  /\ temp' = temp \ {v}
  /\ file' = [file EXCEPT ![v] = Limited(sent[v])]
  /\ dirty' = dirty \cup {v}
  /\ UNCHANGED <<vars, sender, sent, torn, left, stops>>

\* Mutant: an early return before the Remove is deferred.
SaveFailsUncleaned(v) ==
  /\ stage[v] \in InSave
  /\ stage' = [stage EXCEPT ![v] = "failed"]
  /\ UNCHANGED <<vars, sender, sent, temp, file, dirty, torn, left, stops>>

\* Save returns an error, the file too big or of the wrong type or the disk full, and the
\* deferred Remove takes the temporary file away.
SaveFails(v) ==
  /\ stage[v] \in InSave
  /\ stage' = [stage EXCEPT ![v] = "failed"]
  /\ temp' = temp \ {v}
  /\ dirty' = dirty \cup (temp \cap {v})
  /\ UNCHANGED <<vars, sender, sent, file, torn, left, stops>>

\* Mutant: the row before the file.
InsertVideoFirst(v) ==
  /\ stage[v] \in InSave
  /\ CreateVideo(v, sender[v])
  /\ UNCHANGED media

InsertVideo(v) ==
  /\ Moves(v, "saved", "done")
  /\ CreateVideo(v, sender[v])
  /\ UNCHANGED <<sender, sent, temp, file, dirty, torn, left, stops>>

\* The client has gone, which cancels the INSERT, or the database is busy for too long.
InsertFails(v) ==
  /\ Moves(v, "saved", "failed")
  /\ left' = left \cup {v}
  /\ UNCHANGED <<vars, sender, sent, temp, file, dirty, torn, stops>>

-----------------------------------------------------------------------------
(* The machine. *)

WriteBack(v) ==
  /\ v \in dirty
  /\ dirty' = dirty \ {v}
  /\ UNCHANGED <<vars, stage, sender, sent, temp, file, torn, left, stops>>

\* The server is started again: the uploads that were under way are gone, not so their files,
\* among them those under an upload-* name that are there now.
Restart(names) ==
  /\ stops < MaxStops /\ stops' = stops + 1
  /\ stage' = [v \in Video |-> IF stage[v] \in InSave \cup {"saved"} THEN "failed" ELSE stage[v]]
  /\ temp' = names
  /\ left' = left \cup names \cup {v \in Video : stage[v] = "saved"}
  /\ UNCHANGED <<vars, sender, sent>>

\* The process ends; what it has done in the directory is with the operating system.
Stop == Restart(temp) /\ UNCHANGED <<file, torn, dirty>>

\* The machine stops.  The rows are on the disk, since SQLite syncs a commit.  Of what nobody
\* synced, a file may be empty, and what was done to a name be undone: the file under its key
\* is missing, and the upload-* name is there (back) or is not.
PowerFails(emptied, undone, back) ==
  /\ emptied \subseteq {v \in dirty : file[v] # NoFile}
  /\ undone \subseteq dirty \ emptied /\ back \subseteq undone
  /\ Restart((temp \ undone) \cup back)
  /\ file' = [v \in Video |->
       IF v \in emptied THEN 0 ELSE IF v \in undone THEN NoFile ELSE file[v]]
  /\ torn' = torn \cup emptied \cup undone
  /\ dirty' = {}

Upload(v) ==
  \/ \E u \in User, n \in Size : Receive(v, u, n)
  \/ CreateTemp(v) \/ CopyFile(v) \/ Rename(v) \/ SaveFails(v)
  \/ InsertVideo(v) \/ InsertFails(v)
  \/ WriteBack(v)

LibraryNext ==
  \/ \E v \in Video : Upload(v)
  \/ Stop
  \/ \E emptied, undone, back \in SUBSET Video : PowerFails(emptied, undone, back)
  \/ RoomNext /\ UNCHANGED media

LibrarySpec == LibraryInit /\ [][LibraryNext]_libraryVars

-----------------------------------------------------------------------------
(* Properties. *)

\* The video of a room can be opened by its members: wherever an upload fails or the process
\* is stopped, no row names a file that is not there (handlers.go:399-405, 495).  Only a power
\* failure can take the file of a row away, before the disk has it or its name (storage.go:78).
RoomsHaveTheirVideo ==
  \A r \in Room : rooms[r] # NoRow =>
    /\ owner[rooms[r].video] # NoUser
    /\ file[rooms[r].video] # NoFile \/ rooms[r].video \in torn

\* What is stored is what was sent and no bigger than the limit, never the beginning of it
\* (storage.go:66-77); except for a file that the machine lost before it was on the disk.
StoredAreWhole ==
  \A v \in Video : file[v] # NoFile =>
    v \in torn \/ (file[v] = sent[v] /\ sent[v] <= MaxBytes)

\* A file that no row names belongs to an upload under way, or was left by a stop or by an
\* INSERT that failed; every other way out cleans up (storage.go:61).
LeftoversExplained ==
  \A v \in Video :
    /\ v \in temp => stage[v] \in {"open", "copied"} \/ v \in left
    /\ file[v] # NoFile /\ owner[v] = NoUser => stage[v] = "saved" \/ v \in left
=============================================================================
