----------------------------- MODULE FileDevice -----------------------------
(***************************************************************************)
(* The file devices (src/src/devices/file.c) over the virtual file system  *)
(* of the hosts (src/src/physfs.c).  A device opens nothing before the     *)
(* first read or write after it was given a name; what it then holds is a  *)
(* file, a directory or a mark that there is neither, and only the type it *)
(* remembers tells which, and so how to close it.  A directory is read as  *)
(* a text with one line per entry, through a buffer of one line.           *)
(*                                                                         *)
(* A file is its length and a line of a listing the entry it is about: no  *)
(* property is about their bytes.  Vectors run one after the other, so a   *)
(* request is over before the next; only the loop that reads a directory   *)
(* takes several steps.                                                    *)
(***************************************************************************)
EXTENDS Integers, Sequences, FiniteSets

CONSTANTS
  Devices,     \* the file devices
  NumDirBufs,  \* BUXN_NUM_FILE_DEVICES, as the size of the host's dir_buf
  Files,       \* paths of files, there or not
  Dirs,        \* paths of directories, which are not empty and so stay
  NoPath,      \* a name that is empty or too long
  Listing,     \* the length of each line of a directory; TooLong: no room for it
  TooLong,
  NULL,
  Gone,        \* what is open of a file that was deleted
  Invalid,     \* BUXN_FILE_INVALID_HANDLE
  MemSize,     \* size of the address space
  MaxLength,   \* bound of the model: how much a request is about
  MaxSize      \* bound of the model: how long a file gets

Paths == Files \union Dirs \union {NoPath}
Modes == {"READ", "WRITE", "APPEND"}
Types == {"INVALID", "REGULAR", "DIRECTORY"}

\* One handle more than there are devices, so that one that is never closed
\* would have a place to be.
Handles == 1 .. Cardinality(Devices) + 1
Free == [kind |-> "FREE", of |-> NULL, pos |-> 0]

ASSUME DevicesAssumption == IsFiniteSet(Devices) /\ NULL \notin Devices
ASSUME ListingAssumption ==
  \A dir \in Dirs : Listing[dir] \in Seq((Nat \ {0}) \union {TooLong})
ASSUME HandlesAssumption ==
  NULL \notin Handles /\ Invalid \notin Handles /\ NULL # Invalid
ASSUME NumDirBufsAssumption == NumDirBufs \in Nat /\ Cardinality(Devices) <= NumDirBufs
ASSUME PathsAssumption ==
  /\ Files \intersect Dirs = {} /\ NoPath \notin Files \union Dirs
  /\ {NULL, Gone} \intersect Paths = {} /\ NULL # Gone /\ NULL \notin Nat
ASSUME LengthsAssumption == MemSize \in Nat \ {0} /\ MaxLength \in Nat /\ MaxSize \in Nat

VARIABLES
  \* The device: handle, mode, stat.type, read_dir_pos, read_dir_len and the
  \* entry in read_dir_buf; and the name its name port points at.
  handle, mode, stat, dirPos, dirLen, dirEntry, path,
  \* The last request's success.
  success,
  \* The host: what is open, and how long the files are, NULL when not there.
  host, size,
  \* The request that is going on: the device that reads, or the one that
  \* writes, and length.
  reader, writer, left,
  \* History: what each device read since it opened a directory, and whether
  \* its buffer was empty then; how much the request that is going on is for.
  got, fresh, asked

device == <<handle, mode, stat>>
buffer == <<dirPos, dirLen, dirEntry>>
disk == <<host, size>>
request == <<reader, writer, left>>
opening == <<got, fresh>>
history == <<opening, asked>>
vars == <<device, success, buffer, path, disk, request, history>>

Init ==
  /\ handle = [d \in Devices |-> NULL]
  /\ mode = [d \in Devices |-> "READ"]
  /\ stat = [d \in Devices |-> "INVALID"]
  /\ success = 0
  /\ dirPos = [d \in Devices |-> 0]
  /\ dirLen = [d \in Devices |-> 0]
  /\ dirEntry = [d \in Devices |-> <<>>]
  /\ path = [d \in Devices |-> NoPath]
  /\ host = [h \in Handles |-> Free]
  /\ size \in [Files -> {NULL, 1}]
  /\ reader = NULL /\ writer = NULL /\ left = 0
  /\ got = [d \in Devices |-> <<>>]
  /\ fresh = [d \in Devices |-> TRUE]
  /\ asked = 0

-----------------------------------------------------------------------------
(***************************************************************************)
(* The host.                                                               *)
(***************************************************************************)
TypeOf(p) ==   \* buxn_file_stat()
  CASE p \in Dirs -> "DIRECTORY"
    [] p \in Files /\ size[p] # NULL -> "REGULAR"
    [] OTHER -> "INVALID"

\* What is open after buxn_file_fclose() or buxn_file_closedir(), whichever
\* the type says, of the handle of a device.
Closed(d) ==
  IF handle[d] \in Handles /\ host[handle[d]].kind = stat[d]
  THEN [host EXCEPT ![handle[d]] = Free]
  ELSE host

FreeHandle(open) == CHOOSE h \in Handles : open[h] = Free

DirBufFree(open) == Cardinality({h \in Handles : open[h].kind = "DIRECTORY"}) < NumDirBufs

\* buxn_file_opendir(): there are NumDirBufs buffers.
OpenDir(d, open) ==
  IF DirBufFree(open)
  THEN LET h == FreeHandle(open)
       IN  /\ handle' = [handle EXCEPT ![d] = h]
           /\ host' = [open EXCEPT ![h] = [kind |-> "DIRECTORY", of |-> path[d], pos |-> 0]]
  ELSE /\ handle' = [handle EXCEPT ![d] = NULL]
       /\ host' = open

\* buxn_file_fopen(), which may fail.  Writing begins with an empty file.
FOpen(d, open, m) ==
  \/ /\ handle' = [handle EXCEPT ![d] = NULL]
     /\ host' = open
     /\ UNCHANGED size
  \/ LET h == FreeHandle(open)
         file == path[d]
     IN  /\ handle' = [handle EXCEPT ![d] = h]
         /\ size' = [size EXCEPT ![file] = IF @ = NULL \/ m = "WRITE" THEN 0 ELSE @]
         /\ host' = [open EXCEPT ![h] =
              [kind |-> "REGULAR", of |-> file, pos |-> IF m = "APPEND" THEN size'[file] ELSE 0]]

-----------------------------------------------------------------------------
(***************************************************************************)
(* The device.                                                             *)
(***************************************************************************)
Close(d) ==
  /\ handle' = [handle EXCEPT ![d] = NULL]
  /\ host' = Closed(d)
  /\ got' = [got EXCEPT ![d] = <<>>]
  /\ fresh' = [fresh EXCEPT ![d] = TRUE]

SlipOpenedAs(type) == type   \* a file that was made keeps the type of none

OpenedAs(type) == "REGULAR"

Open(d, m) ==
  LET open == Closed(d)
      type == TypeOf(path[d])
  IN  /\ mode' = [mode EXCEPT ![d] = m]
      /\ got' = [got EXCEPT ![d] = <<>>]
      /\ fresh' = [fresh EXCEPT ![d] = type = "DIRECTORY" => dirPos[d] >= dirLen[d]]
      /\ \/ /\ type = "DIRECTORY"
            /\ OpenDir(d, open)
            /\ stat' = [stat EXCEPT ![d] = "DIRECTORY"]
            /\ UNCHANGED size
         \/ /\ path[d] \in Files
            /\ type = "REGULAR" \/ m # "READ"
            /\ FOpen(d, open, m)
            /\ stat' = [stat EXCEPT ![d] = OpenedAs(type)]
         \/ /\ type = "INVALID" /\ m = "READ"
            /\ handle' = [handle EXCEPT ![d] = Invalid]
            /\ host' = open
            /\ stat' = [stat EXCEPT ![d] = "INVALID"]
            /\ UNCHANGED size

\* buxn_file_set_mode(): a handle of another mode is closed first.
SetMode(d, m) ==
  IF handle[d] # NULL /\ mode[d] = m
  THEN UNCHANGED <<device, success, disk, opening>>
  ELSE /\ success' = IF handle[d] # NULL THEN 0 ELSE success
       /\ IF path[d] # NoPath
          THEN Open(d, m)
          ELSE Close(d) /\ UNCHANGED <<mode, stat, size>>

\* buxn_file_clamp_length(), in 16 bits.
Clamp(length, addr) ==
  LET room == (MemSize - addr) % MemSize
  IN  IF length > room THEN room ELSE length

Lengths == {Clamp(length, addr) : length \in 0 .. MaxLength, addr \in 0 .. MemSize - 1}

Idle == reader = NULL /\ writer = NULL

\* The program writes another name where the name port points at.
Rename(d) ==
  /\ Idle
  /\ \E p \in Paths \ {path[d]} : path' = [path EXCEPT ![d] = p]
  /\ UNCHANGED <<device, success, buffer, disk, request, history>>

Name(d) ==
  /\ Idle
  /\ handle[d] # NULL
  /\ Close(d)
  /\ UNCHANGED <<mode, stat, success, buffer, path, size, request, asked>>

Stat(d) ==
  /\ Idle
  /\ success' \in IF handle[d] = NULL /\ path[d] = NoPath THEN {0} ELSE Lengths
  /\ UNCHANGED <<device, buffer, path, disk, request, history>>

\* A file that is open somewhere stays there without a path: Gone.
Delete(d) ==
  /\ Idle
  /\ \/ /\ path[d] \in Files
        /\ size[path[d]] # NULL
        /\ size' = [size EXCEPT ![path[d]] = NULL]
        /\ host' = [h \in Handles |->
                      IF host[h].of = path[d] THEN [host[h] EXCEPT !.of = Gone, !.pos = 0]
                      ELSE host[h]]
        /\ success' = 1
     \/ /\ success' = 0
        /\ UNCHANGED disk
  /\ UNCHANGED <<device, buffer, path, request, history>>

Begin(d, m) ==
  /\ Idle
  /\ SetMode(d, m)
  /\ left' \in Lengths
  /\ asked' = left'
  /\ UNCHANGED <<buffer, path>>

BeginRead(d) == Begin(d, "READ") /\ reader' = d /\ UNCHANGED writer

BeginWrite(d) == \E m \in {"WRITE", "APPEND"} : Begin(d, m) /\ writer' = d /\ UNCHANGED reader

End(moved) ==
  /\ success' = moved
  /\ reader' = NULL /\ writer' = NULL
  /\ left' = 0 /\ asked' = 0

Nothing(d) ==
  /\ \/ d = reader /\ (handle[d] = NULL \/ stat[d] = "INVALID")
     \/ d = writer /\ (handle[d] = NULL \/ stat[d] # "REGULAR")
  /\ End(0)
  /\ UNCHANGED <<device, buffer, path, disk, opening>>

Least(a, b) == IF a < b THEN a ELSE b

\* How much of a request a file serves: what it has up to limit, or, when it is
\* Gone, any part of the request.
Served(file, limit) ==
  IF file.of = Gone THEN 0 .. left
  ELSE {IF file.pos < limit THEN Least(left, limit - file.pos) ELSE 0}

Advance(d, n) ==
  host' = IF host[handle[d]].of = Gone THEN host ELSE [host EXCEPT ![handle[d]].pos = @ + n]

ReadFile(d) ==
  /\ reader = d
  /\ handle[d] # NULL
  /\ stat[d] = "REGULAR"
  /\ LET file == host[handle[d]]
     IN  \E n \in Served(file, size[file.of]) : Advance(d, n) /\ End(n)
  /\ UNCHANGED <<device, buffer, path, size, opening>>

\* A file grows up to MaxSize, where the disk is full.
WriteFile(d) ==
  /\ writer = d
  /\ handle[d] # NULL
  /\ stat[d] = "REGULAR"
  /\ LET file == host[handle[d]]
     IN  \E n \in Served(file, MaxSize) :
            /\ size' = IF file.of # Gone /\ file.pos + n > size[file.of]
                       THEN [size EXCEPT ![file.of] = file.pos + n] ELSE size
            /\ Advance(d, n)
            /\ End(n)
  /\ UNCHANGED <<device, buffer, path, opening>>

ReadsDir(d) == reader = d /\ handle[d] # NULL /\ stat[d] = "DIRECTORY"

SlipEndReadDir(d) ==   \* a read ends with a line
  /\ ReadsDir(d)
  /\ left = 0 \/ (left < asked /\ dirPos[d] >= dirLen[d])
  /\ End(asked - left)
  /\ UNCHANGED <<device, buffer, path, disk, opening>>

EndReadDir(d) ==
  /\ ReadsDir(d)
  /\ left = 0
  /\ End(asked - left)
  /\ UNCHANGED <<device, buffer, path, disk, opening>>

\* The next line is put into the buffer; a line too long ends the read.
Refill(d) ==
  /\ ReadsDir(d)
  /\ left > 0
  /\ dirPos[d] >= dirLen[d]
  /\ LET dir == host[handle[d]]
         line == Listing[dir.of][dir.pos + 1]
     IN  /\ dir.pos < Len(Listing[dir.of])
         /\ host' = [host EXCEPT ![handle[d]].pos = @ + 1]
         /\ dirPos' = [dirPos EXCEPT ![d] = 0]
         /\ \/ /\ line # TooLong
               /\ dirLen' = [dirLen EXCEPT ![d] = line]
               /\ dirEntry' = [dirEntry EXCEPT ![d] = <<dir.of, dir.pos + 1>>]
               /\ UNCHANGED <<success, request, asked>>
            \/ /\ line = TooLong
               /\ dirLen' = [dirLen EXCEPT ![d] = 0]
               /\ End(asked - left)
               /\ UNCHANGED dirEntry
  /\ UNCHANGED <<device, path, size, opening>>

EndOfListing(d) ==
  /\ ReadsDir(d)
  /\ left > 0
  /\ dirPos[d] >= dirLen[d]
  /\ host[handle[d]].pos = Len(Listing[host[handle[d]].of])
  /\ dirPos' = [dirPos EXCEPT ![d] = 0]
  /\ dirLen' = [dirLen EXCEPT ![d] = 0]
  /\ End(asked - left)
  /\ UNCHANGED <<device, dirEntry, path, disk, opening>>

SlipTake(d) ==   \* what does not fit is not kept for the next read
  /\ ReadsDir(d)
  /\ left > 0
  /\ dirPos[d] < dirLen[d]
  /\ LET n == Least(left, dirLen[d] - dirPos[d])
     IN  /\ got' = [got EXCEPT ![d] = @ \o [k \in 1 .. n |-> <<dirEntry[d], dirPos[d] + k>>]]
         /\ dirPos' = [dirPos EXCEPT ![d] = dirLen[d]]
         /\ left' = left - n
  /\ UNCHANGED <<device, success, dirLen, dirEntry, path, disk, reader, writer, fresh, asked>>

Take(d) ==
  /\ ReadsDir(d)
  /\ left > 0
  /\ dirPos[d] < dirLen[d]
  /\ LET n == Least(left, dirLen[d] - dirPos[d])
     IN  /\ got' = [got EXCEPT ![d] = @ \o [k \in 1 .. n |-> <<dirEntry[d], dirPos[d] + k>>]]
         /\ dirPos' = [dirPos EXCEPT ![d] = @ + n]
         /\ left' = left - n
  /\ UNCHANGED <<device, success, dirLen, dirEntry, path, disk, reader, writer, fresh, asked>>

-----------------------------------------------------------------------------
Next ==
  \E d \in Devices :
     \/ Rename(d) \/ Name(d) \/ Stat(d) \/ Delete(d)
     \/ BeginRead(d) \/ BeginWrite(d)
     \/ Nothing(d) \/ ReadFile(d) \/ WriteFile(d)
     \/ Refill(d) \/ Take(d) \/ EndOfListing(d) \/ EndReadDir(d)

Spec == Init /\ [][Next]_vars
-----------------------------------------------------------------------------
(***************************************************************************)
(* Properties.                                                             *)
(***************************************************************************)

\* What a device holds is what the type it remembers says, so that it is closed
\* the way it was opened; two devices never hold the same; and nothing the host
\* has open is forgotten, so that a directory always finds a free buffer.
HandlesOwned ==
  /\ \A d \in Devices :
       /\ handle[d] \in Handles => host[handle[d]].kind = stat[d]
       /\ handle[d] = Invalid => stat[d] = "INVALID"
  /\ \A d, e \in Devices : handle[d] = handle[e] /\ handle[d] \in Handles => d = e
  /\ \A h \in Handles : host[h] # Free => \E d \in Devices : handle[d] = h
  /\ \A d \in Devices : handle[d] \notin Handles => DirBufFree(host)

\* The first bytes of a line, and a line; one too long is passed over.
Part(dir, i, n) == [k \in 1 .. n |-> <<<<dir, i>>, k>>]

Line(dir, i) == IF Listing[dir][i] = TooLong THEN <<>> ELSE Part(dir, i, Listing[dir][i])

\* The text of the first lines of a directory, by their number.
Texts(dir) ==
  LET text[n \in 0 .. Len(Listing[dir])] == IF n = 0 THEN <<>> ELSE text[n - 1] \o Line(dir, n)
  IN  text

Text(dir) == Texts(dir)[Len(Listing[dir])]

\* Read after read a directory is its listing, from its beginning, nothing
\* left out or said twice, however the lengths of the reads fall; unless the
\* directory before it was left in the middle of a line: the rest of that line
\* then comes first, since no request empties the buffer.
ListingInOrder ==
  \A d \in Devices :
     handle[d] \in Handles /\ stat[d] = "DIRECTORY" /\ fresh[d] =>
        LET text == Text(host[handle[d]].of)
        IN  Len(got[d]) <= Len(text) /\ \A i \in 1 .. Len(got[d]) : got[d][i] = text[i]

\* A read of a directory whose success is short has read all there is, which is
\* how a program knows, or met a line too long.
ShortRead(d) == ReadsDir(d) /\ reader' = NULL /\ success' < asked

MetEnd(d) ==
  LET dir == host[handle[d]]
      rest == SubSeq(Listing[dir.of], dir.pos + 1, Len(Listing[dir.of]))
  IN  dirPos[d] >= dirLen[d] /\ (rest = <<>> \/ Head(rest) = TooLong)

ShortReadMeansEnd == [][\A d \in Devices : ShortRead(d) => MetEnd(d)]_vars
=============================================================================
