------------------------------- MODULE Stdio --------------------------------
(***************************************************************************)
(* Streams of the SDK (compiler/sdk/runtime/stdio.c) over the descriptors  *)
(* of the program's process (src/src/filesystem/fd.c, sys_open and         *)
(* sys_close in syscalls.c).  A stream is a FILE from malloc, uncleared    *)
(* memory that anything may have filled; a descriptor is the first one     *)
(* that is free.  What is read does not matter, only how far.  A buffer    *)
(* that is not a stream's own is never looked at and counts as none.       *)
(***************************************************************************)
EXTENDS Integers, FiniteSetsExt

CONSTANTS Streams,    \* addresses of FILEs
          Descriptors, Buffers,
          MaxFileSize   \* of a file

NoBuffer == "no buffer"
Anywhere == "anywhere"   \* an address that is none of a buffer

ASSUME StdioAssumption ==
  Descriptors \subseteq Nat /\ MaxFileSize \in Nat /\ {NoBuffer, Anywhere} \cap Buffers = {}

VARIABLES stream,   \* the fields of each FILE
          live,     \* streams the program holds
          opened,   \* open descriptors
          offset, length,  \* of the file behind each descriptor
          buffers,  \* buffers that are allocated
          astray    \* "file" once a freopen has closed a file and opened none,
                    \* "buffer" once a stream took what memory held for its buffer,
                    \* "heap" once what is no allocated buffer was freed

iovars == <<stream, live, opened, offset, length, buffers, astray>>

\* A FILE of nobody's.
Blank == [fd |-> 0, is_eof |-> FALSE, error |-> FALSE, buf |-> NoBuffer,
          owned |-> FALSE]

StdioInit ==
  /\ stream = [f \in Streams |-> Blank] /\ live = {} /\ opened = {}
  /\ offset = [d \in Descriptors |-> 0] /\ length = offset
  /\ buffers = {} /\ astray = {}

-----------------------------------------------------------------------------
(* popen and pclose of fd.c *)

FirstFree == Min(Descriptors \ opened)

OpenOn(start) ==
  /\ opened # Descriptors /\ opened' = opened \cup {FirstFree}
  /\ \E size \in 0..MaxFileSize :
       /\ length' = [length EXCEPT ![FirstFree] = size]
       /\ offset' = [offset EXCEPT ![FirstFree] = IF start = "end" THEN size ELSE 0]

Fresh(fd) == [Blank EXCEPT !.fd = fd]

\* fopen: when there is no memory for the FILE the descriptor is closed.
FopenWithoutMemoryKeepingOpen ==
  OpenOn("start") /\ UNCHANGED <<stream, live, buffers, astray>>

FopenWithoutMemory == UNCHANGED iovars

Fopen(f) ==
  /\ f \notin live /\ \E start \in {"start", "end"} : OpenOn(start)
  /\ stream' = [stream EXCEPT ![f] = Fresh(FirstFree)]
  /\ live' = live \cup {f} /\ UNCHANGED <<buffers, astray>>

\* tmpfile sets only fd, is_eof and error: the rest is what the memory held,
\* a buffer of another stream or any other address among it.  A buffer that is
\* not owned, or owned without an address, is never freed, like none at all.
\* When the file cannot be made the FILE is not given back.
Tmpfile(f) ==
  /\ f \notin live /\ OpenOn("start") /\ live' = live \cup {f}
  /\ \E b \in Buffers \cup {NoBuffer, Anywhere} :
       /\ stream' = [stream EXCEPT ![f] = [Fresh(FirstFree) EXCEPT !.buf = b, !.owned = b # NoBuffer]]
       /\ astray' = IF b = NoBuffer THEN astray ELSE astray \cup {"buffer"}
  /\ UNCHANGED buffers

\* What free does with a stream's own buffer.
WithoutBuffer(f) ==
  IF stream[f].owned THEN buffers \ {stream[f].buf} ELSE buffers
AfterFree(f) ==
  IF stream[f].owned /\ stream[f].buf \notin buffers THEN astray \cup {"heap"} ELSE astray

\* A close that fails leaves the FILE as it is, with a buffer that is freed.
Fclose(f) ==
  /\ f \in live /\ buffers' = WithoutBuffer(f) /\ astray' = AfterFree(f)
  /\ IF stream[f].fd \in opened
       THEN /\ opened' = opened \ {stream[f].fd} /\ live' = live \ {f}
            /\ stream' = [stream EXCEPT ![f] = Blank]
       ELSE stream' = [stream EXCEPT ![f].error = TRUE] /\ UNCHANGED <<opened, live>>
  /\ UNCHANGED <<offset, length>>

\* The old file is closed first; a buffer of the stream's own is forgotten.
Freopen(f) ==
  /\ f \in live
  /\ IF stream[f].fd \notin opened
       THEN stream' = [stream EXCEPT ![f].error = TRUE] /\ UNCHANGED <<opened, offset, length, astray>>
       ELSE LET fd == Min((Descriptors \ opened) \cup {stream[f].fd}) IN
            \/ \E size \in 0..MaxFileSize :
                 /\ opened' = (opened \ {stream[f].fd}) \cup {fd}
                 /\ length' = [length EXCEPT ![fd] = size]
                 /\ offset' = [offset EXCEPT ![fd] = 0]
                 /\ stream' = [stream EXCEPT ![f] = Fresh(fd)]
                 /\ UNCHANGED astray
            \/ /\ opened' = opened \ {stream[f].fd} /\ astray' = astray \cup {"file"}
               /\ stream' = [stream EXCEPT ![f].error = TRUE, ![f].is_eof = FALSE]
               /\ UNCHANGED <<offset, length>>
  /\ UNCHANGED <<live, buffers>>

-----------------------------------------------------------------------------
\* fread, getc, fgets: nothing more is read once the end was met.  A read that
\* is refused sets the error.
Fread(f, n) ==
  LET fd == stream[f].fd
      left == length[fd] - offset[fd] IN
  /\ f \in live /\ ~stream[f].is_eof
  /\ IF fd \notin opened
       THEN stream' = [stream EXCEPT ![f].error = TRUE] /\ UNCHANGED offset
       ELSE /\ offset' = [offset EXCEPT ![fd] = @ + Min({n, left})]
            /\ stream' = [stream EXCEPT ![f].is_eof = n > left]
  /\ UNCHANGED <<live, opened, length, buffers, astray>>

\* fwrite, fputs, fputc: a write that fails is not reported.
Fwrite(f) ==
  LET fd == stream[f].fd IN
  /\ f \in live /\ fd \in opened /\ offset[fd] < MaxFileSize
  /\ offset' = [offset EXCEPT ![fd] = @ + 1]
  /\ length' = [length EXCEPT ![fd] = Max({@, offset[fd] + 1})]
  /\ UNCHANGED <<stream, live, opened, buffers, astray>>

\* plseek takes a position behind the end for the end.
Fseek(f, to) ==
  LET fd == stream[f].fd IN
  /\ f \in live /\ fd \in opened
  /\ offset' = [offset EXCEPT ![fd] = Min({to, length[fd]})]
  /\ stream' = [stream EXCEPT ![f].is_eof = FALSE]
  /\ UNCHANGED <<live, opened, length, buffers, astray>>

Clearerr(f) ==
  /\ f \in live
  /\ stream' = [stream EXCEPT ![f].is_eof = FALSE, ![f].error = FALSE]
  /\ UNCHANGED <<live, opened, offset, length, buffers, astray>>

\* setvbuf: the old buffer goes first, so that a failure leaves the stream
\* without one.  The program may give a buffer of its own instead.
Unbuffered(f) == [stream[f] EXCEPT !.buf = NoBuffer, !.owned = FALSE]

Setvbuf(f) ==
  /\ f \in live /\ astray' = AfterFree(f)
  /\ \/ stream' = [stream EXCEPT ![f] = Unbuffered(f)] /\ buffers' = WithoutBuffer(f)
     \/ /\ stream' = [stream EXCEPT ![f] = [Unbuffered(f) EXCEPT !.error = TRUE]]
        /\ buffers' = WithoutBuffer(f)
     \/ \E b \in Buffers \ WithoutBuffer(f) :
          /\ stream' = [stream EXCEPT ![f] = [Unbuffered(f) EXCEPT !.buf = b, !.owned = TRUE]]
          /\ buffers' = WithoutBuffer(f) \cup {b}
  /\ UNCHANGED <<live, opened, offset, length>>

\* Nothing is known of the streams once something else than a buffer was freed.
StdioNext ==
  /\ "heap" \notin astray
  /\ \/ FopenWithoutMemory
     \/ \E f \in Streams :
          \/ Fopen(f) \/ Tmpfile(f) \/ Fclose(f) \/ Freopen(f) \/ Setvbuf(f) \/ Clearerr(f)
          \/ Fwrite(f)
          \/ \E n \in 1..(MaxFileSize + 1) : Fread(f, n) \/ Fseek(f, n - 1)

StdioSpec == StdioInit /\ [][StdioNext]_iovars

-----------------------------------------------------------------------------
\* Every open descriptor belongs to one stream and every stream has one, in
\* whatever order streams are opened, reopened and closed and whatever fails;
\* after a freopen that failed (stdio.c:120) the old stream keeps a number that
\* the next file opened gets, and closes or reads that one.
DescriptorsOwned ==
  "file" \notin astray =>
    /\ opened = {stream[f].fd : f \in live}
    /\ \A f, g \in live : stream[f].fd = stream[g].fd => f = g

\* A stream's own buffer is allocated and not another stream's, so that it is
\* freed once; unless tmpfile has found a buffer in the memory it got for its
\* FILE (stdio.c:235), or a freopen has failed.
BuffersOwned ==
  astray = {} =>
    \A f \in live : stream[f].owned =>
      /\ stream[f].buf \in buffers
      /\ \A g \in live : stream[g].buf = stream[f].buf => f = g

\* A stream is at its end only while its file has nothing left to read.
EofIsTrue ==
  "file" \notin astray =>
    \A f \in live : stream[f].is_eof => offset[stream[f].fd] = length[stream[f].fd]

\* A stream has a descriptor and a buffer of its own and knows where its file
\* ends (stdio.c); nothing but an allocated buffer is freed, where no freopen has
\* failed and no tmpfile has found a buffer in its memory.
StreamsAreSound ==
  IF "heap" \in astray THEN astray \cap {"file", "buffer"} # {}
  ELSE DescriptorsOwned /\ BuffersOwned /\ EofIsTrue
=============================================================================
