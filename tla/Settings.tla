------------------------------ MODULE Settings ------------------------------
(***************************************************************************)
(* get_next_line, src/src/gnl: files read line by line, through a buffer   *)
(* of BufferSize bytes for each descriptor.  The buffers are neighbours in *)
(* memory, have no room for a terminator, and are cleared one byte too     *)
(* far: they are modelled as one stretch of memory, byte by byte.          *)
(*                                                                         *)
(* A byte is End, Newline or one of Letters.                           *)
(***************************************************************************)
EXTENDS Integers, SequencesExt

CONSTANTS
    BufferSize,     \* BUFFER_SIZE
    MaxFds,         \* FS_MAX_FDS
    Letters,        \* the bytes of a line
    MaxLength       \* longest file (a bound)

ASSUME LineAssumption == BufferSize \in Nat \ {0} /\ MaxFds \in Nat \ {0}

VARIABLES
    memory,     \* `buffer`, and the byte behind it
    content,    \* what each open file holds, <<>> when it is closed
    pos,        \* how far it was read from the disk
    returned,   \* the lines that get_next_line returned
    mixed       \* descriptors whose buffer met that of a neighbour

rvars == <<memory, content, pos, returned, mixed>>

End == "end"
Newline == "newline"

Fds == 0..(MaxFds - 1)
Base(fd) == fd * BufferSize
Bytes == 0..(MaxFds * BufferSize)

ReaderInit ==
    /\ memory = [b \in Bytes |-> End]
    /\ content = [fd \in Fds |-> <<>>]
    /\ pos = [fd \in Fds |-> 0]
    /\ returned = [fd \in Fds |-> <<>>]
    /\ mixed = {}

----------------------------------------------------------------------------

(* clear_buffer: BUFFER_SIZE + 1 bytes. *)
Cleared(m, fd) == [b \in Bytes |-> IF b \in Base(fd)..(Base(fd) + BufferSize) THEN End ELSE m[b]]

(* count_new_line: the offset of the first newline or end. *)
LineEnd(m, fd) ==
    LET ends == {b \in Bytes : b >= Base(fd) /\ (m[b] \in {End, Newline} \/ b = MaxFds * BufferSize)}
    IN  (CHOOSE b \in ends : \A d \in ends : b <= d) - Base(fd)

HasNewline(m, fd) == m[Base(fd) + LineEnd(m, fd)] = Newline

(* What strcat_realloc appends: n bytes from a buffer on, or up to the end. *)
Text(m, fd, n) ==
    LET stop == {i \in 0..(n - 1) : m[Base(fd) + i] = End}
        len == IF stop = {} THEN n ELSE CHOOSE i \in stop : \A j \in stop : i <= j
    IN  [i \in 1..len |-> m[Base(fd) + i - 1]]

(* move_buffer: what follows byte i moves to the front, with the first     *)
(* byte of the next buffer behind it.                                      *)
Moved(m, fd, i) ==
    LET moved == [b \in Bytes |->
                    IF b \in Base(fd)..(Base(fd) + BufferSize - i - 1) THEN m[b + i + 1] ELSE m[b]]
    IN  IF i = BufferSize - 1 THEN Cleared(moved, fd) ELSE moved

(* read: the next bytes of the file, without a terminator. *)
Chunk(fd, p) ==
    SubSeq(content[fd], p + 1,
           IF p + BufferSize < Len(content[fd]) THEN p + BufferSize ELSE Len(content[fd]))
Filled(m, fd, chunk) ==
    [b \in Bytes |-> IF b - Base(fd) + 1 \in DOMAIN chunk THEN chunk[b - Base(fd) + 1] ELSE m[b]]

(* One turn of the loop that reads until a newline is found or the file    *)
(* ends.                                                                   *)
ReadTurn(s, fd) ==
    LET chunk == Chunk(fd, s.pos)
        filled == Filled(s.memory, fd, chunk)
        i == LineEnd(filled, fd)
        moved == Moved(filled, fd, i)
    IN  IF s.done \/ chunk = <<>> THEN [s EXCEPT !.done = TRUE]
        ELSE [memory |-> IF HasNewline(filled, fd) THEN moved ELSE Cleared(moved, fd),
              pos |-> s.pos + Len(chunk),
              line |-> s.line \o Text(filled, fd, i + 1),
              done |-> HasNewline(filled, fd)]

ReadOn(start, fd) ==
    LET turns[n \in 0..(MaxLength + 1)] ==
            IF n = 0 THEN start
            ELSE CHOOSE t \in {ReadTurn(s, fd) : s \in {turns[n - 1]}} : TRUE
    IN  turns[MaxLength + 1]

(* A line that is in the buffer with something behind it is cut off;       *)
(* otherwise the buffer is emptied and the file read on, even if what was  *)
(* in the buffer was a whole line.                                         *)
NextLine(fd) ==
    LET i == LineEnd(memory, fd)
        follows == HasNewline(memory, fd) /\ memory[Base(fd) + i + 1] # End
        line == IF memory[Base(fd)] = End THEN <<>> ELSE Text(memory, fd, i + 1)
    IN  IF follows
        THEN [memory |-> Moved(memory, fd, i), pos |-> pos[fd], line |-> line]
        ELSE ReadOn([memory |-> Cleared(memory, fd), pos |-> pos[fd],
                     line |-> line, done |-> FALSE], fd)

OpenFile(fd) ==
    /\ content[fd] = <<>>
    /\ content' \in {[content EXCEPT ![fd] = c] :
                        c \in UNION {[1..n -> Letters \cup {Newline}] : n \in 1..MaxLength}}
    /\ UNCHANGED <<memory, pos, returned, mixed>>

GetNextLine(fd) ==
    /\ content[fd] # <<>>
    /\ \E next \in {NextLine(fd)} :
          /\ memory' = next.memory
          /\ pos' = [pos EXCEPT ![fd] = next.pos]
          /\ returned' = [returned EXCEPT ![fd] =
                             IF next.line = <<>> THEN @ ELSE Append(@, next.line)]
    /\ mixed' = IF fd + 1 \in Fds /\ memory[Base(fd + 1)] # End THEN mixed \cup {fd} ELSE mixed
    /\ UNCHANGED content

(* pclose clears the buffer of the descriptor. *)
CloseFile(fd) ==
    /\ content[fd] # <<>>
    /\ memory' = Cleared(memory, fd)
    /\ content' = [content EXCEPT ![fd] = <<>>]
    /\ pos' = [pos EXCEPT ![fd] = 0]
    /\ returned' = [returned EXCEPT ![fd] = <<>>]
    /\ mixed' = IF fd + 1 \in Fds /\ memory[Base(fd + 1)] # End THEN mixed \cup {fd} ELSE mixed

(* Once a buffer met a neighbour in use anything may happen: the end.      *)
ReaderNext ==
    /\ mixed = {}
    /\ \E fd \in Fds : OpenFile(fd) \/ GetNextLine(fd) \/ CloseFile(fd)

ReaderSpec == ReaderInit /\ [][ReaderNext]_rvars

----------------------------------------------------------------------------
(* Properties *)

(* Lines that were returned, and what is still in the buffer, are the file *)
(* as far as it was read: no byte is lost, repeated or taken from another  *)
(* file, as long as the next buffer in memory is not in use.               *)
NothingLost ==
    mixed = {} =>
        \A fd \in Fds :
            FlattenSeq(returned[fd]) \o Text(memory, fd, BufferSize)
                = SubSeq(content[fd], 1, pos[fd])

(* What is returned ends with the end of a line or of the file, and is one *)
(* line; but a line whose newline was the last byte of a read is joined to *)
(* the next one when it did not begin with that read (get_next_line.c:45): *)
(* the loop goes on behind what was already a whole line.                  *)
ReadBefore(fd, i) == Len(FlattenSeq(SubSeq(returned[fd], 1, i - 1)))
WholeLines ==
    mixed = {} =>
        \A fd \in Fds : \A i \in DOMAIN returned[fd] :
            LET line == returned[fd][i] IN
            /\ Last(line) = Newline \/ pos[fd] = Len(content[fd])
            /\ \A j \in 1..(Len(line) - 1) :
                  line[j] = Newline => (ReadBefore(fd, i) + j) % BufferSize = 0

(* What get_next_line returns are the lines of the file, some of them      *)
(* joined where a read ended.                                              *)
LinesAreRead == NothingLost /\ WholeLines

-----------------------------------------------------------------------------
(***************************************************************************)
(* The configuration file, src/src/settings.c: parse_config at boot, which *)
(* panics when it fails, and set_setting, which rewrites the whole file.   *)
(*                                                                         *)
(* A file is a sequence of lines, each a comment, junk without a colon, or *)
(* a key with a value.  A value fits its key or does not (a string that is *)
(* too long, an integer out of range), or is "empty".  Every line ends     *)
(* with a newline.  A file is read in at most two reads; the lengths of    *)
(* its lines decide whether the newline of one of them is the last byte of *)
(* the first read, which joins the next line to it (WholeLines).           *)
(***************************************************************************)

CONSTANTS
    SchemaKeys,     \* the keys of CONFIG_SCHEMA
    FitValues,      \* values that fit
    MaxSettingLines \* longest file (a bound)

VARIABLES
    config,     \* the lines of /config
    seam,       \* the line that the next one is joined to, or 0
    conf,       \* the configuration in memory
    boot,       \* "off", "up" or "panic"
    joined,     \* the keys of lines that were joined
    failed      \* the keys whose change was not completed, or whose new
                \* value does not fit

fvars == <<config, seam, conf, boot, joined, failed>>

Values == FitValues \cup {"unfit", "empty"}
Setting(k, v) == [key |-> k, value |-> v]
Comment == Setting("comment", "empty")
Junk == Setting("junk", "empty")
SettingLines == {Setting(k, v) : k \in SchemaKeys, v \in Values} \cup {Comment, Junk}

(* A line is joined to one that does not begin the first read. *)
Seams(f) == {0} \cup 2..(Len(f) - 1)

(* What get_next_line returns for a file: nothing for a line joined to the *)
(* one before it, which hides it, and gives it a colon.                    *)
LinesRead(f, s) ==
    [i \in DOMAIN f \ {n \in {s + 1} : s # 0} |->
        IF i = s /\ f[i] = Junk /\ f[i + 1].key \in SchemaKeys THEN Comment ELSE f[i]]

(* get_setting: the first line for the key, an error if there is a line    *)
(* without a colon before it, or no line for it.                           *)
Relevant(f, k) == {i \in DOMAIN f : f[i].key \in {k, "junk"}}
FirstLine(f, k) == CHOOSE i \in Relevant(f, k) : \A j \in Relevant(f, k) : i <= j
LastLine(f, k) == CHOOSE i \in Relevant(f, k) : \A j \in Relevant(f, k) : i >= j

GetLastSetting(f, k) ==
    IF Relevant(f, k) = {} \/ f[LastLine(f, k)] = Junk THEN "error"
    ELSE IF f[LastLine(f, k)].value = "empty" THEN "not found"
    ELSE f[LastLine(f, k)].value

GetSetting(f, k) ==
    IF Relevant(f, k) = {} \/ f[FirstLine(f, k)] = Junk THEN "error"
    ELSE IF f[FirstLine(f, k)].value = "empty" THEN "not found"
    ELSE f[FirstLine(f, k)].value

Loads(f, k) == GetSetting(f, k) \notin {"error", "unfit"}
Loaded(f, k) == IF GetSetting(f, k) = "not found" THEN "default" ELSE GetSetting(f, k)

(* The keys that the joined lines have. *)
Joined(f, s) ==
    IF s = 0 THEN {} ELSE {f[s + 1].key} \cup ({f[s].key} \cap {"junk"})

SettingsInit ==
    /\ config \in UNION {[1..n -> SettingLines] : n \in 0..MaxSettingLines}
    /\ seam \in Seams(config) /\ joined = Joined(config, seam)
    /\ conf = [k \in SchemaKeys |-> "none"]
    /\ boot = "off"
    /\ failed = {}

(* parse_config, from main: the first key that does not load is a panic.   *)
ParseConfig ==
    /\ boot = "off"
    /\ LET lines == LinesRead(config, seam) IN
       IF \A k \in SchemaKeys : Loads(lines, k)
       THEN /\ boot' = "up"
            /\ conf' = [k \in SchemaKeys |-> Loaded(lines, k)]
            /\ failed' = {} /\ joined' = Joined(config, seam)
       ELSE boot' = "panic" /\ UNCHANGED <<conf, failed, joined>>
    /\ UNCHANGED <<config, seam>>

(* Every line of the key is replaced, with the line joined to it.          *)
SetLines(f, s, k, v) ==
    LET set == [i \in DOMAIN f |->
                  IF f[i].key = k /\ i \in DOMAIN LinesRead(f, s) THEN Setting(k, v) ELSE f[i]]
    IN  IF s # 0 /\ f[s].key = k THEN RemoveAt(set, s + 1) ELSE set

Replaces(f) ==
    /\ config' = f /\ seam' \in Seams(f)
    /\ joined' = joined \cup Joined(f, seam')

(* strlcpy and atoi take what they can of a value that does not fit. *)
InMemory(v) == IF v = "unfit" THEN "cut" ELSE v

(* A pass over the file may end early, for want of memory or for a card    *)
(* error: the lines that follow are not written back, and the call         *)
(* succeeds.                                                               *)
SetSetting(k, v) ==
    /\ boot = "up"
    /\ \E read \in 0..Len(config) :
         LET f == SubSeq(config, 1, read)
             s == IF seam < read THEN seam ELSE 0
         IN  /\ \E i \in DOMAIN LinesRead(f, s) : f[i].key = k
             /\ Replaces(SetLines(f, s, k, v))
             /\ failed' = IF v = "unfit" \/ read < Len(config) THEN failed \cup {k} ELSE failed
    /\ conf' = [conf EXCEPT ![k] = InMemory(v)]
    /\ UNCHANGED boot

(* The file was truncated, and a write fails or power is lost before all   *)
(* lines are back; a line is in the file or it is not (Fat32.tla).         *)
SetSettingFails(k, v) ==
    /\ boot = "up"
    /\ \E i \in DOMAIN LinesRead(config, seam) : config[i].key = k
    /\ LET f == SetLines(config, seam, k, v) IN
       \E n \in 0..(Len(f) - 1) : Replaces(SubSeq(f, 1, n))
    /\ boot' \in {"up", "off"}
    /\ failed' = failed \cup {k}
    /\ UNCHANGED conf

PowerOff ==
    /\ boot = "up"
    /\ boot' = "off"
    /\ UNCHANGED <<config, seam, conf, joined, failed>>

SettingsNext ==
    \/ ParseConfig
    \/ \E k \in SchemaKeys, v \in Values : SetSetting(k, v) \/ SetSettingFails(k, v)
    \/ PowerOff

SettingsSpec == SettingsInit /\ [][SettingsNext]_fvars

(* What is in use is what the file would give at the next boot, in files   *)
(* with comments, repeated keys and junk behind the settings; unless it is *)
(* empty, which is loaded as the default, or was given a value that does   *)
(* not fit, which set_setting cuts in memory and writes as it is           *)
(* (settings.c:266), or stood on a joined line, which is lost when the     *)
(* line before it is replaced.  After a change that failed half way, or    *)
(* was written without the end of the file, this still holds of the other  *)
(* settings, or they are lost with the rest of the file, but they never    *)
(* take another value.                                                     *)
SettingsAreKept ==
    boot = "up" =>
        \A k \in SchemaKeys \ (failed \cup joined) :
            LET lines == LinesRead(config, seam) IN
            \/ conf[k] \in {Loaded(lines, k), "empty"}
            \/ (failed # {} \/ "junk" \in joined) /\ GetSetting(lines, k) = "error"

(* Files are read line by line, but where a read ends, and the settings     *)
(* survive each other's changes.                                            *)
SettingsAreSound == LinesAreRead /\ SettingsAreKept
=============================================================================
