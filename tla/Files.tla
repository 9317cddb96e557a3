-------------------------------- MODULE Files --------------------------------
(***************************************************************************)
(* The file tools (builtins/tools_fs): fs.write and fs.edit on one path by *)
(* the calls of several sessions, each with a temporary file and a rename  *)
(* in a thread (writers.py); and as functions what fs.read, fs.list and    *)
(* fs.grep return within their limits (readers.py, search.py, content.py)  *)
(* and which file a path means (paths.py, runtime/access/paths.py).        *)
(*                                                                         *)
(* A file is a sequence of cells, each the number of the call that wrote   *)
(* it, or 0 if it was there before, or Hole where nobody wrote.            *)
(* Two names matter: the target and its temporary file, which every call   *)
(* on that path shares; a name leads to a node of the disk.                *)
(***************************************************************************)
EXTENDS Naturals, Sequences, SequencesExt, FiniteSets

CONSTANTS
    Calls, SessionOf, Size,
    MaxKills        \* bound: how many calls are given up

VARIABLES
    disk,       \* node -> its cells
    target,     \* the node the path names, None if there is no such file
    temp,       \* the node the temporary name leads to, or None
    pc,         \* call -> where it is
    kind,       \* call -> "write" or "edit"
    text,       \* call -> what it is to write
    handle,     \* call -> [node, pos]: the file it has open
    reply,      \* call -> what its session was told
    expect,     \* history: what the path holds if the calls that landed ran one by one
    mixed       \* history: did two calls overlap on this path?
vars == <<disk, target, temp, pc, kind, text, handle, reply, expect, mixed>>

None == 0
Empty == <<>>
Hole == 99
Closed == [node |-> None, pos |-> 0]
Nodes == 1..(Cardinality(Calls) + 1)
Cells(c) == [i \in 1..Size[c] |-> c]
Content == IF target = None THEN Empty ELSE disk[target]

Init ==
    /\ \/ target = None /\ expect = Empty
       \/ target = 1 /\ expect = <<0>>
    /\ disk = [n \in Nodes |-> IF n = target THEN expect ELSE Empty]
    /\ temp = None /\ pc = [c \in Calls |-> "idle"] /\ kind = [c \in Calls |-> "write"]
    /\ text = [c \in Calls |-> <<>>] /\ handle = [c \in Calls |-> Closed]
    /\ reply = [c \in Calls |-> "none"] /\ mixed = FALSE

(* The calls of a session, in their order: those that write run one after  *)
(* the other (EXCLUSIVE), and the next begins when the last was answered,  *)
(* whether its thread has ended or not.                                    *)
Free(c) ==
    pc[c] = "idle" /\ \A d \in Calls : d < c /\ SessionOf[d] = SessionOf[c] => reply[d] # "none"
AtWork == {c \in Calls : pc[c] \in {"open", "write", "replace", "unlink"}}
Goto(c, next) == pc' = [pc EXCEPT ![c] = next]
Begin(c, k, cells) ==
    /\ Goto(c, "open") /\ kind' = [kind EXCEPT ![c] = k] /\ text' = [text EXCEPT ![c] = cells]
    /\ mixed' = (mixed \/ AtWork # {})
    /\ UNCHANGED <<disk, target, temp, handle, reply, expect>>
(* The thread ends; a node without a name that nobody has open is gone.    *)
End(c, what) ==
    /\ Goto(c, "over") /\ kind' = [kind EXCEPT ![c] = "write"]
    /\ text' = [text EXCEPT ![c] = <<>>] /\ handle' = [handle EXCEPT ![c] = Closed]
    /\ reply' = [reply EXCEPT ![c] = IF @ = "none" THEN what ELSE @]
    /\ disk' = [n \in Nodes |-> IF n \in {target', temp'} \union {handle'[d].node : d \in Calls} THEN disk[n] ELSE <<>>]
    /\ UNCHANGED mixed

BeginWrite(c) == Free(c) /\ Begin(c, "write", Cells(c))
(* An edit reads the file in one thread and writes it in another.          *)
BeginEdit(c) == Free(c) /\ Content # <<>> /\ Begin(c, "edit", Append(Content, c))
(* Bad arguments, a path outside, a text to replace that is not there or   *)
(* there twice, a call that was cancelled before it began.                 *)
Refuse(c) == Free(c) /\ UNCHANGED <<target, temp, expect>> /\ End(c, "failed")

(* Which node open(name, "wb") opens: the one that is there, emptied, or a *)
(* new one.                                                                *)
OpenNode(name) ==
    IF name # None THEN name
    ELSE CHOOSE n \in Nodes : n \notin {target, temp} \union {handle[d].node : d \in Calls}
OpenInPlace(c) ==   \* mutant of OpenTemp: the target itself is opened
    /\ pc[c] = "open" /\ Goto(c, "write")
    /\ LET node == OpenNode(target)
       IN  /\ disk' = [disk EXCEPT ![node] = <<>>] /\ temp' = node
           /\ handle' = [handle EXCEPT ![c] = [node |-> node, pos |-> 0]]
    /\ UNCHANGED <<target, kind, text, reply, expect, mixed>>
OpenTemp(c) ==
    /\ pc[c] = "open" /\ Goto(c, "write")
    /\ LET node == OpenNode(temp)
       IN  /\ disk' = [disk EXCEPT ![node] = <<>>] /\ temp' = node
           /\ handle' = [handle EXCEPT ![c] = [node |-> node, pos |-> 0]]
    /\ UNCHANGED <<target, kind, text, reply, expect, mixed>>
(* A lone surrogate: the error is no OSError and leaves execute().         *)
CannotEncode(c) == pc[c] = "open" /\ UNCHANGED <<target, temp, expect>> /\ End(c, "raised")
WriteCell(c) ==
    /\ pc[c] = "write"
    /\ LET h == handle[c]
           at == h.pos + 1
           old == disk[h.node]
       IN  /\ disk' = [disk EXCEPT ![h.node] =
                  [i \in 1..(IF Len(old) > at THEN Len(old) ELSE at) |->
                      IF i = at THEN text[c][at] ELSE IF i <= Len(old) THEN old[i] ELSE Hole]]
           /\ handle' = [handle EXCEPT ![c].pos = at]
           /\ Goto(c, IF at = Len(text[c]) THEN "replace" ELSE "write")
    /\ UNCHANGED <<target, temp, kind, text, reply, expect, mixed>>
(* The disk is full, the name not allowed, or the temporary file is gone.  *)
WriteFails(c) ==
    /\ pc[c] \in {"open", "write", "replace"} /\ Goto(c, "unlink")
    /\ handle' = [handle EXCEPT ![c] = Closed]
    /\ UNCHANGED <<disk, target, temp, kind, text, reply, expect, mixed>>
Replace(c) ==
    /\ pc[c] = "replace" /\ temp # None
    /\ target' = temp /\ temp' = None
    /\ expect' = IF kind[c] = "write" THEN Cells(c) ELSE Append(expect, c)
    /\ End(c, "done")
UnlinkNothing(c) == \* mutant of Unlink: the temporary file stays
    pc[c] = "unlink" /\ UNCHANGED <<target, temp, expect>> /\ End(c, "failed")
Unlink(c) == pc[c] = "unlink" /\ temp' = None /\ UNCHANGED <<target, expect>> /\ End(c, "failed")
(* The executor gives the call up; its thread is not told.                 *)
Kill(c) ==
    /\ c \in AtWork /\ reply[c] = "none" /\ Cardinality({d \in Calls : reply[d] = "unknown"}) < MaxKills
    /\ reply' = [reply EXCEPT ![c] = "unknown"]
    /\ UNCHANGED <<disk, target, temp, pc, kind, text, handle, expect, mixed>>

Next ==
    \E c \in Calls :
        \/ BeginWrite(c) \/ BeginEdit(c) \/ Refuse(c)
        \/ OpenTemp(c) \/ CannotEncode(c) \/ WriteCell(c) \/ WriteFails(c) \/ Replace(c) \/ Unlink(c)
        \/ Kill(c)
Spec == Init /\ [][Next]_vars

(* Calls that do not overlap on a path act one after the other: what a     *)
(* reader finds is at any moment what the calls that were done left (EDG-  *)
(* 401), a call that was answered with a failure left nothing (side effect *)
(* NONE), and no temporary file stays.  Overlapping calls share the name   *)
(* of the temporary file: of those only the last part holds.               *)
WritesAreHonest ==
    /\ ~mixed =>
          Content = expect /\ \A c \in Calls : reply[c] \in {"failed", "raised"} => c \notin ToSet(Content)
    /\ (\A c \in Calls : pc[c] \in {"idle", "over"}) => temp = None
-----------------------------------------------------------------------------
(* fs.read.  A text is a sequence of cells <<line, column>>, column 0 is    *)
(* the newline; lines are given by their lengths.                           *)
Text(lines) ==
    FlattenSeq([i \in DOMAIN lines |->
        [k \in 1..lines[i] |-> <<i, k>>] \o (IF i < Len(lines) THEN <<<<i, 0>>>> ELSE <<>>)])
LineCount(t) == IF t = <<>> THEN 1 ELSE IF Last(t)[2] = 0 THEN Last(t)[1] + 1 ELSE Last(t)[1]
Join(t, begin, end) ==      \* "\n".join(lines[begin:end]) of the lines of t
    SelectSeq(t, LAMBDA x : x[1] \in (begin + 1)..end /\ ~(x[1] = end /\ x[2] = 0))
SliceLinesNext(count, start, max) ==    \* mutant of SliceLines: the end is where to go on
    LET begin == start - 1
        end == IF max = 0 \/ begin + max > count THEN count ELSE begin + max
    IN  IF begin >= count THEN [from |-> 0, upto |-> 0, end |-> count]
        ELSE [from |-> begin, upto |-> end, end |-> end + 1]
SliceLines(count, start, max) ==
    LET begin == start - 1
        end == IF max = 0 \/ begin + max > count THEN count ELSE begin + max
    IN  IF begin >= count THEN [from |-> 0, upto |-> 0, end |-> count]
        ELSE [from |-> begin, upto |-> end, end |-> end]
Read(lines, start, max, bytes) ==
    LET all == Text(lines)
        t == SubSeq(all, 1, IF bytes < Len(all) THEN bytes ELSE Len(all))
        s == SliceLines(LineCount(t), start, max)
    IN  [content |-> Join(t, s.from, s.upto), end |-> s.end, total |-> LineCount(t),
         truncated |-> Len(all) > bytes \/ s.end < LineCount(t) \/ start > 1]
(* A result that is not marked as truncated is the file, and pages that    *)
(* are read one after the other, each from the line after the end of the   *)
(* last, give the file as far as the limit goes.                           *)
PagesTile(lines, max, bytes) ==
    LET whole == Read(lines, 1, 0, bytes)
        page == Read(lines, 1, max, bytes)
        rest == Read(lines, page.end + 1, 0, bytes)
    IN  /\ \A r \in {whole, page, rest} : ~r.truncated => r.content = Text(lines)
        /\ page.end < page.total =>
              page.content \o <<<<page.end, 0>>>> \o rest.content = whole.content

(* content.truncate(): the mark counts towards the limit, and says how much *)
(* is shown.                                                                *)
Marker == 24
Digits(n) == IF n < 10 THEN 1 ELSE IF n < 100 THEN 2 ELSE 3
TruncateUnmarked(total, limit) ==   \* mutant of Truncate: the mark is added to a text at the limit
    IF total <= limit THEN [keep |-> total, length |-> total]
    ELSE [keep |-> limit, length |-> limit + Marker + Digits(limit) + Digits(total)]
Truncate(total, limit) ==
    LET keep == limit - (Marker + Digits(limit) + Digits(total))
    IN  IF total <= limit THEN [keep |-> total, length |-> total]
        ELSE IF limit <= Marker + Digits(limit) + Digits(total) THEN [keep |-> 0, length |-> 0]
        ELSE [keep |-> keep, length |-> keep + Marker + Digits(keep) + Digits(total)]
FitsTheLimit(total, limit) ==
    LET t == Truncate(total, limit)
    IN  t.length <= limit /\ t.keep <= total /\ (t.length = total \/ total > limit)

(* fs.grep: the files in their order, each with the number of its matches  *)
(* or unreadable; a file that does not fit ends the search.                *)
GrepFull(files, max) ==    \* mutant of Grep: stops at the limit as if there were more
    FoldLeft(LAMBDA g, f :
                IF g.more \/ ~f.readable THEN g
                ELSE LET room == max - g.found
                     IN  [found |-> g.found + (IF f.matches > room THEN room ELSE f.matches),
                          more |-> f.matches >= room],
             [found |-> 0, more |-> FALSE], files)
Grep(files, max) ==
    FoldLeft(LAMBDA g, f :
                IF g.more \/ ~f.readable THEN g
                ELSE LET room == max - g.found
                     IN  [found |-> g.found + (IF f.matches > room THEN room ELSE f.matches),
                          more |-> f.matches > room],
             [found |-> 0, more |-> FALSE], files)
(* What was found is all there is, or the limit, and then it is said.      *)
GrepTellsMore(files, max) ==
    LET all == FoldLeft(LAMBDA n, f : IF f.readable THEN n + f.matches ELSE n, 0, files)
    IN  Grep(files, max) = [found |-> IF all > max THEN max ELSE all, more |-> all > max]
-----------------------------------------------------------------------------
(* Paths.  A path is its names from the root of the file system; links     *)
(* maps the paths that are links to where they lead, which is no link.     *)
Root == <<"w">>
Reserved == {"con"}
Within(p) == IsPrefix(Root, p)
NormPath(p) ==      \* os.path.normpath
    FoldLeft(LAMBDA at, name : IF name # ".." THEN Append(at, name) ELSE IF at = <<>> THEN at ELSE Front(at), <<>>, p)
Real(links, p) ==   \* Path.resolve() of a normal path
    FoldLeft(LAMBDA at, name : IF Append(at, name) \in DOMAIN links THEN links[Append(at, name)] ELSE Append(at, name),
             <<>>, p)
Refused == <<"refused">>
ResolveLogical(links, raw) ==   \* mutant of Resolve: the checked path, not the real one, is used
    LET logical == NormPath(IF raw.absolute THEN raw.names ELSE Root \o raw.names)
    IN  IF ToSet(raw.names) \cap Reserved # {} \/ ~Within(logical) \/ ~Within(Real(links, logical)) THEN Refused
        ELSE logical
Resolve(links, raw) ==          \* WorkspaceGuard.resolve
    LET logical == NormPath(IF raw.absolute THEN raw.names ELSE Root \o raw.names)
    IN  IF ToSet(raw.names) \cap Reserved # {} \/ ~Within(logical) \/ ~Within(Real(links, logical)) THEN Refused
        ELSE Real(links, logical)
ResolveForPlugin(links, raw) == IF raw.absolute THEN Refused ELSE Resolve(links, raw)
Relative(p) == [absolute |-> FALSE, names |-> SubSeq(p, Len(Root) + 1, Len(p))]
(* The path a tool shows leads back to the file it means, for the tools and *)
(* for a plugin's ctx.fs, unless a link hid a device's name; nothing on the *)
(* way is a link; and where the file system would find the file, if it is   *)
(* inside and the path has no "..", it is not refused.                      *)
PathsLeadBack(links, raw) ==
    LET p == Resolve(links, raw)
    IN  /\ p # Refused =>
              /\ Within(p) /\ \A k \in 1..Len(p) : SubSeq(p, 1, k) \notin DOMAIN links
              /\ ToSet(p) \cap Reserved = {} =>
                    Resolve(links, Relative(p)) = p /\ ResolveForPlugin(links, Relative(p)) = p
        /\ ".." \notin ToSet(raw.names) /\ ToSet(raw.names) \cap Reserved = {} =>
              LET found == Real(links, IF raw.absolute THEN raw.names ELSE Root \o raw.names)
              IN  p = found \/ ~Within(found) \/ ~Within(IF raw.absolute THEN raw.names ELSE Root)
=============================================================================
