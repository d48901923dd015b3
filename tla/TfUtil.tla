------------------------------- MODULE TfUtil -------------------------------
(***************************************************************************)
(* The helpers of src/tf_util.c.  tf_stat is a client of the listing     *)
(* calls: it is composed with TfApi, the contract of src/tf_io.h, whose    *)
(* Begin and Finish steps it shares, and with a directory tree the device *)
(* lists in batches.  tf_makename and tf_sort_dirents are pure: they are  *)
(* operators, checked against reference definitions over every input of  *)
(* the bounded sets.  Strings are sequences of character codes.           *)
(***************************************************************************)
EXTENDS Integers, Sequences, SequencesExt

CONSTANTS
    Null,       \* the NULL filename of tf_makename, and "no value"
    Strs,       \* tf_makename's dir and filename arguments
    Paths,      \* tf_stat's path arguments
    Fs,         \* the device's tree: directory path -> its entries in listing order
    Listings,   \* tf_sort_dirents's entry arrays
    SortTypes   \* its sort_type arguments

VARIABLES
    fn, txn, lastFn, last, dtxn,   \* TfApi: the call running, transactions, last result
    spc,      \* where tf_stat is: "idle", "list" (a listing call), "cancel"
    path,     \* tf_stat's path argument
    rc,       \* what the last tf_stat returned, Null while it runs
    dirent,   \* *dirent, written by tf_stat when it finds the entry
    batch,    \* the entries of the last tf_cmd_dir_first/next (entries->entry)
    rest,     \* device: entries of the directory not yet sent, Null for no such directory
    failed    \* history: a listing call of this tf_stat returned < 0

api == <<fn, txn, lastFn, last, dtxn>>
stat == <<spc, path, rc, dirent, batch, rest, failed>>
vars == <<api, stat>>

Api == INSTANCE TfApi

SL == 47   \* '/'
DOT == 46  \* '.'

Larger(a, b) == IF a > b THEN a ELSE b

-----------------------------------------------------------------------------
(* tf_makename                                                              *)

\* strrchr(buf, '/') + 1 once pt[-1] = 0 has cut the trailing '/': the buffer
\* up to the slash before; "/" itself stays (pt = buf + 1)
BackUp(out) ==
    IF Len(out) > 1
    THEN SubSeq(out, 1, SelectLastInSeq(SubSeq(out, 1, Len(out) - 1), LAMBDA c : c = SL))
    ELSE <<SL>>

\* pt[-1] == '/' && s[0] == '.' && s[1] == '.' && (s[2] == '/' || s[2] == 0)
AtDotDot(out, in) ==
    /\ Last(out) = SL /\ Len(in) >= 2 /\ in[1] = DOT /\ in[2] = DOT
    /\ (Len(in) = 2 \/ in[3] = SL)

\* Mutant: s += 2 without skipping the '/' after ".."
SkipDotDotKeepSlash(in) == SubSeq(in, 3, Len(in))

\* s += 2; if (*s) s++;
SkipDotDot(in) == IF Len(in) > 2 THEN SubSeq(in, 4, Len(in)) ELSE <<>>

\* The copy loop, run for dir and then for filename: <<buffer, highest pt>>
RECURSIVE CopyIn(_, _, _)
CopyIn(out, in, peak) ==
    IF in = <<>> THEN <<out, peak>>
    ELSE IF AtDotDot(out, in) THEN CopyIn(BackUp(out), SkipDotDot(in), peak)
    ELSE CopyIn(Append(out, in[1]), Tail(in), Larger(peak, Len(out) + 1))

StripSlash(s) == IF s # <<>> /\ s[1] = SL THEN Tail(s) ELSE s

\* Mutant: no room for the separator
AllocNoSeparator(d, f) == 1 + Len(d) + (IF f = Null THEN 0 ELSE Len(f)) + 1

\* malloc(1 + strlen(dir) + 1 + strlen(filename ?: "") + 1)
Alloc(d, f) == 1 + Len(d) + 1 + (IF f = Null THEN 0 ELSE Len(f)) + 1

\* The result, and the bytes of the buffer written (the NUL included)
Makename(d, f) ==
    LET abs == f # Null /\ f # <<>> /\ f[1] = SL
        dir == StripSlash(IF abs THEN f ELSE d)
        file == IF abs THEN Null ELSE f
        r1 == CopyIn(<<SL>>, dir, 1)
        sep == IF file # Null /\ Last(r1[1]) # SL THEN Append(r1[1], SL) ELSE r1[1]
        r2 == IF file = Null THEN <<sep, Larger(r1[2], Len(sep))>>
              ELSE CopyIn(sep, StripSlash(file), Larger(r1[2], Len(sep)))
        out == IF Len(r2[1]) > 1 /\ Last(r2[1]) = SL THEN Front(r2[1]) ELSE r2[1]
    IN [out |-> out, used |-> Larger(r2[2], Len(out) + 1)]

-----------------------------------------------------------------------------
(* tf_stat                                                                  *)

TYPE_D == 100  \* 'd'
TYPE_F == 102  \* 'f'

\* The result faked for "/"
RootDirent == [name |-> <<SL>>, type |-> TYPE_D, size |-> 0, stamp |-> 0]

\* pt = strrchr(path, '/'): the parent ("/" when pt == path) and pt + 1
Slash(p) == SelectLastInSeq(p, LAMBDA c : c = SL)
Parent(p) == IF Slash(p) = 1 THEN <<SL>> ELSE SubSeq(p, 1, Slash(p) - 1)
Base(p) == SubSeq(p, Slash(p) + 1, Len(p))

\* tf_stat returns r, leaving the handle alone
StatReturn(r) == rc' = r /\ spc' = "idle"

StatCall ==
    /\ spc = "idle" /\ fn = "idle"
    /\ \E p \in Paths :
         /\ path' = p /\ failed' = FALSE /\ UNCHANGED batch
         /\ CASE p = <<SL>> ->
                   StatReturn(0) /\ dirent' = RootDirent /\ UNCHANGED <<api, rest>>
              [] Slash(p) = 0 ->
                   StatReturn(1) /\ UNCHANGED <<dirent, api, rest>>
              [] OTHER ->
                   /\ Api!Begin /\ fn' = "dir_first"
                   /\ spc' = "list" /\ rc' = Null
                   /\ rest' = IF Parent(p) \in DOMAIN Fs THEN Fs[Parent(p)] ELSE Null
                   /\ UNCHANGED dirent

\* Mutant: the entry loop stops one short (i < entries.count - 1)
StatExamineSkipLast ==
    /\ spc = "list" /\ fn = "idle"
    /\ LET i == SelectInSeq(Front(batch), LAMBDA e : e.name = Base(path))
       IN CASE last # 0 -> StatReturn(1) /\ UNCHANGED <<dirent, api>>
            [] i > 0    -> /\ Api!Begin /\ fn' = "dir_cancel"
                           /\ spc' = "cancel" /\ dirent' = batch[i]
                           /\ UNCHANGED rc
            [] OTHER    -> /\ Api!Begin /\ fn' = "dir_next"
                           /\ UNCHANGED <<spc, rc, dirent>>
    /\ UNCHANGED <<path, batch, rest, failed>>

\* Mutant: a match returns 0 without tf_cmd_dir_cancel
StatExamineNoCancel ==
    /\ spc = "list" /\ fn = "idle"
    /\ LET i == SelectInSeq(batch, LAMBDA e : e.name = Base(path))
       IN CASE last # 0 -> StatReturn(1) /\ UNCHANGED <<dirent, api>>
            [] i > 0    -> StatReturn(0) /\ dirent' = batch[i] /\ UNCHANGED api
            [] OTHER    -> /\ Api!Begin /\ fn' = "dir_next"
                           /\ UNCHANGED <<spc, rc, dirent>>
    /\ UNCHANGED <<path, batch, rest, failed>>

\* Mutant: the loop runs while (ret >= 0), past TF_ERR_NOFILES
StatExamineWhileNonNeg ==
    /\ spc = "list" /\ fn = "idle"
    /\ LET i == SelectInSeq(batch, LAMBDA e : e.name = Base(path))
       IN CASE last < 0 -> StatReturn(1) /\ UNCHANGED <<dirent, api>>
            [] i > 0    -> /\ Api!Begin /\ fn' = "dir_cancel"
                           /\ spc' = "cancel" /\ dirent' = batch[i]
                           /\ UNCHANGED rc
            [] OTHER    -> /\ Api!Begin /\ fn' = "dir_next"
                           /\ UNCHANGED <<spc, rc, dirent>>
    /\ UNCHANGED <<path, batch, rest, failed>>

\* After tf_cmd_dir_first or tf_cmd_dir_next: a non-zero result ends the loop
\* with rc 1; an entry named like the path is copied out and the listing
\* cancelled (its result ignored); otherwise the next batch is asked for.
StatExamine ==
    /\ spc = "list" /\ fn = "idle"
    /\ LET i == SelectInSeq(batch, LAMBDA e : e.name = Base(path))
       IN CASE last # 0 -> StatReturn(1) /\ UNCHANGED <<dirent, api>>
            [] i > 0    -> /\ Api!Begin /\ fn' = "dir_cancel"
                           /\ spc' = "cancel" /\ dirent' = batch[i]
                           /\ UNCHANGED rc
            [] OTHER    -> /\ Api!Begin /\ fn' = "dir_next"
                           /\ UNCHANGED <<spc, rc, dirent>>
    /\ UNCHANGED <<path, batch, rest, failed>>

StatCancelled ==
    /\ spc = "cancel" /\ fn = "idle"
    /\ StatReturn(0)
    /\ UNCHANGED <<api, path, dirent, batch, rest, failed>>

\* The device answers a listing call: DIRENT with the next entries while
\* there are any, DIREND (TF_ERR_NOFILES from tf_cmd_dir_first) once there
\* are none, FAIL for a directory it does not have; any call may fail on
\* the link.  get_dirents copies the DIRENT's entries into entries->entry.
ListFinish ==
    /\ fn \in {"dir_first", "dir_next"}
    /\ Api!Finish
    /\ CASE rest = Null  -> last' < 0
         [] rest = <<>>  -> last' # 0
         [] OTHER        -> last' # 1
    /\ IF last' = 0
       THEN \E n \in 1..Len(rest) :
              batch' = SubSeq(rest, 1, n) /\ rest' = SubSeq(rest, n + 1, Len(rest))
       ELSE UNCHANGED <<batch, rest>>
    /\ failed' = (failed \/ last' < 0)
    /\ UNCHANGED <<spc, path, rc, dirent>>

\* tf_init and tf_cmd_dir_cancel return
OtherFinish ==
    /\ fn \notin {"dir_first", "dir_next"}
    /\ Api!Finish
    /\ UNCHANGED stat

Settle == Api!Settle /\ UNCHANGED stat

-----------------------------------------------------------------------------
(* tf_sort_dirents                                                          *)

\* strcasecmp: the difference of the first lower-cased bytes that differ
Lower(c) == IF c \in 65..90 THEN c + 32 ELSE c

RECURSIVE StrCaseCmp(_, _)
StrCaseCmp(s, t) ==
    CASE s = <<>> /\ t = <<>>       -> 0
      [] s = <<>>                   -> -Lower(Head(t))
      [] t = <<>>                   -> Lower(Head(s))
      [] Lower(Head(s)) # Lower(Head(t)) -> Lower(Head(s)) - Lower(Head(t))
      [] OTHER                      -> StrCaseCmp(Tail(s), Tail(t))

\* Directories always come first
CmpByType(a, b) == a.type - b.type

CmpByName(a, b) ==
    IF CmpByType(a, b) # 0 THEN CmpByType(a, b) ELSE StrCaseCmp(a.name, b.name)

CmpBySize(a, b) ==
    IF CmpByType(a, b) # 0 THEN CmpByType(a, b)
    ELSE IF a.size < b.size THEN 1 ELSE IF a.size = b.size THEN 0 ELSE -1

\* The time_t difference is returned as an int; the stamps of the inputs lie
\* within 2^31 seconds of each other, where that conversion keeps the value.
CmpByTime(a, b) ==
    IF CmpByType(a, b) # 0 THEN CmpByType(a, b) ELSE b.stamp - a.stamp

CmpByReverseName(a, b) ==
    IF CmpByType(a, b) # 0 THEN CmpByType(a, b) ELSE -StrCaseCmp(a.name, b.name)

CmpByReverseSize(a, b) ==
    IF CmpByType(a, b) # 0 THEN CmpByType(a, b)
    ELSE IF a.size < b.size THEN -1 ELSE IF a.size = b.size THEN 0 ELSE 1

\* Mutant: the reverse time order written as the forward one
CmpByReverseTimeSwapped(a, b) ==
    IF CmpByType(a, b) # 0 THEN CmpByType(a, b) ELSE b.stamp - a.stamp

CmpByReverseTime(a, b) ==
    IF CmpByType(a, b) # 0 THEN CmpByType(a, b) ELSE a.stamp - b.stamp

\* TF_SORT_NAME, TF_SORT_SIZE, TF_SORT_TIME and their negations
SortKinds == {1, 2, 3, -1, -2, -3}

\* The switch of tf_sort_dirents
Compare(k, a, b) ==
    CASE k = 1  -> CmpByName(a, b)
      [] k = 2  -> CmpBySize(a, b)
      [] k = 3  -> CmpByTime(a, b)
      [] k = -1 -> CmpByReverseName(a, b)
      [] k = -2 -> CmpByReverseSize(a, b)
      [] k = -3 -> CmpByReverseTime(a, b)

Arrangements(es) ==
    {[i \in 1..Len(es) |-> es[f[i]]] :
        f \in {g \in [1..Len(es) -> 1..Len(es)] : IsInjective(g)}}

\* qsort: an arrangement in which no entry compares greater than one after
\* it (which one among equal entries is not specified); any arrangement if
\* the comparator admits none.  Any other sort_type leaves the array alone.
Qsort(k, es) ==
    IF k \notin SortKinds THEN {es}
    ELSE LET ok == {p \in Arrangements(es) : IsSorted(p, LAMBDA a, b : Compare(k, a, b) <= 0)}
         IN IF ok = {} THEN Arrangements(es) ELSE ok

(***************************************************************************)
(* Reference: src/tf_util.h and test_makename.c.  A path is its components *)
(* (a leading and a trailing '/' delimit, they add no component); dir is   *)
(* relative to the root, a filename starting with '/' replaces it, ".."    *)
(* drops the component before it and never climbs above the root.         *)
(***************************************************************************)
RECURSIVE SplitPath(_)
SplitPath(s) ==
    IF \A k \in 1..Len(s) : s[k] # SL THEN <<s>>
    ELSE LET k == SelectInSeq(s, LAMBDA c : c = SL)
         IN <<SubSeq(s, 1, k - 1)>> \o SplitPath(SubSeq(s, k + 1, Len(s)))

Components(s) ==
    LET inner == IF s # <<>> /\ Last(s) = SL THEN Front(StripSlash(s)) ELSE StripSlash(s)
    IN IF s = <<>> \/ s = <<SL>> THEN <<>> ELSE SplitPath(inner)

Resolve(cs) ==
    FoldLeft(LAMBDA acc, c : IF c = <<DOT, DOT>> THEN (IF acc = <<>> THEN <<>> ELSE Front(acc))
                             ELSE Append(acc, c),
             <<>>, cs)

RefMakename(d, f) ==
    LET cs == IF f # Null /\ f # <<>> /\ f[1] = SL THEN Components(f)
              ELSE Components(d) \o (IF f = Null THEN <<>> ELSE Components(f))
        rs == Resolve(cs)
    IN IF rs = <<>> THEN <<SL>>
       ELSE FoldLeft(LAMBDA acc, c : acc \o <<SL>> \o c, <<>>, rs)

\* Cases of src/test_makename.c, with "dir", "file", "newdir", "olddir" as one letter
TestMakename ==
    {[dir |-> <<>>, file |-> Null, want |-> <<SL>>],
     [dir |-> <<>>, file |-> <<>>, want |-> <<SL>>],
     [dir |-> <<SL>>, file |-> <<>>, want |-> <<SL>>],
     [dir |-> <<>>, file |-> <<102>>, want |-> <<SL, 102>>],
     [dir |-> <<SL>>, file |-> <<102>>, want |-> <<SL, 102>>],
     [dir |-> <<SL, 100>>, file |-> <<102>>, want |-> <<SL, 100, SL, 102>>],
     [dir |-> <<SL, 100>>, file |-> <<SL, 102>>, want |-> <<SL, 102>>],
     [dir |-> <<SL, 100, SL>>, file |-> <<102>>, want |-> <<SL, 100, SL, 102>>],
     [dir |-> <<SL, 100, SL>>, file |-> <<SL, 102>>, want |-> <<SL, 102>>],
     [dir |-> <<SL, 100, SL>>, file |-> <<SL, 102, SL>>, want |-> <<SL, 102>>],
     [dir |-> <<100, SL>>, file |-> <<SL, 102, SL>>, want |-> <<SL, 102>>],
     [dir |-> <<100>>, file |-> <<102>>, want |-> <<SL, 100, SL, 102>>],
     [dir |-> <<SL, 100, SL, DOT, DOT, SL, 110>>, file |-> <<102>>, want |-> <<SL, 110, SL, 102>>],
     [dir |-> <<SL, DOT, DOT, SL, 110>>, file |-> <<102>>, want |-> <<SL, 110, SL, 102>>],
     [dir |-> <<SL, 100, SL, 111>>, file |-> <<DOT, DOT>>, want |-> <<SL, 100>>],
     [dir |-> <<SL, 100, SL, 111>>, file |-> <<DOT, DOT, SL, 110>>, want |-> <<SL, 100, SL, 110>>]}

\* The reference gives every result test_makename.c expects
ASSUME \A t \in TestMakename : RefMakename(t.dir, t.file) = t.want


-----------------------------------------------------------------------------

\* topfield_open has succeeded and tf_init runs; no helper has been called
Init ==
    /\ Api!Init
    /\ spc = "idle" /\ path = <<>> /\ rc = Null /\ dirent = Null
    /\ batch = <<>> /\ rest = <<>> /\ failed = FALSE

Next ==
    \/ StatCall \/ StatExamine \/ StatCancelled
    \/ ListFinish \/ OtherFinish \/ Settle

\* A library call returns (TfApi's Finish) and tf_stat's own code runs on;
\* when the client calls tf_stat is its own choice.
Spec ==
    /\ Init /\ [][Next]_vars
    /\ WF_vars(ListFinish \/ OtherFinish)
    /\ WF_vars(StatExamine) /\ WF_vars(StatCancelled)

-----------------------------------------------------------------------------
(* Properties                                                               *)

\* The entry a path names in the device's tree, Null if none
Named(p) ==
    IF p = <<SL>> THEN RootDirent
    ELSE IF Slash(p) = 0 \/ Parent(p) \notin DOMAIN Fs THEN Null
    ELSE LET es == Fs[Parent(p)]
             i == SelectInSeq(es, LAMBDA e : e.name = Base(p))
         IN IF i = 0 THEN Null ELSE es[i]

\* src/tf_util.h: tf_stat fills in *dirent and returns 0 for a path that
\* exists, and returns 1 when it is not found.  Checked across listings that
\* arrive in any number of batches: a returned 0 carries the path's entry,
\* and a 1 from a listing that ran without error means there is none.
StatFindsEntry ==
    spc = "idle" /\ rc # Null =>
        /\ rc = 0 => dirent = Named(path)
        /\ rc = 1 /\ ~failed => Named(path) = Null

\* src/tf_io.h: a listing that returned 0 must be cancelled.  tf_stat leaves
\* no listing open, whether it stops at a match, at the end of the listing
\* or at an error, and the device, once settled, is outside any listing.
StatClosesListing ==
    spc = "idle" /\ txn # "closed" => txn = "none" /\ dtxn \in {"none", "busy"}

\* tf_stat returns: each listing call returns, and the loop ends at a match
\* or at the first non-zero result.
StatReturns == spc # "idle" ~> spc = "idle"

\* tf_makename gives the path the header and test_makename.c describe, for
\* the cases of test_makename.c and every dir and filename of the input set
\* (a pure function: checked as a step property so that a counterexample
\* names it)
MakenamesAgree ==
    /\ \A t \in TestMakename : Makename(t.dir, t.file).out = t.want
    /\ \A d \in Strs, f \in Strs \cup {Null} : Makename(d, f).out = RefMakename(d, f)
MakenameCanonical == [][MakenamesAgree]_vars

\* tf_makename never writes past the buffer it mallocs, through the copy
\* loops, the separator and the NUL
MakenamesFit == \A d \in Strs, f \in Strs \cup {Null} : Makename(d, f).used <= Alloc(d, f)
MakenameFits == [][MakenamesFit]_vars

\* Dictionary order of character codes, a prefix first
RECURSIVE LexLeq(_, _)
LexLeq(x, y) ==
    \/ x = <<>>
    \/ /\ y # <<>>
       /\ \/ Head(x) < Head(y)
          \/ Head(x) = Head(y) /\ LexLeq(Tail(x), Tail(y))

\* The order tf_util.h names ("type then name/size/time", reversed for a
\* negative sort type) with directories first, names ignoring case, the
\* largest and the newest first
Before(k, a, b) ==
    IF a.type # b.type THEN a.type = TYPE_D
    ELSE LET ka == CASE k \in {1, -1} -> [i \in DOMAIN a.name |-> Lower(a.name[i])]
                     [] k \in {2, -2} -> -a.size
                     [] OTHER         -> -a.stamp
             kb == CASE k \in {1, -1} -> [i \in DOMAIN b.name |-> Lower(b.name[i])]
                     [] k \in {2, -2} -> -b.size
                     [] OTHER         -> -b.stamp
             le(x, y) == IF k \in {1, -1} THEN LexLeq(x, y) ELSE x <= y
         IN IF k > 0 THEN le(ka, kb) ELSE le(kb, ka)

\* tf_sort_dirents leaves the entries in that order for every sort type,
\* whichever arrangement qsort picks among equal entries
SortsOrdered ==
    \A k \in SortTypes \cap SortKinds, es \in Listings :
        \A o \in Qsort(k, es) : IsSorted(o, LAMBDA a, b : Before(k, a, b))
SortOrdered == [][SortsOrdered]_vars

=============================================================================
