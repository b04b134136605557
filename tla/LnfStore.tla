------------------------------ MODULE LnfStore -------------------------------
(* The output to LNF files: records are translated, each direction of a      *)
(* biflow by itself, and written to the file of the current window, and      *)
(* their addresses are added to a Bloom filter that is saved when the window *)
(* ends.  Whatever fails leaves a window without a file or without an index.  *)
EXTENDS Integers, Sequences, FiniteSets, SequencesExt, FiniteSetsExt, TLC

CONSTANTS LnfFlows,     \* flows: [biflow, dirs], of each direction a sequence of
                        \* fields [to, unit, value, fits]
          LnfSize,      \* seconds of a window
          LnfStart, LnfEnd,     \* the clock
          Day,          \* seconds of a directory
          LnfTop,       \* the largest number of an LNF field
          FirstEstimate,        \* items expected in the filter
          NoName

VARIABLES align, indexed, autosize,     \* the configuration
          now, windowStart,
          lnfFile,      \* the name of the open file: the start of its window
          filter,       \* the index manager: [state, name, items, est]
          lnfRec,       \* the record that every flow is translated into
          written,      \* what the last message wrote: [flow, dir, rec]
          content,      \* the addresses in the open file
          uncovered,    \* those in files whose index was saved without them
          created, overwritten,     \* the last file of each kind, and names used again
          last,         \* items of the filter when the window before ended
          lnfPc
lnfConf == <<align, indexed, autosize>>
vars == <<lnfConf, now, windowStart, lnfFile, filter, lnfRec, written, content, uncovered, created, overwritten,
          last, lnfPc>>
names == <<created, overwritten>>

\* A record maps LNF fields to numbers; a cleared one has none.
Cleared == [f \in {} |-> 0]

Init ==
    /\ align \in BOOLEAN /\ indexed \in BOOLEAN /\ autosize \in (IF indexed THEN BOOLEAN ELSE {FALSE})
    /\ now = LnfStart /\ windowStart = 0 /\ lnfFile = NoName
    /\ filter = [state |-> "init", name |-> NoName, items |-> {}, est |-> FirstEstimate]
    /\ lnfRec = Cleared /\ written = {} /\ content = {} /\ uncovered = {} /\ last = 0
    /\ created = [lnf |-> NoName, index |-> NoName] /\ overwritten = {} /\ lnfPc = "create"

-----------------------------------------------------------------------------
(* The files manager: what is refused, and the names of files.               *)
Directory == "storage"
FilePrefix == [lnf |-> "lnf.", index |-> "bfi."]
Mode == {"lnf"} \cup (IF indexed THEN {"index"} ELSE {})
\* Names of two files may not collide in a window.
PathCheck ==
    \/ Cardinality(Mode) <= 1
    \/ /\ Cardinality({m \in Mode : FilePrefix[m] = ""}) <= 1
       /\ Cardinality({m \in Mode : FilePrefix[m] = ""}) = 0 => FilePrefix.lnf # FilePrefix.index

\* Without memory, or a filter, there is no manager, and the plugin goes on with
\* memory it has freed (lnfstore.c): nothing is said of that here.
FilesMgrCreate ==
    /\ lnfPc = "create" /\ lnfPc' \in IF PathCheck THEN {"up", "refused"} ELSE {"refused"}
    /\ UNCHANGED <<lnfConf, now, windowStart, lnfFile, filter, lnfRec, written, content, uncovered, names, last>>

\* A path is a sequence of words and slashes, of which several become one.
NameOf(dir, prefix, suffix) == dir \o (IF Last(dir) = "/" THEN <<>> ELSE <<"/">>) \o <<prefix, suffix>>
Sanitized(path) ==
    FoldLeft(LAMBDA p, w : IF w = "/" /\ p # <<>> /\ Last(p) = "/" THEN p ELSE Append(p, w), <<>>, path)
Subdir(ts) == <<"/", ToString(ts \div Day), "/">>
Name(type, ts) ==
    Sanitized(NameOf(<<Directory, "/">> \o Subdir(ts), FilePrefix[type], ToString(ts)))
\* Files are made for windows: of one kind each.
Makes(files) ==
    LET made == {Name(f[1], f[2]) : f \in files}
        before == {Name(m, created[m]) : m \in {n \in DOMAIN created : created[n] # NoName}}
    IN /\ created' = [m \in DOMAIN created |->
                        IF \E f \in files : f[1] = m THEN (CHOOSE f \in files : f[1] = m)[2] ELSE created[m]]
       /\ overwritten' = overwritten \cup (made \cap before)

-----------------------------------------------------------------------------
(* The translator: fields in the order of the flow, a later one of the same  *)
(* target replaces the value; what does not fit the table is left out.       *)
Millis(unit, v) == CASE unit = "s" -> 1000 * v [] unit = "ms" -> v [] unit = "us" -> v \div 1000

\* The lowest eight bits of flags remain; other numbers saturate, and addresses
\* are copied.
Converted(field) ==
    CASE field.unit = "uint" -> Min({field.value, LnfTop})
      [] field.unit = "flags" -> field.value % (LnfTop + 1)
      [] field.unit = "ip" -> field.value
      [] OTHER -> Millis(field.unit, field.value)
Set(rec, f, v) == [g \in DOMAIN rec \cup {f} |-> IF g = f THEN v ELSE rec[g]]
Fit(fields) == SelectSeq(fields, LAMBDA field : field.fits)
\* The record of the translation before is not cleared.
MUT_Translated(rec, fields) ==
    FoldLeft(LAMBDA r, field : Set(r, field.to, Converted(field)), rec, Fit(fields))

Translated(rec, fields) ==
    FoldLeft(LAMBDA r, field : Set(r, field.to, Converted(field)), Cleared, Fit(fields))

-----------------------------------------------------------------------------
(* The index manager.                                                        *)
Indexing == filter.state \in {"partial", "full"}
\* What the open file has and the index, if it is saved for it, has not.
Uncovered(ok) ==
    IF indexed /\ Indexing /\ ok /\ filter.name = lnfFile THEN content \ filter.items ELSE {}

SavedIndex(ok) ==
    IF indexed /\ Indexing /\ ok /\ filter.name # NoName THEN {<<"index", filter.name>>} ELSE {}

\* BF_TOL_COEFF in tenths, and what it makes of a number of items.
Coeff(n) ==
    IF n > 10000000 THEN 11 ELSE IF n > 100000 THEN 12 ELSE IF n > 30000 THEN 15
    ELSE IF n > 5000 THEN 20 ELSE IF n > 500 THEN 30 ELSE 100
Upper(n) == (n * (200 + Coeff(n))) \div 200
Lower(n) == IF Coeff(n) > 12 THEN (n * (100 + 13 * Coeff(n))) \div 100
            ELSE (n * (20 + Coeff(n))) \div 20

\* A window may make the filter smaller unless it was the first.
Resized(n, est) ==
    IF ~autosize \/ ~Indexing THEN est
    ELSE IF Upper(n) > est \/ (Lower(n) < est /\ n > 0 /\ filter.state = "full")
    THEN (n * Coeff(n)) \div 10 ELSE est

Invalid(f) == [f EXCEPT !.state = "error"]
After == IF filter.state = "init" /\ autosize THEN "partial" ELSE "full"
IndexWindow(name, ok) ==
    LET f == [filter EXCEPT !.name = NoName, !.est = Resized(Cardinality(filter.items), @)]
    IN IF ok THEN [f EXCEPT !.name = name, !.items = {}, !.state = After]
       ELSE Invalid([f EXCEPT !.items = {}])

-----------------------------------------------------------------------------
(* A message of one record: first the window, then both directions.          *)
WindowDue == now - windowStart > LnfSize
Begins == IF align THEN (now \div LnfSize) * LnfSize ELSE now

\* The directory is not there, or the name or the directory of the window cannot
\* be made: in any case the files are closed and the outputs disabled.
NoWindow ==
    /\ lnfFile' = NoName
    /\ filter' = IF indexed THEN Invalid(filter) ELSE filter
Window(lnfOk, indexOk) ==
    /\ lnfFile' = IF lnfOk THEN Begins ELSE NoName
    /\ filter' = IF indexed THEN IndexWindow(Begins, indexOk) ELSE filter
NewWindow ==
    /\ lnfPc = "up" /\ WindowDue
    /\ windowStart' = Begins /\ lnfPc' = "store"
    /\ content' = {} /\ last' = IF Indexing THEN Cardinality(filter.items) ELSE 0
    /\ \E ok \in BOOLEAN :
          /\ uncovered' = uncovered \cup Uncovered(ok)
          /\ \/ NoWindow /\ Makes(SavedIndex(ok))
             \/ \E l, i \in BOOLEAN :
                   Window(l, i) /\ Makes(SavedIndex(ok) \cup IF l THEN {<<"lnf", Begins>>} ELSE {})
    /\ UNCHANGED <<lnfConf, now, lnfRec, written>>
SameWindow ==
    /\ lnfPc = "up" /\ ~WindowDue /\ lnfPc' = "store"
    /\ UNCHANGED <<lnfConf, now, windowStart, lnfFile, filter, lnfRec, written, content, uncovered, names, last>>

Addresses(rec) == {rec[f] : f \in DOMAIN rec \cap {"src", "dst"}}
\* A refused address does not make the index of the window invalid.
MUT_Added(f, rec, ok) ==
    IF ~Indexing \/ Addresses(rec) = {} THEN f
    ELSE IF ok THEN [f EXCEPT !.items = @ \cup Addresses(rec)]
    ELSE [f EXCEPT !.items = @ \cup {CHOOSE a \in Addresses(rec) : TRUE}]

\* One of the addresses may be refused.
Added(f, rec, ok) ==
    IF ~Indexing \/ Addresses(rec) = {} THEN f
    ELSE IF ok THEN [f EXCEPT !.items = @ \cup Addresses(rec)]
    ELSE Invalid([f EXCEPT !.items = @ \cup {CHOOSE a \in Addresses(rec) : TRUE}])

\* A direction of which nothing was converted ends the record.
Directions(flow) ==
    LET fwd == [dir |-> 1, rec |-> Translated(lnfRec, flow.dirs[1])]
        rev == [dir |-> 2, rec |-> Translated(fwd.rec, flow.dirs[2])]
    IN IF DOMAIN fwd.rec = {} THEN <<>>
       ELSE IF ~flow.biflow \/ DOMAIN rev.rec = {} THEN <<fwd>> ELSE <<fwd, rev>>
Store ==
    /\ lnfPc = "store" /\ lnfPc' = "up"
    /\ \E flow \in LnfFlows : \E lnfOk, indexOk \in BOOLEAN :
          LET dirs == Directions(flow)
              stored == IF lnfOk /\ lnfFile # NoName THEN ToSet(dirs) ELSE {}
          IN /\ lnfRec' = IF dirs = <<>> THEN Cleared ELSE Last(dirs).rec
             /\ written' = {[flow |-> flow, dir |-> d.dir, rec |-> d.rec] : d \in stored}
             /\ content' = content \cup UNION {Addresses(d.rec) : d \in stored}
             /\ filter' = IF ~indexed THEN filter
                          ELSE FoldLeft(LAMBDA f, d : Added(f, d.rec, indexOk), filter, dirs)
    /\ UNCHANGED <<lnfConf, now, windowStart, lnfFile, uncovered, names, last>>

Tick ==
    /\ lnfPc = "up" /\ now' \in now + 1 .. now + LnfSize + 1 /\ now' <= LnfEnd
    /\ UNCHANGED <<lnfConf, windowStart, lnfFile, filter, lnfRec, written, content, uncovered, names, last, lnfPc>>
LnfDestroy ==
    /\ lnfPc = "up" /\ lnfPc' = "destroyed" /\ lnfFile' = NoName
    /\ \E ok \in BOOLEAN : uncovered' = uncovered \cup Uncovered(ok) /\ Makes(SavedIndex(ok))
    /\ UNCHANGED <<lnfConf, now, windowStart, filter, lnfRec, written, content, last>>
Ended == lnfPc \in {"destroyed", "refused"} /\ UNCHANGED vars

Next == FilesMgrCreate \/ NewWindow \/ SameWindow \/ Store \/ Tick \/ LnfDestroy \/ Ended
Spec == Init /\ [][Next]_vars

-----------------------------------------------------------------------------
(* An index that is saved has the addresses of every record in the file of   *)
(* its window, whatever failed before (idx_manager.c); a record goes to the  *)
(* file of the window its time is in (lnfstore.c), and says nothing of the   *)
(* flow or the direction before it (translator_translate).  No window writes *)
(* over the file or the index of another one (files_manager.c).              *)
IndexCovers == uncovered = {}
InItsWindow ==
    lnfPc = "store" /\ lnfFile # NoName => lnfFile <= now /\ now <= lnfFile + LnfSize
OfItsFlow ==
    \A w \in written :
        LET fields == Fit(w.flow.dirs[w.dir])
        IN \A f \in DOMAIN w.rec : \E i \in DOMAIN fields :
               /\ fields[i].to = f /\ w.rec[f] = Converted(fields[i])
               /\ \A j \in i + 1 .. Len(fields) : fields[j].to # f
NamesFresh == overwritten = {}
LnfFilesDecode == IndexCovers /\ InItsWindow /\ OfItsFlow /\ NamesFresh

(* The filter that is sized by itself has room for as many addresses as the  *)
(* window before had, and for the first one only what is configured.         *)
FilterFits == autosize /\ Indexing => Upper(last) <= filter.est
=============================================================================
