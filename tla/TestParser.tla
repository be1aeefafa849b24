----------------------------- MODULE TestParser -----------------------------
(***************************************************************************)
(* parseTest of src/sqllogictest/testparser.ts: the lines of a `.test`     *)
(* file to its records, one turn of a loop a step.  A body is read in one  *)
(* step, for nothing else happens while it is.                             *)
(*                                                                         *)
(* A raw line is [indent, words, trail]: its words, and whether there is   *)
(* white space before the first and after the last.  A text that goes into *)
(* a record unread, of a comment, of SQL or of a result, is its line       *)
(* number: no two lines have the same.                                     *)
(***************************************************************************)
EXTENDS Undefined, Naturals, Sequences, FiniteSets, SequencesExt

CONSTANT Files  (* the files to parse: sequences of raw lines *)

RawLine == [indent : BOOLEAN, words : Seq(STRING), trail : BOOLEAN]

(* None is no modifier, and none of what an optional field may hold. *)
ASSUME FilesAssumption ==
  /\ Files \subseteq Seq(RawLine)
  /\ None \notin {"skipif", "onlyif"}
  /\ None \notin Seq(Nat) \cup [kind : {"hash"}, line : Nat]
                         \cup [kind : {"values"}, values : Seq(Nat)]

VARIABLES
  file,         (* the file, and                                            *)
  emitTrivia,   (* whether comments and blank lines are to be kept          *)
  lines,        (* what preprocess makes of it                              *)
  pc,           (* the loop parseTest is in: preamble, modifiers, returned  *)
  i,            (* its position in lines                                    *)
  pending,      (* comments that wait for the line they belong to           *)
  blanks,       (* [start, count]: the run of blank lines being counted     *)
  conditions,   (* the modifiers read for the next record                   *)
  records, errors

call == <<file, emitTrivia, lines>>
vars == <<call, pc, i, pending, blanks, conditions, records, errors>>
-----------------------------------------------------------------------------
(* Lines *)

IsBlank(raw) == raw.words = <<>>
IsComment(raw) == ~raw.indent /\ raw.words # <<>> /\ raw.words[1] = "#"
IsSeparator(raw) == raw = [indent |-> FALSE, words |-> <<"----">>, trail |-> FALSE]

IsHashLine(raw) ==
  raw = [indent |-> FALSE, words |-> <<"N values hashing to H">>, trail |-> FALSE]

(* The members of a set of line numbers up to last. *)
InOrder(numbers, last) ==
  FlattenSeq([n \in 1 .. last |-> IF n \in numbers THEN <<n>> ELSE <<>>])

(* Comments are numbered, and dropped unless trivia is wanted. *)
Kept(source, trivia) ==
  InOrder({n \in DOMAIN source : trivia \/ ~IsComment(source[n])}, Len(source))
preprocess_Renumbered(source, trivia) ==
  LET kept == Kept(source, trivia)
  IN  [n \in 1 .. Len(kept) |-> [text |-> source[kept[n]], line |-> n]]
preprocess(source, trivia) ==
  LET kept == Kept(source, trivia)
  IN  [n \in 1 .. Len(kept) |-> [text |-> source[kept[n]], line |-> kept[n]]]

More == i <= Len(lines)
Here == lines[i].text
WordOf(raw, n) == IF n <= Len(raw.words) THEN raw.words[n] ELSE None
Word(n) == WordOf(Here, n)

IsModifier(raw) == WordOf(raw, 1) \in {"skipif", "onlyif"}
IsControl(raw) == WordOf(raw, 1) \in {"hash-threshold", "halt"}
Malformed(raw) ==
  LET word(n) == WordOf(raw, n)
  IN  \/ word(1) \notin {"statement", "query", "hash-threshold", "halt"}
      \/ word(1) = "statement" /\ word(2) \notin {"ok", "error"}
      \/ word(1) = "query" /\ word(2) \notin {"T", "I", "R"}
      \/ word(1) = "query" /\ word(3) \notin {None, "nosort", "rowsort", "valuesort"}
      \/ word(1) = "hash-threshold" /\ word(2) \notin {"0", "8"}

(* The first blank line from the given one on, or the end. *)
skipToBlank(from) ==
  CHOOSE n \in from .. Len(lines) + 1 :
    /\ n <= Len(lines) => IsBlank(lines[n].text)
    /\ \A m \in from .. n - 1 : ~IsBlank(lines[m].text)
LineNumbers(positions, last) ==
  LET kept == InOrder(positions, last)
  IN  [n \in 1 .. Len(kept) |-> lines[kept[n]].line]
Texts(first, last) ==
  LineNumbers({n \in first .. last : ~IsComment(lines[n].text)}, last)
CommentsAmong(first, last) ==
  LineNumbers({n \in first .. last : IsComment(lines[n].text)}, last)

(* Trivia fields are there only when trivia is wanted. *)
Trivia(comments) == IF emitTrivia THEN comments ELSE None
-----------------------------------------------------------------------------
Comment(line) == [type |-> "comment", line |-> line]
BlankRun(run) == [type |-> "blank", line |-> run.start, count |-> run.count]
NoBlanks == [start |-> 0, count |-> 0]

WithBlankRun == IF blanks.count > 0 THEN Append(records, BlankRun(blanks)) ELSE records
WithPending == [n \in 1 .. Len(pending) |-> Comment(pending[n])]

flushBlankRun == records' = WithBlankRun /\ blanks' = NoBlanks
flushPendingAsTopLevel == records' = records \o WithPending /\ pending' = <<>>
err(line) == errors' = Append(errors, line)

ParseInit ==
  /\ file \in Files
  /\ emitTrivia \in BOOLEAN
  /\ lines = preprocess(file, emitTrivia)
  /\ pc = "preamble" /\ i = 1
  /\ pending = <<>> /\ blanks = NoBlanks /\ conditions = <<>>
  /\ records = <<>> /\ errors = <<>>
-----------------------------------------------------------------------------
(* The preamble: blank lines, and comments between records *)

InPreamble == pc = "preamble"

BlankLine_KeepsPending ==
  /\ InPreamble /\ More /\ IsBlank(Here)
  /\ IF emitTrivia
     THEN blanks' = [start |-> IF blanks.count = 0 THEN lines[i].line ELSE blanks.start,
                     count |-> blanks.count + 1]
     ELSE UNCHANGED blanks
  /\ i' = i + 1
  /\ UNCHANGED <<call, pc, pending, conditions, records, errors>>
BlankLine_OnlyAsTrivia ==
  /\ InPreamble /\ More /\ IsBlank(Here) /\ emitTrivia
  /\ flushPendingAsTopLevel
  /\ blanks' = [start |-> IF blanks.count = 0 THEN lines[i].line ELSE blanks.start,
                count |-> blanks.count + 1]
  /\ i' = i + 1
  /\ UNCHANGED <<call, pc, conditions, errors>>

BlankLine ==
  /\ InPreamble /\ More /\ IsBlank(Here)
  /\ IF emitTrivia
     THEN /\ flushPendingAsTopLevel
          /\ blanks' = [start |-> IF blanks.count = 0 THEN lines[i].line ELSE blanks.start,
                        count |-> blanks.count + 1]
     ELSE UNCHANGED <<records, pending, blanks>>
  /\ i' = i + 1
  /\ UNCHANGED <<call, pc, conditions, errors>>

CommentLine ==
  /\ InPreamble /\ More /\ IsComment(Here)
  /\ flushBlankRun
  /\ pending' = Append(pending, lines[i].line)
  /\ i' = i + 1
  /\ UNCHANGED <<call, pc, conditions, errors>>

EndPreamble ==
  /\ InPreamble /\ More /\ ~IsBlank(Here) /\ ~IsComment(Here)
  /\ flushBlankRun
  /\ pc' = "modifiers" /\ conditions' = <<>>
  /\ UNCHANGED <<call, i, pending, errors>>

ReturnResult ==
  /\ InPreamble /\ ~More
  /\ records' = WithBlankRun \o WithPending
  /\ blanks' = NoBlanks /\ pending' = <<>>
  /\ pc' = "returned"
  /\ UNCHANGED <<call, i, conditions, errors>>
-----------------------------------------------------------------------------
(* The modifiers of a record *)

InModifiers == pc = "modifiers"

ModifierComment ==
  /\ InModifiers /\ More /\ IsComment(Here)
  /\ pending' = Append(pending, lines[i].line)
  /\ i' = i + 1
  /\ UNCHANGED <<call, pc, blanks, conditions, records, errors>>

NoEngine ==
  /\ InModifiers /\ More /\ IsModifier(Here) /\ Word(2) = None
  /\ err(lines[i].line)
  /\ i' = i + 1
  /\ UNCHANGED <<call, pc, pending, blanks, conditions, records>>

Modifier_SharesComments ==
  /\ InModifiers /\ More /\ IsModifier(Here) /\ Word(2) # None
  /\ conditions' = Append(conditions, [kind |-> Word(1), line |-> lines[i].line,
                                       comments |-> Trivia(pending)])
  /\ i' = i + 1
  /\ UNCHANGED <<call, pc, pending, blanks, records, errors>>

Modifier ==
  /\ InModifiers /\ More /\ IsModifier(Here) /\ Word(2) # None
  /\ conditions' = Append(conditions, [kind |-> Word(1), line |-> lines[i].line,
                                       comments |-> Trivia(pending)])
  /\ pending' = <<>>
  /\ i' = i + 1
  /\ UNCHANGED <<call, pc, blanks, records, errors>>

(* A blank line, or the end, after the modifiers. *)
NoRecord ==
  /\ InModifiers /\ (More => IsBlank(Here))
  /\ IF conditions # <<>> THEN err(conditions[Len(conditions)].line) ELSE UNCHANGED errors
  /\ flushPendingAsTopLevel
  /\ pc' = "preamble"
  /\ UNCHANGED <<call, i, blanks, conditions>>
-----------------------------------------------------------------------------
(* The record *)

AtHeader == InModifiers /\ More /\ ~IsBlank(Here) /\ ~IsComment(Here) /\ ~IsModifier(Here)

(* The header is read, and what waits is attached to the record, if there  *)
(* will be one.                                                            *)
ReadsHeader ==
  /\ AtHeader
  /\ pending' = <<>>
  /\ pc' = "preamble"
  /\ UNCHANGED <<call, blanks, conditions>>

MalformedHeader_Aborts ==
  /\ ReadsHeader
  /\ Malformed(Here)
  /\ err(lines[i].line)
  /\ i' = Len(lines) + 1
  /\ UNCHANGED records

MalformedHeader ==
  /\ ReadsHeader
  /\ Malformed(Here)
  /\ err(lines[i].line)
  /\ i' = skipToBlank(i + 1)
  /\ UNCHANGED records

parseExpected(first, last) ==
  LET results == Texts(first, last)
  IN  IF Len(results) = 1 /\ IsHashLine(file[results[1]])
      THEN [kind |-> "hash", line |-> results[1]]
      ELSE [kind |-> "values", values |-> results]

Statement ==
  /\ ReadsHeader
  /\ Word(1) = "statement" /\ ~Malformed(Here)
  /\ LET stop == skipToBlank(i + 1)
     IN  /\ records' =
              Append(records,
                [type |-> "statement", line |-> lines[i].line,
                 conditions |-> conditions, comments |-> Trivia(pending),
                 expect |-> Word(2), sql |-> Texts(i + 1, stop - 1),
                 bodyComments |-> Trivia(CommentsAmong(i + 1, stop - 1))])
         /\ i' = stop
  /\ UNCHANGED errors

(* The SQL of a query ends at the first "----"; after it "----" is a value. *)
EndOfSql(from, stop) ==
  CHOOSE n \in from .. stop :
    /\ n < stop => IsSeparator(lines[n].text)
    /\ \A m \in from .. n - 1 : ~IsSeparator(lines[m].text)
Query ==
  /\ ReadsHeader
  /\ Word(1) = "query" /\ ~Malformed(Here)
  /\ LET stop == skipToBlank(i + 1)
         separator == EndOfSql(i + 1, stop)
     IN  /\ records' =
              Append(records,
                [type |-> "query", line |-> lines[i].line,
                 conditions |-> conditions, comments |-> Trivia(pending),
                 types |-> Word(2), sort |-> IF Word(3) = None THEN "nosort" ELSE Word(3),
                 label |-> Word(4), sql |-> Texts(i + 1, separator - 1),
                 bodyComments |-> Trivia(CommentsAmong(i + 1, separator - 1)),
                 expected |-> IF separator = stop THEN None
                              ELSE parseExpected(separator + 1, stop - 1),
                 resultComments |-> Trivia(CommentsAmong(separator + 1, stop - 1))])
         /\ i' = stop
  /\ UNCHANGED errors

(* A control record has no body: the next line may be a header. *)
Control ==
  /\ ReadsHeader
  /\ IsControl(Here) /\ ~Malformed(Here)
  /\ records' = Append(records, [type |-> Word(1), line |-> lines[i].line,
                                conditions |-> conditions, comments |-> Trivia(pending)])
  /\ i' = i + 1
  /\ UNCHANGED errors
-----------------------------------------------------------------------------
Preamble  == BlankLine \/ CommentLine \/ EndPreamble \/ ReturnResult
Modifiers == ModifierComment \/ NoEngine \/ Modifier \/ NoRecord
Record    == MalformedHeader \/ Statement \/ Query \/ Control

ParseNext == Preamble \/ Modifiers \/ Record
-----------------------------------------------------------------------------
(* Properties *)

LineNumber == 1 .. Len(file)
Returned == pc = "returned"
IsRecord(record) == record.type \notin {"comment", "blank"}

OrNone(comments) == IF comments = None THEN <<>> ELSE comments

(* The lines that went into a record, in no order. *)
LinesOf(record) ==
  CASE record.type = "comment" -> <<record.line>>
    [] record.type = "blank"   -> [n \in 1 .. record.count |-> record.line + n - 1]
    [] OTHER ->
         LET modifiers == FlattenSeq([n \in 1 .. Len(record.conditions) |->
                            OrNone(record.conditions[n].comments) \o <<record.conditions[n].line>>])
             head == modifiers \o OrNone(record.comments) \o <<record.line>>
             body == IF "sql" \in DOMAIN record
                     THEN record.sql \o OrNone(record.bodyComments) ELSE <<>>
             results ==
               IF "expected" \notin DOMAIN record THEN <<>>
               ELSE OrNone(record.resultComments) \o
                    IF record.expected = None THEN <<>>
                    ELSE IF record.expected.kind = "hash" THEN <<record.expected.line>>
                    ELSE record.expected.values
         IN  head \o body \o results
Accounted == FlattenSeq([n \in 1 .. Len(records) |-> LinesOf(records[n])])

(* The lines of a block, the stretch between blank lines with n in it. *)
BlockOf(n) ==
  {m \in LineNumber : \A k \in LineNumber :
     (m <= k /\ k <= n) \/ (n <= k /\ k <= m) => ~IsBlank(file[k])}

(* "preserve comments and blank-line runs as nodes": no line goes into the *)
(* result twice, and the ones that do not are the "----" of queries, and   *)
(* lines of a block in which something was diagnosed.                      *)
LinesAccountedFor ==
  Returned /\ emitTrivia =>
    /\ IsInjective(Accounted)
    /\ \A n \in LineNumber \ ToSet(Accounted) :
         IsSeparator(file[n]) \/ BlockOf(n) \cap ToSet(errors) # {}

(* The first line after n that is no comment; Len(file) + 1 if none is. *)
NextLine(n) ==
  CHOOSE m \in n + 1 .. Len(file) + 1 :
    /\ m <= Len(file) => ~IsComment(file[m])
    /\ \A k \in n + 1 .. m - 1 : IsComment(file[k])

(* (A modifier without an engine does not break the attachment.)            *)
AttachedDirectlyAbove ==
  Returned /\ emitTrivia =>
    \A record \in ToSet(records) :
      LET bare(n) == IsModifier(file[n]) /\ WordOf(file[n], 2) = None
          above(n, line) ==
            /\ n < line
            /\ \A m \in n + 1 .. line - 1 : IsComment(file[m]) \/ bare(m)
      IN  IF record.type = "comment"
          THEN LET next == NextLine(record.line)
               IN  next <= Len(file) => IsBlank(file[next]) \/ bare(next)
          ELSE IsRecord(record) =>
                 /\ \A n \in ToSet(record.comments) : above(n, record.line)
                 /\ \A c \in ToSet(record.conditions) :
                      \A n \in ToSet(c.comments) : above(n, c.line)

InLineOrder ==
  Returned =>
    /\ \A m, n \in 1 .. Len(records) : m < n => records[m].line < records[n].line
    /\ \A record \in ToSet(records) :
         record.type = "blank" =>
           LET after == record.line + record.count
           IN  /\ record.line > 1 => ~IsBlank(file[record.line - 1])
               /\ after <= Len(file) => ~IsBlank(file[after])

(* The rule at the top of the file: a comment above a header or a modifier *)
(* is attached to that line, and one above a blank line or the end, and    *)
(* not in a body, is a record of its own.  Records come in the order of    *)
(* their lines, these among them, and a run of blank lines is one record,  *)
(* of all its lines.                                                       *)
TriviaInPlace == AttachedDirectlyAbove /\ InLineOrder

(* Where the file has a command: the first line of a block, and the one    *)
(* after a modifier or a control record, comments aside.                   *)
IsCommand ==
  LET previous(n) ==
        CHOOSE m \in 0 .. n - 1 :
          /\ m > 0 => ~IsComment(file[m])
          /\ \A k \in m + 1 .. n - 1 : IsComment(file[k])
      command[n \in LineNumber] ==
        LET m == previous(n)
        IN  /\ ~IsBlank(file[n]) /\ ~IsComment(file[n])
            /\ \/ m = 0
               \/ IsBlank(file[m])
               \/ command[m] /\ (IsModifier(file[m])
                                  \/ (IsControl(file[m]) /\ ~Malformed(file[m])))
  IN  command

(* "One malformed record does not abort the parse": every well-formed      *)
(* header in the place of a command has its record, whatever was wrong in  *)
(* the blocks before it, and every other line there has its diagnostic; no *)
(* line of a body, and none after a malformed header, has either.          *)
Resynchronises ==
  Returned =>
    LET commands == {n \in LineNumber : IsCommand[n]}
        modifiers == {n \in commands : IsModifier(file[n])}
        bare == {n \in modifiers : WordOf(file[n], 2) = None}
        headers == commands \ modifiers
        malformed == {n \in headers : Malformed(file[n])}
        \* Modifiers with no command after them, in their block.
        dangling == {n \in modifiers : ~\E m \in commands : m > n /\ m \in BlockOf(n) \ bare}
    IN  /\ {r.line : r \in {r \in ToSet(records) : IsRecord(r)}} = headers \ malformed
        /\ ToSet(errors) = bare \cup malformed \cup (dangling \ bare)
=============================================================================
