-------------------------- MODULE TestParserTwice --------------------------
(***************************************************************************)
(* Two calls of parseTest on one file, with emitTrivia and then without,   *)
(* as the emitter and a formatter of the same file would make them.        *)
(***************************************************************************)
EXTENDS TestParser

VARIABLE withTrivia  (* the result of the first call, once it has returned  *)

TwiceInit == ParseInit /\ emitTrivia /\ withTrivia = None

SecondCall ==
  /\ Returned /\ emitTrivia
  /\ withTrivia' = [records |-> records, errors |-> errors]
  /\ emitTrivia' = FALSE
  /\ lines' = preprocess(file, FALSE)
  /\ pc' = "preamble" /\ i' = 1
  /\ pending' = <<>> /\ blanks' = NoBlanks /\ conditions' = <<>>
  /\ records' = <<>> /\ errors' = <<>>
  /\ UNCHANGED file

TwiceNext == (ParseNext /\ UNCHANGED withTrivia) \/ SecondCall

(* The caller does make its second call. *)
TwiceSpec ==
  TwiceInit /\ [][TwiceNext]_<<vars, withTrivia>> /\ WF_<<vars, withTrivia>>(TwiceNext)
-----------------------------------------------------------------------------
(* A record without its trivia. *)
TriviaFields == {"comments", "bodyComments", "resultComments"}
Bare(record) ==
  [field \in DOMAIN record \ TriviaFields |->
     IF field = "conditions"
     THEN [n \in 1 .. Len(record.conditions) |->
             [kind |-> record.conditions[n].kind, line |-> record.conditions[n].line]]
     ELSE record[field]]

(* emitTrivia only adds: without it parseTest finds the same records, on   *)
(* the same lines and with the same SQL, results and modifiers, and the    *)
(* same diagnostics, and none of the trivia.                               *)
TriviaOnlyAdds ==
  Returned /\ ~emitTrivia =>
    LET kept == SelectSeq(withTrivia.records, IsRecord)
    IN  /\ errors = withTrivia.errors
        /\ Len(records) = Len(kept)
        /\ \A n \in 1 .. Len(records) :
             /\ Bare(records[n]) = Bare(kept[n])
             /\ \A field \in TriviaFields \cap DOMAIN records[n] : records[n][field] = None

(* Both calls return. *)
BothReturn == <>(Returned /\ ~emitTrivia)
=============================================================================
