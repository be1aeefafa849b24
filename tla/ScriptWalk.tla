----------------------------- MODULE ScriptWalk -----------------------------
(***************************************************************************)
(* The loop README.md:57 walks a script with, parseEach: parse one         *)
(* statement with allowTrailing, and go on with what lies after its tail   *)
(* until a parse fails or nothing is left.                                 *)
(*                                                                         *)
(* A call of parseStmt is a run of RunCore on the rest of the script, and  *)
(* a rest starts with the token that the call before it stopped at.  The   *)
(* script is not empty: with nothing to parse the loop would not start.    *)
(***************************************************************************)
EXTENDS RunCore

VARIABLES
  base,     (* how many tokens of the script, trivia included, were cut off *)
  cutOff,   (* the others among them, where they stand in the script        *)
  first,    (* the type of the token the rest starts with, None at first    *)
  yielded,  (* the statements so far: their EXPLAIN, their tokens' offsets  *)
  walk      (* whether the loop is running, done, or has met an error       *)

walkVars == <<base, cutOff, first, yielded, walk>>
allVars  == <<vars, walkVars>>
-----------------------------------------------------------------------------
InScript(token) == [type |-> token.type, at |-> 2 * base + token.span.offset]

(* The tokens of the script that have been read, but for the synthetic ones. *)
Read(some) ==
  LET real == SelectSeq(some, LAMBDA token : ~token.synthetic)
  IN  [i \in 1 .. Len(real) |-> InScript(real[i])]
Script == cutOff \o Read(tokens)

WalkInit ==
  /\ CoreInit
  /\ base = 0 /\ cutOff = <<>> /\ first = None
  /\ yielded = <<>>
  /\ walk = "running"

(* A step of parseStmt: the rest is read from its first token on, and does *)
(* not end before it.                                                      *)
ParseStep ==
  /\ outcome = None
  /\ CoreNext
  /\ scanned' > scanned =>
       /\ TypesAt(base + scanned) # {}
       /\ scanned = 0 /\ first # None => tokens' = <<TokenAt(0, first)>>
  /\ pc = "scan" /\ pc' = "tail" => scanned > 0
  /\ UNCHANGED walkVars

StatementOf(cmd) ==
  [explain |-> cmd.explain,
   covered |-> {Script[i].at : i \in DOMAIN Script}
                 \cap (2 * base + cmd.span.offset .. 2 * base + End(cmd.span) - 1)]

(* runCore starts over, with a state and a session of its own. *)
RunCoreAgain ==
  /\ yystack' = <<Sentinel>> /\ phase' = "running" /\ root' = None /\ errors' = <<>>
  /\ inputIndex' = 0 /\ la' = None
  /\ scanned' = 0 /\ tokens' = <<>> /\ openers' = <<>> /\ previousToken' = None
  /\ sawOverSinceLastFilterOrSemi' = FALSE /\ lastMajor' = None
  /\ pc' = "scan" /\ outcome' = None
  /\ UNCHANGED mode

(* sql = sql.slice(tail) *)
Slice(tail) ==
  /\ base' = base + tail \div 2
  /\ cutOff' = cutOff \o Read(SelectSeq(tokens, LAMBDA token : token.span.offset < tail))
  /\ first' = LastToken.type

NextStatement_KeepsState ==
  /\ walk = "running" /\ Returned
  /\ parseStmt.ok
  /\ yielded' = Append(yielded, StatementOf(state.cmds[1]))
  /\ IF outcome.tail < sqlLength
     THEN Slice(outcome.tail) /\ RunCoreAgain /\ UNCHANGED <<state, walk>>
     ELSE walk' = "done" /\ UNCHANGED <<vars, base, cutOff, first>>

NextStatement ==
  /\ walk = "running" /\ Returned
  /\ parseStmt.ok
  /\ yielded' = Append(yielded, StatementOf(state.cmds[1]))
  /\ IF outcome.tail < sqlLength
     THEN Slice(outcome.tail) /\ RunCoreAgain /\ state' = InitialState /\ UNCHANGED walk
     ELSE walk' = "done" /\ UNCHANGED <<vars, base, cutOff, first>>

StopAtError_GoesOn ==
  /\ walk = "running" /\ Returned
  /\ ~parseStmt.ok
  /\ RunCoreAgain /\ state' = InitialState
  /\ first' = IF scanned = Len(tokens) THEN tokens[1].type ELSE first
  /\ UNCHANGED <<base, cutOff, yielded, walk>>

StopAtError ==
  /\ walk = "running" /\ Returned
  /\ ~parseStmt.ok
  /\ walk' = "failed"
  /\ UNCHANGED <<vars, base, cutOff, first, yielded>>

WalkNext == ParseStep \/ NextStatement \/ StopAtError

(* The caller runs its loop to the end. *)
WalkSpec == WalkInit /\ [][WalkNext]_allVars /\ WF_allVars(WalkNext)
-----------------------------------------------------------------------------
(* Properties *)

(* The statements of the script, read off its tokens: the stretches        *)
(* between separators, without their EXPLAIN prefix.                       *)
InStatement(i) == i \in DOMAIN Script /\ Script[i].type # SEMI
Begins == {i \in DOMAIN Script : InStatement(i) /\ ~InStatement(i - 1)}
Statement(n) ==
  LET begin == CHOOSE i \in Begins : Cardinality({j \in Begins : j <= i}) = n
      whole == {i \in DOMAIN Script : i >= begin /\ \A j \in begin .. i : InStatement(j)}
      prefix == IF Script[begin].type # EXPLAIN THEN 0
                ELSE IF InStatement(begin + 1) /\ Script[begin + 1].type = QUERY THEN 3
                ELSE 1
  IN  [explain |-> CASE prefix = 0 -> None [] prefix = 1 -> "Explain" [] prefix = 3 -> "QueryPlan",
       covered |-> {Script[i].at : i \in whole \ (begin .. begin + prefix - 1)}]

(* "Incrementally parse a multi-statement script": the walk yields the     *)
(* statements of the script one by one, the n-th parse the n-th of them,   *)
(* whole, with its own EXPLAIN, whatever separators and trivia there are;  *)
(* and it has yielded all of them when it ends without an error.           *)
YieldsScript ==
  /\ Len(yielded) <= Cardinality(Begins)
  /\ \A n \in DOMAIN yielded : yielded[n] = Statement(n)
  /\ walk = "done" => Len(yielded) = Cardinality(Begins)

(* Every walk ends: a tail is past the statement in front of it, and       *)
(* nothing is parsed again.                                                *)
WalkEnds == <>(walk # "running")
=============================================================================
