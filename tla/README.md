# A verification of sqlite3-parser-js

TLA+ specifications of the parser in this repository, TLC configurations that
check them on the shipped SQLite 3.53.0 tables, and TLAPS proofs about the LALR
engine and its driver for any tables that satisfy stated assumptions, about
walks of any tree, and about the tokens of any source. Paths below are relative
to the repository: `src/lempar.ts` is the engine, `src/parser.ts` the driver,
`generated/3.53.0/parse.ts` the tables and the reducer.

## The system

The program turns SQL text into an AST. Everything is synchronous and single
threaded; nothing is persisted. What makes it hard is order and leftover state:
one loop calls another in the middle of it, a statement is committed one token
after its end, parts of a node wait in slots for a later rule, and several
parties (tokenizer, engine, reducer, driver) report what goes wrong.

| Component | State it keeps | Operations | Interacts with |
| --- | --- | --- | --- |
| Tokenizer, `src/tokenize.ts`, `generated/…/keywords.ts` | cursor (offset, line, col) | `next` of a lazy iterator | pulled by the driver, one token at a time |
| LALR engine, `src/lempar.ts` | stack, phase, root, errors, token count | `next(major, minor, span)`, `yy_expected` | reads the tables; calls the reducer inside `next` |
| Tables, `generated/…/parse.ts` | none | constants | read by engine and diagnostics |
| Reducer, `generated/…/parse.ts`, `src/ast/parseActions.ts` | `ParseState`: stmt, explain, cmds, constraintName, vtab slots, errors | `reduce(state, rule, popped, span)` | called by the engine; its state object is also read by the driver |
| Driver, `src/parser.ts` | opener stack, previous token, OVER flag, last major, tokens | `parse`, `parseStmt`, over `runCore` | pulls tokens, feeds the engine, reads `session` and `ParseState` after each call |
| A caller's loop, `README.md:57` | the rest of the script | `parseEach` | calls `parseStmt` again on what is after `tail` |
| Diagnostics, `src/diagnostics.ts` | none | hints, code blocks | reads the driver's notes and `yy_expected` |
| AST nodes and traversal, `src/ast/nodes.ts`, `src/ast/traverse.ts` | recursion | `traverse` with break and skip | callbacks of the visitor |
| SQL logic test parser, `src/sqllogictest/` | line index, waiting comments and modifiers | `parseTest` of a test script | feeds the emitter |
| Utilities, CLI, build scripts | none | conversions, I/O, code generation | |

What makes each component correct, in short:

- **Engine.** A reduce finds its whole right-hand side above the sentinel and a
  GOTO below it; spans stay in source order; no token is lost, repeated or
  swapped on the way to the reducer; one error at most, naming a parser state
  and the right token; every call returns.
- **Reducer.** Values have the types the next rule casts them to; no part of a
  right-hand side is lost; what one rule stages for another reaches that other
  and nobody else.
- **Driver.** Every statement committed once and in order; trailing content is
  found exactly at the first token of the second statement; `tail` cuts the
  source at a statement boundary; nothing any party reported is forgotten; the
  driver uses its session by the engine's rules.
- **Tokenizer.** The tokens tile the source, each one the token its own text
  would be; line and column follow; the helpers that read a token's text agree
  with the scanner about it.
- **Diagnostics.** A hint is given for the reason it names.
- **Traversal.** A walk reaches the whole tree in reading order; break stops
  everything, skip stops one subtree, leave is called for what was entered.
- **Test parser.** Every line ends up in one place; a broken record spoils its
  own block only.

The hazards in `PROJECT.json` list, line by line, where these can go wrong and
which property would notice.

## Modules

| Module | Models |
| --- | --- |
| `Lempar` | the engine: one session |
| `LemparTables` | what the engine takes for granted of its tables, as assumptions |
| `LemparYield` | the engine with a reducer that keeps which tokens are below a node |
| `LemparProofs`, `LemparYieldProofs`, `RunCoreProofs` | theorems about `Lempar`, `LemparYield` and `RunCore` from those assumptions |
| `SqliteTables`, `ShippedTables` | the shipped tables and the table of expected tokens, transcribed from `parse.ts` |
| `ParseActions` | the reducer, as far as it decides a later action |
| `RunCore` | `runCore`: token loop, engine session, early returns, EOF tail |
| `ScriptWalk` | the loop of `README.md` over `parseStmt`; extends `RunCore` |
| `Diagnostics` | the hint of a syntax error; reads the state `RunCore` returns in |
| `Nodes` | every node type with its fields and what they may hold |
| `AstActions` | the reducer with all 413 rules and the AST they build |
| `AstParser` | engine and `AstActions` on a script |
| `AstRefinement` | `AstParser` implements `Lempar` with `ParseActions` |
| `Traverse`, `AstTraverse` | `traverse` and `VisitorKeys`; a parse and a walk of its tree |
| `TraverseProofs` | theorems about `Traverse`, for every tree and visitor |
| `Tokenizer`, `Keywords` | scanner and token stream, quoting helpers of `src/util.ts`; the keyword table |
| `TokenizerProofs`, `ScannerProofs` | how the scanner's loops run and theorems about the token stream; what a token depends on, and about its text |
| `RecursionLemmas` | induction, and loops as recursive functions, for the proofs |
| `TokenDiagnostics` | the hint for an illegal token, and the lines and carets of a code block |
| `TestParser`, `TestParserTwice` | `parseTest`; two calls of it on one file, with and without trivia |
| `TestParserProofs` | theorems about where the lines of a test script go and which commands are answered |
| `Undefined` | `None`, which stands for `undefined` everywhere |
| `MC…` | constants for model checking |

Operators named `X_Y` beside an operator `X` are variants of `X` with a mistake
that could have been made in the code; `PROJECT.json` says which property each
one violates.

### Lempar

The variables are the private fields of `YYParser`, plus `state` (the reducer's
context) and `la`, the arguments of the `next()` call in progress. `next()` is a
loop that may run the reducer many times, so one turn of the loop is one step:
`Feed` enters the call, `ReduceStep`, `ShiftStep`, `AcceptStep` and `ErrorStep`
are the branches of the loop. A caller only sees states with `la = None`. A
stack entry's `stateno` is, as in the code, a state or an action code that is
due (a pending reduce after a shift-reduce, or accept after the start symbol's
GOTO); `yy_find_shift_action` returns such a code as it is. The reducer is the
parameter `Reducer`, a set of possible results.

Abstracted: the debug trace, the array reuse of the code, and chains of
`%fallback` (no fallback of the tables has one of its own, which
`FallbackAssumption` states and TLC checks).

A caller is assumed to feed tokens in source order, none before the end of what
was fed earlier (the guard of `Feed`). `EngineContract` checks that `runCore`
is such a caller.

### LemparTables

The engine pops entries and looks up GOTOs without checks: that is safe because
of what an LALR(1) automaton is, not because of anything in `src/lempar.ts`.
`Back[s][k]` is the set of states that can lie `k` entries below state `s`.
TLC computes it from the shipped tables; the assumptions then say that every
action and GOTO of a reachable state decodes to a branch of the loop, that a
reduce due above `s` is no longer than what must lie below (the initial state 0
occurs nowhere in between), and that every state it can uncover has a GOTO for
its left-hand side. These are statements about constants, checked by evaluating
them for all 188 terminals and all rules on every run of `MCLempar`.

### Two reducers

`AstActions` has every case of the generated `switch` and the helpers of
`src/ast/parseActions.ts`. A value is a record `[type, word, span, kids]`: a
node with its fields in the order of its interface, a list, or a scalar. Flag
words and the wording of diagnostics are dropped: a diagnostic is the rule that
reported it and its span. `Nodes` declares what every field of every node may
hold, and `WellTyped` compares the two at every reduction.

`ParseActions` keeps of all this what a later action or a property of `runCore`
looks at: a statement is its span, a name its offset; a result column list knows
whether it has a star, a constraint which name it was given. Where a diagnostic
depends on what is dropped (duplicate columns, join types, arity of VALUES) the
rule may or may not report it. `RefinesEngine` is the refinement between them:
with the stack's values mapped by `Abstraction` and the state by
`AbstractState`, every parse of `AstParser` is one of `Lempar` with
`ParseActions`, step for step. The runs of `RunCore` and the theorems about
`Lempar` rest on the abstract one and so speak about the real one.

### RunCore and ScriptWalk

`RunCore` extends `Lempar` with the local variables of `runCore`. The steps of
the session and of the driver alternate through `pc`: `FeedToken` enters
`next()`, the engine runs (`EngineStep`), and when it has returned one of
`RejectTrailing`, `StopAtTrailing`, `SyntaxError` and `NoteToken` follows, in
the order of the code's checks. `EndOfSource` starts the EOF tail with its
synthetic SEMI and end marker. The source is chosen while it is read: each token
is one character, followed by a space, all on one line; it contains no NUL. The
`filename` and `emitTokens` options do not change control; `tokens` is always
kept. `EngineContract` says that all this is a behaviour of `Lempar`.

`ScriptWalk` calls `parseStmt` with `allowTrailing` until nothing is left.
`NextStatement` takes a result, cuts the script after `tail` and calls again;
the rest starts with the token the call before it stopped at.

### Diagnostics, TokenDiagnostics

Hints are pure functions of the state `runCore` returns in, in the order of
`buildHint`. A hint is what its message says; wording and layout are left out.
`TokenDiagnostics` works on the characters of `Tokenizer`.

### Traverse

`walk` calls itself, so the recursion is a stack of frames, and every callback
is an action (`EnterNode`, `HandleNode`, `LeaveNode`); what a callback returns is
its choice. `VisitChild` is the recursive call. A visitor may have custom keys.

### Tokenizer

A source is a sequence of characters. `nextToken` is the scanner, branch by
branch. A loop that runs over characters of a set is the position it stops at
(`Past`, `Find`), one that does more is a recursive function of the position.
`Advance` counts lines and columns over a token's text; a call of `next` is
`NextToken`, which skips trivia first, or `NextDone`. The code looks a word up
among the enabled keywords of its length; `KeywordNamed` is the first one in the
table that has the name and an enabled flag. `sqlite3Dequote` leaves text that
is not quoted as it is, as the code does.

### TestParser

A line is its words and whether white space surrounds them; texts that go into a
record unread are line numbers, which makes "where did this line go" a question
about sets. Each turn of a loop of `parseTest` is a step; a body is read in one.

## Runs and bounds

The tables of every run are the shipped ones, 586 states and 413 rules, with no
reduction. A property may have named parts, listed here in brackets.

| Run | Question | Bounds |
| --- | --- | --- |
| `engine` | Do the assumptions hold of the shipped tables? Is the stack (`SoundStack`: `SentinelKept`, `PendingReduceFits`, `StackIsPath`), its spans, its yield and the verdict (`SoundVerdict`) right, and does every call return? | every pair of terminals, with and without a gap, then up to three of SEMI, SELECT, ID and parentheses, then the end marker |
| `runcore_statements` | Are statements committed in order, at the right token, with their own EXPLAIN prefix, and is ok only said of a clean source? | ten token types, up to six tokens |
| `runcore_modes` | Trailing content, tail, error position, in the four ways of calling; does `runCore` use its session by the engine's specification? | seven types with trivia and illegal tokens, up to six tokens |
| `diagnostics` | Are listed tokens accepted, and are openers what the hint says (and the parser's unmatched ones, `OpenersAreOnStack`)? | five types to start with and fifteen after it, up to seven tokens |
| `script_walk` | Does the walk yield the statements of the script, all of them unless it fails, and end? | seven types with trivia and illegal tokens, up to seven tokens |
| `ast` | Is every value well typed, are spans nested, is nothing lost; does the abstract reducer allow it; do walks visit in order (`EntersInPreorder`, `BreakIsLast`), nest (`LeavesPaired`, `ParentEncloses`) and reach everything in reading order? | one or more scripts for every rule of the grammar; walks of the small trees, with one signal at any point |
| `tokenizer` | Tiling, positions, independence of the context; words (`WordsRead`: `CaseInsensitive`, `KeywordsAsListed`); quotes, blobs, separators, hints and carets | every string of up to three characters over six alphabets, longer ones over narrower alphabets (up to seven), every keyword in three spellings, flags and separators on and off |
| `testparser` | Where does each line go; does a malformed record spoil only its block; does trivia change anything else; do both calls return? | every file of up to three of nineteen kinds of line, up to six of the kinds that make comments wait, and bodies of up to five lines |

Six tokens hold two statements with their separator and the start of a third,
an `EXPLAIN QUERY PLAN` statement and its neighbour, or three nested
parentheses; every longer source repeats these situations, as no variable counts
beyond the number of tokens. A scanner looks ahead by three characters at most,
and the longer strings hold a whole token of each kind with its neighbours. The
scripts of `ast` were chosen so that every rule fires, most of them in several
contexts. Sources, files and trees are finite and the stacks are bounded by
them; no other bound is put on the models. `MaxTokens`, `MaxLength`, `MaxLines`,
`MaxFewLines` and `MaxSignals` name the bounds. Deadlock is not checked: a
session after its verdict, a function after its return, really stops.

Liveness: `NextReturns` assumes weak fairness of the engine's steps, `Returns`
of the whole of `runCore`, `WalkEnds` of the loop over `parseStmt`, and
`BothReturn` of `parseTest` and of the caller's second call. All say only that
synchronous code that can go on does go on; there is no scheduler in the
program. `NextReturns` does not assume that anybody calls `next()`.

`engine` also checks `StackYieldsInput`. Its reducer (`Collect` of `LemparYield`)
keeps of each right-hand side the spans of the tokens below it; read from bottom
to top, the stack then has every token that was shifted, once and in source
order, and a node's span covers the tokens below it.

### What the runs refute

These runs check what a comment or a doc says, and TLC finds a behaviour of the
code that differs. `PROJECT.json` quotes each text.

| Run | What the code does |
| --- | --- |
| `runcore_reducer_errors` | `parseStmt` with `allowTrailing` returns ok for `SELECT *; COMMIT`, dropping "no tables specified", while it fails for `SELECT *;` |
| `runcore_constraint_names` | `CREATE TABLE t (a CONSTRAINT c); CREATE TABLE u (b NULL)` gives the second table's constraint the name `c` |
| `engine_spans_located` | the span of an empty production has the line and column of the token before it |
| `diagnostics_identifier` | the list of expected tokens has "identifier" where only a keyword is accepted, as after EXPLAIN |

### What else was met

The models follow the code in these points, and the properties allow for them;
no run is spent on each.

- The `CmdList` of a source without statements has column 1, where columns
  count from 0.
- An `END` read as a name inside a CASE takes the CASE off the opener stack, so
  `OpenersAreOnStack` speaks of parentheses only.
- An illegal token after a complete first statement fails `parseStmt` in spite
  of `allowTrailing`.
- `VisitorKeys` has LIMIT as `expr, offset`, also where the source has them the
  other way round (`LIMIT 1, 2`), so walks are in reading order but for that.
- The comma hint before the end of the input cannot come up: another hint is
  chosen first. `ON UPDATE` and `DO UPDATE` get the hint about a table name. The
  hint to quote a keyword has the flaw of `diagnostics_identifier`. Default
  reductions shorten the list of expected tokens. A missing comma is a guess.
- Comments in a failed record of a `.test` file are lost.
- Virtual table arguments lose the text between nested parentheses, and empty
  arguments are dropped. `DEFERRABLE` does not consume a constraint name.
  Duplicate columns are found case sensitively.
- The span of an EXPLAIN does not cover the EXPLAIN, and DELETE, INSERT and
  UPDATE statements start at the end of the token before them when they have no
  WITH.
- `isSpace` takes a vertical tab for white space, the first character of a token
  is classed without it.

## Proofs

TLC checks instances; the theorems below hold for every value of the constants
that satisfies the named assumptions. `PROJECT.json` lists them.

### The engine

`LemparProofs` proves the engine's safety properties `TypeOK`, `SpansOrdered`,
`SoundStack` and `SoundVerdict`, the last two part by part, for every table,
reducer, alphabet and caller that satisfy the assumptions of `Lempar` and
`LemparTables`.

`TypeOK` is not inductive: a reduce gives its entry a span whose length is a
difference, so its type needs the order of the spans; and the state it pushes
comes from a GOTO that must exist, which needs the shape of the stack. The
inductive invariant is

    EngineInv == TypeOK /\ WellFormed(yystack) /\ SpansOrdered

where `WellFormed` says the stack stands on the sentinel, only its top may hold
a due action, its states spell a path (`IsPath`), and a due reduce fits
(`PendingFits`). The stack changes in two ways, and a lemma treats each for any
stack: `Cut` shortens it, `Push` adds an entry that a table action allows.
`FitsAbove` is the heart: if a rule's right-hand side reached down to the
sentinel, the sentinel's state 0 would lie below the top within that length,
which the table assumptions exclude. `RuleSpanFits` and `PushOrdered` do the
same for spans. `SpansOrdered` compares every pair of entries rather than
neighbours, which makes it inductive with no induction over the stack.
`VerdictConsistent` is inductive by itself given `TypeOK`, and `ErrorHasState`
follows as an error is only met when the top entry is a state (`ErrorState`).

The assumptions are no more than the encoding of the actions, natural numbers in
the rule tables, callers that pass typed arguments, and the three table
assumptions; `engine` evaluates all of them on the shipped tables. TLAPS does
not look at the tables.

`LemparYieldProofs` proves `StackYieldsInput` (`NoTokenLost`) and the action
property `TakesTokens` (`TokensOnlyAdded`: a shift adds the token in flight at
the end of what the stack holds, and no other step changes that). The hypothesis
`Collecting` says that a token's minor is its span and that the reducer returns
the spans in the right-hand side it is given. That restricts the reducer, but
not what is learnt of the engine: it decides nothing by a minor, it only moves
minors from `Feed` to the stack and from there to the reducer, so what reaches
`Collect` is in the same places and the same order for every other reducer. How
the AST is built from it is `AstActions`, which TLC checks.

`StackYieldsInput` itself does not survive a reduce: it says where each entry
starts and ends compared to its own tokens, and a new entry with an empty one
first or last takes its bounds from a neighbour. The invariant speaks of the
tokens below the first `k` entries, for every `k` (`Below`):

    YieldInv == Collected(yystack) /\ Len(Below(yystack, Len(yystack))) = inputIndex
                /\ (la # None => la.minor = <<la.span>>)

`Collected` has the tokens in source order, entry `k` ending where the tokens up
to `k` end, an empty entry included, and no entry starting after the tokens
above the one below it. A reduce keeps `Below` for the entries it keeps
(`BelowSame`), and for its own entry `Below` is what it was for the top
(`ReduceCollects`), since flattening a sequence in two steps or in one is the
same (`TokensConcat`). That is `FlattenConcat` of `RecursionLemmas`, about the
recursive `FlattenSeq` of the community modules.

### The driver

`RunCoreProofs` proves `EngineContract`, that `runCore` is a behaviour of
`Lempar`. The engine's theorems were about a caller that feeds tokens in source
order between two calls; that the driver is one has to be an invariant of its
own:

    CoreInv == EngineOK /\ CoreTypeOK /\ FedIsScanned /\ InStep

`EngineOK` is what was proved of the engine. `FedIsScanned`: nothing on the
stack, and no token in flight, ends after the part of the source that has been
read, so the next token starts after them all; this includes the synthetic SEMI
and end marker of the EOF tail, which have no length. `InStep`: where the driver
is in its loop agrees with what the session does, so that it calls `next` only
between two calls of a running session, and its token list and the session's
count agree. `CoreStepsEngine` gets a step of the engine (or a stutter) out of
each action of the driver, `EngineOKKept` gets `EngineOK` back from the engine's
own lemmas, and the rest is one case per action. From `CoreInv` follow
`CoreTypeOK`, `SoundStack`, `SpansOrdered` and `SoundVerdict` of the session
`runCore` drives (`ParseIsSound`), `ErrorNamesLastToken`, and the part
`AcceptedClean` of `OkMeansClean`, for which a returned `runCore` is shown to
do nothing more. The assumption on the source (`SourceAssumption`) is that its
tokens are values of the types the engine was given; the `runcore` runs evaluate
it.

### Walks

`TraverseProofs` is about a set of nodes that is `Whole`: each node has the
fields of its type, with children from the set. `WalkReadsSource` has TLC check
that the trees of the parser are. A visitor's own keys must be keys of the type
(`KeysFit`), which is what its TypeScript type asks. The invariant `WalkInv`
says that the frames are a path from the root, each one a child of the one
below with only children left to do (`OnPath`), and that the calls made so far,
with each leave cancelling its enter, leave exactly the entered nodes of that
path open (`OpenNodes`, a recursive function over the calls). The second is
needed since `CallsNest` speaks of all the calls, and a skip or a handler for
one type leaves nodes without a leave. `CallsNest` and the part `BreakIsLast` of
`VisitsInOrder` follow. `KeysAssumption` is about `VisitorKeys` and the table of
node types, and `ast` evaluates it.

### Tokens

`TokenizerProofs` proves `TokensTile` and `CursorLocated` for every source,
separator and set of flags. Neither is inductive: the next token is searched
from the cursor, and `TokensTile` does not say that this is where the last one
ended.

    StreamInv == StreamOK /\ InStep /\ TokensTile /\ CursorLocated

adds that in its `InStep`. Below this lie lemmas about the scanner: every branch
ends in the source and later than it starts (`ScanAdvances`), a NUL
excepted, where the stream stops. A loop of the scanner is a recursive function;
`ForwardLoops` gives that it exists and goes forward, from `LoopDefined` and
`LoopInduction` of `RecursionLemmas`. These are stated about sets and functions,
as the library's induction theorems take operators, which the provers cannot
instantiate.

`ScannerProofs` proves `TokenStandsAlone` and `CaseInsensitive`. Both come from
one simulation, `NextTokenMatch`, with a lemma for every branch of the scanner.
`Match(y, z, p, e, d, seps)` says that the text `y` from `p + d` reads like the
text `z` from `p`, up to the case of letters, and that after `e` it may also be
at its end. If `z` has a token from `p` to `e`, then `y` has the same one. The
point is the lookahead past `e`: a test that succeeds there in `y` succeeds in
`z`, but not the other way round, so each branch has to show that a failed
lookahead never makes a token longer or another. `TokenStandsAlone` takes for
`y` the text of the token (`d = -p`), `CaseInsensitive` the same source in the
other case (`d = 0`). The latter needs a separator that is not a letter: `e`
between digits would be an exponent in one case only. The option of `tokenize`
does not restrict the separator; the runs have `_`, as SQLite has.

Since the text of a token scans to it, what is said of every token need only be
proved of a text that scans to `T(type, Len(text))` (`TextFacts`). On that stand
three more theorems of `ScannerProofs`:

- `IllegalHintHolds`. The hint looks at one character, the token is illegal for
  what its loops found. For a quote, the loop over pairs passes the same pairs in
  the text with a quote after it and then ends at that quote (`QuoteCloses`); for
  a number, the token goes on after its number, so a shorter text of it is one
  (`IllegalNumber`).
- `DequoteInverts`. The loop of `nextToken` jumps from quote to quote,
  `sqlite3Dequote` goes character by character. `DoublingRestores` puts them side
  by side: wherever the loop still ends at the last character, doubling what
  `sqlite3Dequote` makes of the rest gives the rest. It needs that the loop ends
  before a character that is no quote (`QuoteEnd`), and gives with the pairs that
  it passes the parity of the quotes (`PairsAreEven`, `QuoteParity`). For blobs,
  that no keyword or other branch has their type (`BlobTypes`), that the digits
  are of an even number and each is one of sixteen in either case (`HexFacts`).
  `LoopBuilds` gives the function `sqlite3Dequote` computes.
- `CaretsUnderToken`. `renderCodeBlock` counts lines in two ways: `lineColAt` on
  from the span of the token, and `split` from the start of the source. Each is
  the line of `LineColAt`: the first because both pass the same line breaks
  (`BreaksShift`, `CountedOn`), the second because the line of an offset grows by
  one at each line break and nowhere else, so that every line has one end, the
  n-th that `split` finds (`LineEnds`, `NthEndFacts`). The offsets of a line are
  then an interval with columns from zero (`LineSpan`), and the carets of a line
  the part of it that the token covers (`CaretFacts`).

`InputsAssumption` says no more than what the arguments of `tokenize` are.

### Test scripts

`TestParserProofs` proves `TriviaInPlace`, `LinesAccountedFor` and
`Resynchronises` for every file and both calls. All speak of the state at the
return; the invariant says what holds of the lines above the position at every
step.

    InvariantOK == TypeOK /\ OrderOK /\ AttachedOK /\ BlanksOK /\ CoverageOK
                   /\ ResyncOK

- `OrderOK`: the lines of the records, then those that wait (conditions, then
  pending comments, or the open run of blank lines), then the position, are in
  this order and none is twice. It is needed by all that follows: a flush moves
  what waits behind the records, which is in order only if it was before.
- `AttachedOK`: from a pending comment to the position there are only comments
  and refused modifiers. This is what becomes of it: at a header it is attached
  to, and at a blank line or the end a record of its own.
- `BlanksOK`: the line before a run is not blank, and while no run is open
  neither is the line before the position; so a run that begins is a whole one.
- `CoverageOK`: a line above the position is in a record, waits, is a `----`, or
  is of a block with a diagnostic, and between a waiting comment or condition
  and the position there is no blank line. The last part is why a header that is
  refused may drop what waits: its diagnostic is in the same block. At the
  return nothing waits (`TypeOK` closes the run of blank lines).
- `ResyncOK`: the records are those of the well-formed headers above the
  position, and the diagnostics those of the modifiers, the malformed headers and
  the modifiers left without a record above it, but for the last modifier while
  it waits (`Undecided`: below it in its block there are only comments and
  refused modifiers). And the position is where a command may be, or a blank line
  that ended a body. So a step has to show that what it skips is no command:
  `IsCommand` is a recursive function over the lines above, whose equation
  (`LoopDefined`) carries along a body and along the block of a malformed header.

`HeaderRecord` is the step with the most to show: that a statement, a query and
a control record have each line of their head and body once, texts, comments and
results together, all of them but the `----`. The sequences of a record are
selected from the lines by `InOrder`, a concatenation, since the lemmas about
`FlattenSeq` in `RecursionLemmas` then say what they contain. `FilesAssumption`
says what the lines of a file are, and that `None` is none of the values it is
to differ from.

### Only model checked

- Liveness (`NextReturns`, `Returns`, `WalkEnds`, `BothReturn`): the prover does
  not handle fairness.
- What depends on the grammar and not only on the assumptions about the tables:
  `StatementsInOrder`, `CommitLag`, `TrailingRejected`, `TailSplitsSource`, the
  rest of `OkMeansClean`, `OpenedHereIsOpen`, `HintsAreTaken`, and all about the
  AST: `WellTyped`, `SpansNest`, `NothingLost`, `VtabArguments`,
  `WalkReadsSource`, `RefinesEngine`. A proof would have to go through 586
  states or 413 rules.
- `YieldsScript` of `ScriptWalk`, which adds up what those say of each call.
- The part `EntersInPreorder` of `VisitsInOrder`: it compares with a recursive
  operator over the tree, which the prover does not take.
- The part `KeywordsAsListed` of `WordsRead`: words are put together from
  characters with the concatenation of strings, of which the prover knows nothing.
- `SeparatorsVanish`: it is about `SelectSeq`, which the prover takes for an
  unknown function.
- `TriviaOnlyAdds` compares two calls, with positions in two lists of lines; an
  invariant would have to say where the first call was when it had read what the
  second has.

## Not modelled

- `scripts/` and `vendor/`: code generation, benchmarks, vendored Lemon and
  grammar, whose output is what is modelled.
- `bin/`, `src/cli/`: argument handling and I/O.
- `src/sqllogictest/ts-test-emitter.ts`, `drivers.ts`: text generation without
  state. Offsets and columns of test records: their lines decide everything.
- `parseOrThrow`, `parseStmtOrThrow`, `withOptions`: wrappers without state.
- The wording of messages, the gutter of code blocks, the cut-off of long lists,
  and `toSexpr`: layout.
- `sqlite3Atoi64`, `sqlite3DecOrHexToI64`, `sqlite3GetInt32` and `sqlite3AtoF`
  of `src/util.ts`: nothing in the program calls them.
- When the FILTER-before-OVER hint is right: it is modelled, but it guesses what
  the user meant, and the repository says nothing that could be checked.

## Plan

1. *Done:* engine, tables, driver; the engine's invariants proved.
2. *Done:* the reducer with its AST, and its refinement; nodes and traversal;
   tokenizer and keywords; hints and code blocks; the walk over a script; the
   test parser.
3. *Done:* `EngineContract`, so that the theorems about `Lempar` carry over to
   `RunCore`; its type invariant, `ErrorNamesLastToken`, `AcceptedClean`.
4. *Done:* `CallsNest` and `BreakIsLast`, for every tree and visitor.
5. *Done:* tiling, positions, independence of context and case, for every source.
6. *Done:* `StackYieldsInput` and `TakesTokens` for every table.
7. *Done:* where the lines of a test script go, and which commands are answered
   by a record or a diagnostic, for every file.
8. *Done:* `IllegalHintHolds`, `DequoteInverts` and `CaretsUnderToken`, for every
   source.
