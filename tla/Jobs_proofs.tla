---------------------------- MODULE Jobs_proofs ----------------------------
(***************************************************************************)
(* Theorems about Jobs for every category file, environment, source and    *)
(* answer of the inference service.                                        *)
(***************************************************************************)
EXTENDS Jobs, FiniteSetTheorems, TLAPS

\* The number of examples in a block is a number.
LEMMA ExamplesType ==
    ASSUME NEW body \in Seq(Others)
    PROVE  Examples(body) \in Nat
  <1>1. IsFiniteSet(1 .. Len(body))
    BY FS_Interval
  <1>2. {k \in DOMAIN body : body[k] = "bullet"} \subseteq 1 .. Len(body)
    OBVIOUS
  <1> QED  BY <1>1, <1>2, FS_Subset, FS_CardinalityType DEF Examples

\* As is the number of lines of its description.
LEMMA ProseType ==
    ASSUME NEW body \in Seq(Others)
    PROVE  Prose(body) \in Nat
  <1>1. IsFiniteSet(1 .. Len(body))
    BY FS_Interval
  <1> DEFINE Described == {k \in DOMAIN body :
                 body[k] = "text" /\ \A j \in 1 .. k : body[j] # "bullet"}
  <1>2. Described \subseteq 1 .. Len(body)
    OBVIOUS
  <1>3. Cardinality(Described) \in Nat
    BY <1>1, <1>2, FS_Subset, FS_CardinalityType
  <1> QED  BY <1>3 DEF Prose

\* The places of the members of a set of indices, and what a last member adds.
LEMMA Places ==
    ASSUME NEW n \in Nat, NEW A \in SUBSET (1 .. n)
    PROVE  /\ Cardinality(A) \in Nat
           /\ Cardinality(A \cup {n + 1}) = Cardinality(A) + 1
           /\ \A k \in A :
                 /\ Cardinality({j \in A : j <= k}) \in 1 .. Cardinality(A)
                 /\ {j \in A \cup {n + 1} : j <= k} = {j \in A : j <= k}
           /\ {j \in A \cup {n + 1} : j <= n + 1} = A \cup {n + 1}
  <1>1. IsFiniteSet(A) /\ Cardinality(A) \in Nat
    <2>1. IsFiniteSet(1 .. n)
      BY FS_Interval
    <2> QED  BY <2>1, FS_Subset, FS_CardinalityType
  <1>2. Cardinality(A \cup {n + 1}) = Cardinality(A) + 1
    <2>1. n + 1 \notin A
      OBVIOUS
    <2> QED  BY <1>1, <2>1, FS_AddElement
  <1>3. ASSUME NEW k \in A
        PROVE  /\ Cardinality({j \in A : j <= k}) \in 1 .. Cardinality(A)
               /\ {j \in A \cup {n + 1} : j <= k} = {j \in A : j <= k}
    <2> DEFINE B == {j \in A : j <= k}
    <2>1. IsFiniteSet(B) /\ Cardinality(B) <= Cardinality(A) /\ Cardinality(B) \in Nat
      BY <1>1, FS_Subset, FS_CardinalityType
    <2>2. B # {}
      OBVIOUS
    <2>3. Cardinality(B) # 0
      BY <2>1, <2>2, FS_EmptySet
    <2> QED  BY <1>1, <2>1, <2>3
  <1>4. {j \in A \cup {n + 1} : j <= n + 1} = A \cup {n + 1}
    <2>1. \A j \in A \cup {n + 1} : j <= n + 1
      OBVIOUS
    <2> QED  BY <2>1, Zenon
  <1> QED  BY <1>1, <1>2, <1>3, <1>4

----------------------------------------------------------------------------
(***************************************************************************)
(* The categories                                                          *)
(***************************************************************************)

\* What the loop over the blocks has made sure of so far: the names built are in
\* the set of names seen, no two of them are alike, and none is the reserved one.
BuiltInv ==
    /\ parse.pc = "parsed" => parse.built # <<>>
    /\ \A k \in DOMAIN parse.built :
          /\ Lower[parse.built[k].name] \in parse.seen
          /\ Lower[parse.built[k].name] # Unknown
          /\ parse.built[k].examples > 0
    /\ \A j, k \in DOMAIN parse.built :
          Lower[parse.built[j].name] = Lower[parse.built[k].name] => j = k

FileType == file \in Seq(Lines)

ParseInv == FileType /\ ParseTypeOK /\ BuiltInv

\* A block that takes a line is a block (_split_into_blocks).
LEMMA BlockTakesLine ==
    ASSUME NEW b \in Block, NEW line \in Others
    PROVE  [b EXCEPT !.body = Append(@, line)] \in Block
  <1>1. b.name \in Names /\ b.body \in Seq(Others)
    BY DEF Block
  <1>2. Append(b.body, line) \in Seq(Others)
    BY <1>1
  <1>3. [b EXCEPT !.body = Append(@, line)] =
            [name |-> b.name, body |-> Append(b.body, line)]
    BY DEF Block
  <1> QED  BY <1>1, <1>2, <1>3 DEF Block

\* What the parser changes of its state.
LEMMA ParseChanges ==
    ASSUME ParseTypeOK, NEW blocks \in Seq(Block), NEW seen \in SUBSET Names,
           NEW built \in Seq(Category),
           parse' = [pc |-> parse.pc, at |-> parse.at + 1, blocks |-> blocks,
                     seen |-> seen, built |-> built]
    PROVE  ParseTypeOK'
  <1>1. parse.pc \in {"split", "build", "parsed", "refused"} /\ parse.at \in Nat
    BY DEF ParseTypeOK
  <1>2. parse.at + 1 \in Nat
    BY <1>1
  <1> QED  BY <1>1, <1>2 DEF ParseTypeOK

\* Splitting a line keeps the types of the blocks (_split_into_blocks).
LEMMA SplitKeeps ==
    ASSUME ParseInv, SplitLine
    PROVE  ParseInv'
  <1> DEFINE line == file[parse.at + 1]
  <1> USE CategoryAssumption
  <1>1. line \in Lines
    BY DEF ParseInv, FileType, ParseTypeOK, SplitLine
  <1>2. CASE line = "malformed"
    BY <1>2 DEF ParseInv, FileType, ParseTypeOK, SplitLine, Refuse, BuiltInv
  <1>3. CASE line # "malformed"
    <2>1. AddBlock(line) \in Seq(Block) \/ line \notin Names
      BY DEF AddBlock, ParseInv, ParseTypeOK, Block
    <2>2. ASSUME line \notin Names
          PROVE  Extended(line) \in Seq(Block)
      <3>1. line \in Others
        BY <1>1, <2>2 DEF Lines
      <3>2. CASE parse.blocks = <<>>
        BY <3>2 DEF Extended
      <3>3. CASE parse.blocks # <<>>
        <4> DEFINE last == Len(parse.blocks)
        <4>1. last \in DOMAIN parse.blocks /\ parse.blocks \in Seq(Block)
          BY <3>3 DEF ParseInv, ParseTypeOK
        <4>2. parse.blocks[last] \in Block
          BY <4>1
        <4>3. [parse.blocks[last] EXCEPT !.body = Append(@, line)] \in Block
          BY <4>2, <3>1, BlockTakesLine
        <4> QED  BY <3>3, <4>1, <4>3 DEF Extended
      <3> QED  BY <3>2, <3>3
    <2>3. parse' = [parse EXCEPT !.at = @ + 1,
              !.blocks = IF line \in Names THEN AddBlock(line) ELSE Extended(line)]
      BY <1>3 DEF SplitLine
    <2>4. parse'.blocks \in Seq(Block)
      BY <2>1, <2>2, <2>3 DEF ParseInv, ParseTypeOK
    <2> HIDE DEF line
    <2>5. ParseTypeOK'
      <3> DEFINE blocks == IF line \in Names THEN AddBlock(line) ELSE Extended(line)
      <3>1. blocks \in Seq(Block)
        BY <2>1, <2>2
      <3> HIDE DEF blocks
      <3>2. parse' = [parse EXCEPT !.at = @ + 1, !.blocks = blocks]
        BY <2>3 DEF blocks
      <3>3. /\ ParseTypeOK
            /\ parse.seen \in SUBSET Names /\ parse.built \in Seq(Category)
        BY DEF ParseInv, ParseTypeOK
      <3>4. parse' = [pc |-> parse.pc, at |-> parse.at + 1, blocks |-> blocks,
                      seen |-> parse.seen, built |-> parse.built]
        BY <3>2, <3>3 DEF ParseTypeOK
      <3> QED  BY <3>1, <3>3, <3>4, ParseChanges
    <2>6. /\ parse'.pc = parse.pc /\ parse'.seen = parse.seen
          /\ parse'.built = parse.built
      BY <2>3 DEF ParseInv, ParseTypeOK
    <2>7. BuiltInv'
      BY <2>6 DEF ParseInv, BuiltInv
    <2>8. FileType'
      BY DEF ParseInv, FileType, SplitLine
    <2> QED  BY <2>5, <2>7, <2>8 DEF ParseInv
  <1> QED  BY <1>2, <1>3

\* Building a block adds a category of a new name with an example, or none
\* (parse_categories).
LEMMA BuildKeeps ==
    ASSUME ParseInv, BuildBlock
    PROVE  ParseInv'
  <1> DEFINE block   == parse.blocks[parse.at + 1]
             lowered == Lower[block.name]
  <1> USE CategoryAssumption
  <1>1. block \in Block /\ lowered \in Names
    <2>1. parse.blocks \in Seq(Block) /\ parse.at + 1 \in 1 .. Len(parse.blocks)
      BY DEF ParseInv, ParseTypeOK, BuildBlock
    <2>2. block \in Block
      BY <2>1
    <2> QED  BY <2>2 DEF Block
  <1>2. CASE lowered = Unknown
    BY <1>2 DEF ParseInv, FileType, ParseTypeOK, BuiltInv, BuildBlock
  <1>3. CASE lowered # Unknown /\ (lowered \in parse.seen \/ Examples(block.body) = 0)
    BY <1>3 DEF ParseInv, FileType, ParseTypeOK, BuiltInv, BuildBlock, Refuse
  <1>4. CASE lowered # Unknown /\ lowered \notin parse.seen /\ Examples(block.body) # 0
    <2>1. parse' = [parse EXCEPT !.at = @ + 1, !.seen = @ \cup {lowered},
                        !.built = Append(@, Built(block))]
      BY <1>4 DEF BuildBlock
    <2>2. Examples(block.body) \in Nat /\ Prose(block.body) \in Nat
      BY <1>1, ExamplesType, ProseType DEF Block
    <2>3. /\ Built(block) \in Category
          /\ Built(block).name = block.name
          /\ Built(block).examples > 0
      BY <1>1, <1>4, <2>2 DEF Built, Category, Block
    <2>4. parse.built \in Seq(Category)
      BY DEF ParseInv, ParseTypeOK
    <2> DEFINE old == Len(parse.built)
    <2>5. /\ parse'.built = Append(parse.built, Built(block))
          /\ parse'.seen = parse.seen \cup {lowered}
          /\ parse'.pc = parse.pc /\ parse.pc = "build"
      BY <2>1 DEF ParseInv, ParseTypeOK, BuildBlock
    <2>6. /\ DOMAIN parse'.built = 1 .. old + 1
          /\ \A k \in 1 .. old : parse'.built[k] = parse.built[k]
          /\ parse'.built[old + 1] = Built(block)
      BY <2>3, <2>4, <2>5
    <2>7. ParseTypeOK'
      <3> DEFINE seen == parse.seen \cup {lowered}
                 built == Append(parse.built, Built(block))
      <3>1. seen \in SUBSET Names /\ built \in Seq(Category)
        BY <1>1, <2>3 DEF ParseInv, ParseTypeOK
      <3> HIDE DEF seen, built
      <3>2. parse' = [parse EXCEPT !.at = @ + 1, !.seen = seen, !.built = built]
        BY <2>1 DEF seen, built
      <3>3. ParseTypeOK /\ parse.blocks \in Seq(Block)
        BY DEF ParseInv, ParseTypeOK
      <3>4. parse' = [pc |-> parse.pc, at |-> parse.at + 1, blocks |-> parse.blocks,
                      seen |-> seen, built |-> built]
        BY <3>2, <3>3 DEF ParseTypeOK
      <3> QED  BY <3>1, <3>3, <3>4, ParseChanges
    <2>8. BuiltInv'
      <3>1. \A k \in 1 .. old : Lower[parse.built[k].name] # lowered
        BY <1>4, <2>4 DEF ParseInv, BuiltInv
      <3> HIDE DEF lowered
      <3>4. old \in Nat /\ DOMAIN parse.built = 1 .. old
        BY <2>4
      <3>5. Lower[parse'.built[old + 1].name] = lowered
        BY <2>3, <2>6 DEF lowered
      <3>2. ASSUME NEW j \in 1 .. old + 1, NEW k \in 1 .. old + 1,
                   Lower[parse'.built[j].name] = Lower[parse'.built[k].name]
            PROVE  j = k
        <4> HIDE DEF old
        <4>1. CASE j = old + 1 /\ k = old + 1
          BY <4>1
        <4>2. CASE j # old + 1 /\ k # old + 1
          <5>1. j \in 1 .. old /\ k \in 1 .. old
            BY <4>2, <3>4
          <5>2. Lower[parse.built[j].name] = Lower[parse.built[k].name]
            BY <5>1, <3>2, <2>6
          <5> QED  BY <5>1, <5>2, <3>4 DEF ParseInv, BuiltInv
        <4>3. CASE j = old + 1 /\ k # old + 1
          <5>1. k \in 1 .. old
            BY <4>3, <3>4
          <5> QED  BY <5>1, <4>3, <3>1, <3>2, <3>5, <2>6
        <4>4. CASE j # old + 1 /\ k = old + 1
          <5>1. j \in 1 .. old
            BY <4>4, <3>4
          <5> QED  BY <5>1, <4>4, <3>1, <3>2, <3>5, <2>6
        <4> QED  BY <4>1, <4>2, <4>3, <4>4
      <3>3. ASSUME NEW k \in 1 .. old + 1
            PROVE  /\ Lower[parse'.built[k].name] \in parse'.seen
                   /\ Lower[parse'.built[k].name] # Unknown
                   /\ parse'.built[k].examples > 0
        <4>1. CASE k = old + 1
          <5>1. parse'.built[k] = Built(block) /\ lowered \in parse'.seen
            BY <4>1, <2>5, <2>6
          <5> QED  BY <5>1, <4>1, <3>5, <1>4, <2>3
        <4>2. CASE k # old + 1
          <5>1. k \in 1 .. old
            BY <4>2, <3>4
          <5> HIDE DEF old
          <5>2. parse'.built[k] = parse.built[k]
            BY <5>1, <2>6
          <5> QED  BY <5>1, <5>2, <3>4, <2>5 DEF ParseInv, BuiltInv
        <4> QED  BY <4>1, <4>2
      <3> QED  BY <3>2, <3>3, <2>5, <2>6 DEF BuiltInv
    <2> QED  BY <2>7, <2>8 DEF ParseInv, FileType, BuildBlock
  <1> QED  BY <1>2, <1>3, <1>4

\* What the parser goes through is the only thing that changes its state, and a
\* new run starts it afresh.
LEMMA ParseCases ==
    ASSUME [Next]_vars
    PROVE  \/ SplitLine \/ EndSplit \/ BuildBlock \/ EndBuild
           \/ parse' = NoParse /\ UNCHANGED file
           \/ UNCHANGED <<file, parse>>
  BY DEF Next, vars, LoadSettings, NeedCategoryFile, ReadFails, Categories,
         CategoriesDone, BuildClassifier, BindSource, BuildClients, SourceMissing,
         ListDocuments, ClassifyDocument, EndDocuments, OpenFails, OpenOutput,
         WriteRows, WriteStops, Killed, RunAgain, GoOn, ParseStep

\* The parse that has not begun satisfies the invariant.
LEMMA NoParseInv == ASSUME FileType', parse' = NoParse PROVE ParseInv'
  BY DEF ParseInv, FileType, ParseTypeOK, BuiltInv, NoParse

\* The inductive invariant of the parser, for every category file.
THEOREM ParserInvariant == Spec => []ParseInv
  <1>1. Init => ParseInv
    BY JobsAssumption
    DEF Init, ParseInv, FileType, ParseTypeOK, BuiltInv, NoParse
  <1>2. ParseInv /\ [Next]_vars => ParseInv'
    <2> SUFFICES ASSUME ParseInv, [Next]_vars PROVE ParseInv'
      OBVIOUS
    <2>1. CASE SplitLine
      BY <2>1, SplitKeeps
    <2>2. CASE EndSplit
      BY <2>2 DEF EndSplit, ParseInv, FileType, ParseTypeOK, BuiltInv
    <2>3. CASE BuildBlock
      BY <2>3, BuildKeeps
    <2>4. CASE EndBuild
      BY <2>4 DEF EndBuild, ParseInv, FileType, ParseTypeOK, BuiltInv
    <2>5. CASE parse' = NoParse /\ UNCHANGED file
      BY <2>5, NoParseInv DEF ParseInv, FileType
    <2>6. CASE UNCHANGED <<file, parse>>
      BY <2>6 DEF ParseInv, FileType, ParseTypeOK, BuiltInv
    <2> QED  BY <2>1, <2>2, <2>3, <2>4, <2>5, <2>6, ParseCases
  <1> QED  BY <1>1, <1>2, PTL DEF Spec

\* The parser's state has its type at every line and block (_split_into_blocks,
\* parse_categories).
THEOREM ParseTypeCorrect == Spec => []ParseTypeOK
  <1>1. ParseInv => ParseTypeOK
    BY DEF ParseInv
  <1> QED  BY <1>1, ParserInvariant, PTL

\* Whatever the category file, a program only ever works with categories that are
\* distinct but for case, are not the reserved one and have an example
\* (parse_categories, _build_category).
THEOREM CategoriesSound == Spec => []CategoriesAreSound
  <1>1. ParseInv => CategoriesAreSound
    BY DEF ParseInv, BuiltInv, CategoriesAreSound
  <1> QED  BY <1>1, ParserInvariant, PTL

----------------------------------------------------------------------------
(***************************************************************************)
(* The output                                                              *)
(***************************************************************************)

\* Where the run is implies what it has done: the categories are parsed before the
\* documents are listed, all documents are gone through before the output is opened,
\* and the output is as it was until then.
OrderInv ==
    /\ pc \in {"classifier", "source", "clients", "list", "documents", "write",
               "rows", "work"} =>
          parse.pc = "parsed" \/ input.program = "walker"
    /\ pc \in {"classifier", "list", "documents", "write", "rows"} =>
          parse.pc = "parsed"
    /\ pc \in {"write", "rows"} => Len(answers) = Len(listing)
    /\ output # before =>
          /\ pc \in {"rows", "exit0", "exit1", "raised", "killed"}
          /\ parse.pc = "parsed" /\ Len(answers) = Len(listing)

\* Every program is one of the three.
ProgramOK == input.program \in Programs

\* The order of the stages, for every run.
THEOREM OrderInvariant == Spec => [](OrderInv /\ ProgramOK)
  <1>1. Init => OrderInv /\ ProgramOK
    BY JobsAssumption DEF Init, OrderInv, ProgramOK, NoOutput
  <1>2. OrderInv /\ ProgramOK /\ [Next]_vars => (OrderInv /\ ProgramOK)'
    <2> SUFFICES ASSUME OrderInv, ProgramOK, [Next]_vars
                 PROVE  (OrderInv /\ ProgramOK)'
      OBVIOUS
    <2> USE DEF OrderInv, ProgramOK, Programs, GoOn, batchVars
    <2>1. CASE LoadSettings  BY <2>1 DEF LoadSettings
    <2>2. CASE NeedCategoryFile  BY <2>2 DEF NeedCategoryFile
    <2>3. CASE ReadFails  BY <2>3 DEF ReadFails
    <2>4. CASE Categories  BY <2>4 DEF Categories
    <2>5. CASE CategoriesDone  BY <2>5 DEF CategoriesDone
    <2>6. CASE BuildClassifier  BY <2>6 DEF BuildClassifier
    <2>7. CASE BindSource  BY <2>7 DEF BindSource
    <2>8. CASE BuildClients  BY <2>8 DEF BuildClients
    <2>9. CASE SourceMissing  BY <2>9 DEF SourceMissing
    <2>10. CASE ListDocuments  BY <2>10 DEF ListDocuments
    <2>11. CASE ClassifyDocument  BY <2>11 DEF ClassifyDocument
    <2>12. CASE EndDocuments  BY <2>12 DEF EndDocuments
    <2>13. CASE OpenFails  BY <2>13 DEF OpenFails
    <2>14. CASE OpenOutput  BY <2>14 DEF OpenOutput
    <2>15. CASE WriteRows  BY <2>15 DEF WriteRows
    <2>16. CASE WriteStops  BY <2>16 DEF WriteStops
    <2>17. CASE Killed  BY <2>17 DEF Killed, Ended
    <2>18. CASE RunAgain  BY <2>18 DEF RunAgain
    <2>19. CASE UNCHANGED vars  BY <2>19 DEF vars
    <2> QED
      BY <2>1, <2>2, <2>3, <2>4, <2>5, <2>6, <2>7, <2>8, <2>9, <2>10, <2>11, <2>12,
         <2>13, <2>14, <2>15, <2>16, <2>17, <2>18, <2>19 DEF Next
  <1> QED  BY <1>1, <1>2, PTL DEF Spec

\* Whatever fails, an earlier output is only lost to a run that got through all of
\* its documents (main.run, write_results_csv).
THEOREM OldOutputKept == Spec => []OldOutputIsKept
  <1>1. OrderInv => OldOutputIsKept
    BY DEF OrderInv, OldOutputIsKept
  <1> QED  BY <1>1, OrderInvariant, PTL

----------------------------------------------------------------------------
(***************************************************************************)
(* The rows                                                                *)
(***************************************************************************)

\* A row of the output, by its types.
Row == [filename : DOMAIN Suffix, label : Labels]

BatchType ==
    /\ input \in Inputs
    /\ listing \in Seq(DOMAIN Suffix) /\ answers \in Seq(Answers)
    /\ results \in Seq(Row)
    /\ output \in [rows : Seq(Row), whole : BOOLEAN, exists : BOOLEAN]

\* The stages at which no document has been asked about.
Early == {"settings", "needs", "categories", "classifier", "source", "clients", "list"}

\* The rows collected are those of the answered documents, each in its place.
Collected ==
    /\ Len(results) = Cardinality(Answered)
    /\ \A k \in Answered : results[PlaceOf(k)] = RowOf(k)

\* What this run has written is the beginning of what it has collected.
Written ==
    output # before =>
        /\ Len(output.rows) <= Len(results)
        /\ \A i \in 1 .. Len(output.rows) : output.rows[i] = results[i]

\* The inductive invariant of the batch command.
BatchInv ==
    /\ BatchType
    /\ \A k \in DOMAIN listing : listing[k] \in {f \in DOMAIN Suffix : Supported(f)}
    /\ pc \in Early => answers = <<>> /\ results = <<>>
    /\ Collected /\ Written
    /\ pc = "exit0" => output.whole /\ Len(output.rows) = Len(results)

\* The answer space is drawn from the names (CategorySet.enum_values).
LEMMA EnumType ==
    ASSUME ParseTypeOK
    PROVE  EnumValues \subseteq Names
  <1>1. parse.built \in Seq(Category)
    BY DEF ParseTypeOK
  <1>2. \A k \in DOMAIN parse.built : parse.built[k] \in Category
    BY <1>1
  <1>3. \A k \in DOMAIN parse.built : parse.built[k].name \in Names
    BY <1>2 DEF Category
  <1> QED  BY <1>3, CategoryAssumption DEF EnumValues

\* What makes an answer one that can be believed.
Believed(a) ==
    /\ a.read /\ a.length <= MaxInputChars
    /\ a.response.choice \in EnumValues
    /\ Valid(a.response.probability)

\* An answer is classified exactly when it was read, is short enough and can be
\* believed, and then as what it says (Jev.classify).
LEMMA ClassifiedWhen ==
    ASSUME ParseTypeOK, NEW a \in Answers
    PROVE  /\ Believed(a) => /\ Classified(a) \in Labels
                             /\ Classified(a) = [category |-> a.response.choice,
                                                 confidence |-> a.response.probability]
                             /\ Classified(a) # ClassificationError
           /\ ~Believed(a) => Classified(a) = ClassificationError
  <1>1. Lengths \subseteq Nat /\ MaxInputChars \in Nat
    BY JobsAssumption, JevAssumption
  <1>2. a.length \in Nat
    <2>1. CASE a = Unread
      BY <2>1 DEF Unread
    <2>2. CASE a \in [length : Lengths, response : Responses, read : {TRUE}]
      BY <1>1, <2>2
    <2> QED  BY <2>1, <2>2 DEF Answers
  <1>3. ~Valid(Failure.probability)
    BY JevAssumption DEF Valid, Failure
  <1>4. ~(a.length > MaxInputChars) <=> a.length <= MaxInputChars
    BY <1>1, <1>2
  <1>5. ClassificationError \notin Labels
    BY JobsAssumption
  <1>6. ASSUME Believed(a)
        PROVE  /\ Classified(a) \in Labels
               /\ Classified(a) = [category |-> a.response.choice,
                                   confidence |-> a.response.probability]
    <2>1. a.response # Failure
      BY <1>3, <1>6 DEF Believed
    <2>2. Classified(a) = [category |-> a.response.choice,
                           confidence |-> a.response.probability]
      BY <1>4, <1>6, <2>1 DEF Believed, Classified, Classify
    <2>3. a.response.choice \in Names
      BY <1>6, EnumType DEF Believed
    <2> QED  BY <1>6, <2>2, <2>3 DEF Believed, Valid, Labels
  <1>7. ASSUME ~Believed(a)
        PROVE  Classified(a) = ClassificationError
    BY <1>4, <1>7 DEF Believed, Classified, Classify
  <1> QED  BY <1>5, <1>6, <1>7

\* The indices answered are indices of the answers.
LEMMA AnsweredType ==
    ASSUME BatchType
    PROVE  Len(answers) \in Nat /\ Answered \in SUBSET (1 .. Len(answers))
  BY DEF BatchType, Answered

\* The places of the answered documents are those of the rows.
LEMMA PlaceType ==
    ASSUME BatchType, Collected
    PROVE  \A k \in Answered : PlaceOf(k) \in 1 .. Len(results)
  BY AnsweredType, Places DEF Collected, PlaceOf

\* What the step of one document does to the rows (classify_documents).
LEMMA CollectStep ==
    ASSUME BatchInv, ParseTypeOK, ClassifyDocument
    PROVE  BatchType' /\ Collected'
  <1> DEFINE n == Len(answers)
  <1>1. /\ n \in Nat /\ Answered \in SUBSET (1 .. n)
        /\ answers \in Seq(Answers) /\ results \in Seq(Row)
        /\ listing \in Seq(DOMAIN Suffix)
        /\ Len(results) = Cardinality(Answered) /\ Len(results) \in Nat
    BY AnsweredType DEF BatchInv, BatchType, Collected
  <1>2. PICK a \in Answers :
          /\ answers' = Append(answers, a)
          /\ results' =
                IF Classified(a) = ClassificationError THEN results
                ELSE Append(results, [filename |-> listing[Len(answers) + 1],
                                      label |-> Classified(a)])
    BY DEF ClassifyDocument
  <1> DEFINE row == [filename |-> listing[n + 1], label |-> Classified(a)]
  <1>3. n < Len(listing) /\ UNCHANGED <<file, parse, input, listing, output>>
    BY DEF ClassifyDocument
  <1>4. /\ answers' \in Seq(Answers) /\ DOMAIN answers' = 1 .. n + 1
        /\ \A k \in 1 .. n : answers'[k] = answers[k]
        /\ answers'[n + 1] = a
    BY <1>1, <1>2
  <1>5. EnumValues' = EnumValues
    BY <1>3 DEF EnumValues
  <1>6. /\ \A k \in Answered :
              /\ PlaceOf(k) \in 1 .. Len(results)
              /\ {j \in Answered \cup {n + 1} : j <= k} = {j \in Answered : j <= k}
        /\ {j \in Answered \cup {n + 1} : j <= n + 1} = Answered \cup {n + 1}
        /\ Cardinality(Answered \cup {n + 1}) = Len(results) + 1
    BY <1>1, Places DEF PlaceOf
  <1>7. \A k \in Answered : RowOf(k)' = RowOf(k)
    BY <1>1, <1>3, <1>4 DEF RowOf
  <1> HIDE DEF n
  <1>8. CASE Believed(a)
    <2>1. /\ Classified(a) \in Labels /\ Classified(a) # ClassificationError
          /\ Classified(a) = [category |-> a.response.choice,
                              confidence |-> a.response.probability]
      BY <1>8, ClassifiedWhen
    <2>2. row \in Row
      BY <1>1, <1>3, <2>1 DEF Row, n
    <2>3. results' = Append(results, row)
      BY <1>2, <2>1 DEF n
    <2>4. Answered' = Answered \cup {n + 1}
      <3>1. \A k \in 1 .. n : k \in Answered' <=> k \in Answered
        BY <1>4, <1>5 DEF Answered, n
      <3>2. n + 1 \in Answered'
        BY <1>1, <1>4, <1>5, <1>8 DEF Answered, Believed
      <3>3. Answered' \subseteq 1 .. n + 1
        BY <1>4 DEF Answered
      <3>4. Answered' \subseteq Answered \cup {n + 1}
        BY <1>1, <3>1, <3>3
      <3>5. Answered \cup {n + 1} \subseteq Answered'
        BY <1>1, <3>1, <3>2
      <3> QED  BY <3>4, <3>5
    <2>5. /\ results' \in Seq(Row) /\ Len(results') = Len(results) + 1
          /\ results'[Len(results) + 1] = row
          /\ \A i \in 1 .. Len(results) : results'[i] = results[i]
      BY <1>1, <2>2, <2>3
    <2>6. ASSUME NEW k \in Answered'
          PROVE  (results[PlaceOf(k)] = RowOf(k))'
      <3>1. CASE k \in Answered
        <4>1. PlaceOf(k)' = PlaceOf(k)
          BY <1>6, <2>4, <3>1 DEF PlaceOf
        <4>2. results[PlaceOf(k)] = RowOf(k)
          BY <3>1 DEF BatchInv, Collected
        <4> QED  BY <1>6, <1>7, <2>5, <3>1, <4>1, <4>2
      <3>2. CASE k = n + 1
        <4>1. PlaceOf(k)' = Len(results) + 1
          BY <1>6, <2>4, <3>2 DEF PlaceOf
        <4>2. RowOf(k)' = row
          BY <1>3, <1>4, <2>1, <3>2 DEF RowOf
        <4> QED  BY <2>5, <4>1, <4>2
      <3> QED  BY <2>4, <2>6, <3>1, <3>2
    <2>7. (Len(results) = Cardinality(Answered))'
      BY <1>6, <2>4, <2>5
    <2> QED  BY <1>3, <1>4, <2>5, <2>6, <2>7 DEF BatchInv, BatchType, Collected
  <1>9. CASE ~Believed(a)
    <2>1. results' = results
      BY <1>2, <1>9, ClassifiedWhen
    <2>2. Answered' = Answered
      <3>1. \A k \in 1 .. n : k \in Answered' <=> k \in Answered
        BY <1>4, <1>5 DEF Answered, n
      <3>2. n + 1 \notin Answered'
        BY <1>1, <1>4, <1>5, <1>9 DEF Answered, Believed
      <3>3. Answered' \subseteq 1 .. n + 1
        BY <1>4 DEF Answered
      <3>4. Answered' \subseteq Answered
        BY <1>1, <3>1, <3>2, <3>3
      <3>5. Answered \subseteq Answered'
        BY <1>1, <3>1
      <3> QED  BY <3>4, <3>5
    <2>3. \A k \in Answered : PlaceOf(k)' = PlaceOf(k)
      BY <2>2 DEF PlaceOf
    <2> QED
      BY <1>3, <1>4, <1>7, <2>1, <2>2, <2>3 DEF BatchInv, BatchType, Collected
  <1> QED  BY <1>8, <1>9

\* Nothing has been answered before the first document.
LEMMA NothingAnswered ==
    ASSUME answers = <<>>
    PROVE  Answered = {} /\ Cardinality(Answered) = 0
  <1>1. Answered = {}
    BY DEF Answered
  <1> QED  BY <1>1, FS_EmptySet

\* A step that leaves the batch alone leaves its invariant.
LEMMA BatchStays ==
    ASSUME BatchInv, UNCHANGED <<parse, input, batchVars, before>>,
           pc' \in Early => pc \in Early, pc' = "exit0" => pc = "exit0"
    PROVE  BatchInv'
  <1>1. Answered' = Answered
    BY DEF batchVars, Answered, EnumValues
  <1>2. Collected'
    BY <1>1 DEF BatchInv, Collected, batchVars, PlaceOf, RowOf
  <1> QED  BY <1>2 DEF BatchInv, BatchType, Written, batchVars

\* A step after which no document has been asked about leaves nothing collected.
LEMMA NothingCollected ==
    ASSUME answers' = <<>>, results' = <<>>
    PROVE  Collected'
  <1>1. Answered' = {}
    BY DEF Answered
  <1> QED  BY <1>1, FS_EmptySet DEF Collected

\* The documents listed are files of the source that have an extractor
\* (LocalFileSystemSource.documents).
LEMMA ListKeeps ==
    ASSUME BatchInv, OrderInv, ListDocuments
    PROVE  BatchInv'
  <1> PICK present \in SUBSET (input.files \ {OutputFile}) :
        LET all == present \cup (IF output.exists THEN {OutputFile} \cap input.files
                                 ELSE {}) IN
        listing' \in Sorted({f \in all : Supported(f)})
    BY DEF ListDocuments
  <1> DEFINE all == present \cup (IF output.exists THEN {OutputFile} \cap input.files
                                  ELSE {})
             docs == {f \in all : Supported(f)}
  <1>1. input.files \subseteq DOMAIN Suffix /\ IsFiniteSet(input.files)
    BY JobsAssumption DEF BatchInv, BatchType
  <1>2. docs \subseteq input.files
    OBVIOUS
  <1>3. Cardinality(docs) \in Nat
    BY <1>1, <1>2, FS_Subset, FS_CardinalityType
  <1>4. \A f \in docs : f \in DOMAIN Suffix /\ Supported(f)
    BY <1>1, <1>2
  <1>5. listing' \in [1 .. Cardinality(docs) -> docs]
    BY DEF Sorted
  <1> HIDE DEF docs
  <1>6. listing' \in Seq(DOMAIN Suffix)
    BY <1>3, <1>4, <1>5
  <1>7. \A k \in DOMAIN listing' :
            listing'[k] \in {f \in DOMAIN Suffix : Supported(f)}
    BY <1>4, <1>5
  <1>8. /\ UNCHANGED <<input, results, answers, output, before>>
        /\ pc = "list" /\ pc' = "documents"
    BY DEF ListDocuments
  <1>9. answers = <<>> /\ results = <<>> /\ output = before
    BY <1>8 DEF BatchInv, OrderInv, Early
  <1>10. Collected'
    <2>1. answers' = <<>> /\ results' = <<>>
      BY <1>8, <1>9
    <2> QED  BY <2>1, NothingCollected
  <1>11. BatchType'
    BY <1>6, <1>8 DEF BatchInv, BatchType
  <1> QED
    BY <1>7, <1>8, <1>9, <1>10, <1>11 DEF BatchInv, Written, Early, Supported

\* What is written is what was collected, or its beginning (write_results_csv).
LEMMA WriteKeeps ==
    ASSUME BatchInv, OpenOutput \/ WriteRows \/ WriteStops
    PROVE  BatchInv'
  <1>1. /\ UNCHANGED <<parse, input, listing, results, answers, before>>
        /\ pc' \notin Early
    BY DEF OpenOutput, WriteRows, WriteStops, Early
  <1>2. Collected'
    <2>1. Answered' = Answered
      BY <1>1 DEF Answered, EnumValues
    <2> QED  BY <1>1, <2>1 DEF BatchInv, Collected, PlaceOf, RowOf
  <1>3. /\ results \in Seq(Row) /\ Len(results) \in Nat
        /\ output \in [rows : Seq(Row), whole : BOOLEAN, exists : BOOLEAN]
    BY DEF BatchInv, BatchType
  <1>4. /\ output' \in [rows : Seq(Row), whole : BOOLEAN, exists : BOOLEAN]
        /\ Len(output'.rows) <= Len(results)
        /\ \A i \in 1 .. Len(output'.rows) : output'.rows[i] = results[i]
        /\ pc' = "exit0" => output'.whole /\ Len(output'.rows) = Len(results)
    <2>1. CASE OpenOutput
      BY <1>3, <2>1 DEF OpenOutput
    <2>2. CASE WriteRows
      <3>1. output' = [rows |-> results, whole |-> TRUE, exists |-> output.exists]
        BY <1>3, <2>2 DEF WriteRows
      <3> QED  BY <1>3, <3>1
    <2>3. CASE WriteStops
      <3>1. PICK n \in 0 .. Len(results) :
                output' = [output EXCEPT !.rows = SubSeq(results, 1, n)]
        BY <2>3 DEF WriteStops
      <3> DEFINE rows == SubSeq(results, 1, n)
      <3>2. /\ rows \in Seq(Row) /\ Len(rows) = n
            /\ \A i \in 1 .. n : rows[i] = results[i]
        BY <1>3
      <3> HIDE DEF rows
      <3>3. output' = [rows |-> rows, whole |-> output.whole, exists |-> output.exists]
        BY <1>3, <3>1 DEF rows
      <3>4. pc' # "exit0"
        BY <2>3 DEF WriteStops
      <3> QED  BY <1>3, <3>2, <3>3, <3>4
    <2> QED  BY <2>1, <2>2, <2>3
  <1> QED  BY <1>1, <1>2, <1>4 DEF BatchInv, BatchType, Written

\* The inductive invariant of the batch command, for every source and answer.
THEOREM BatchInvariant == Spec => []BatchInv
  <1>1. Init => BatchInv
    BY NothingAnswered
    DEF Collected, Init, BatchInv, BatchType, Written, Early, NoOutput
  <1>2. BatchInv /\ ParseTypeOK /\ OrderInv /\ [Next]_vars => BatchInv'
    <2> SUFFICES ASSUME BatchInv, ParseTypeOK, OrderInv, [Next]_vars
                 PROVE  BatchInv'
      OBVIOUS
    <2>1. CASE ListDocuments
      BY <2>1, ListKeeps
    <2>2. CASE OpenOutput \/ WriteRows \/ WriteStops
      BY <2>2, WriteKeeps
    <2>3. CASE ClassifyDocument
      <3>1. /\ UNCHANGED <<pc, listing, output, before>> /\ output = before
            /\ pc = "documents"
        BY <2>3 DEF ClassifyDocument, OrderInv
      <3> QED
        BY <2>3, <3>1, CollectStep DEF BatchInv, Written, Early
    <2>4. CASE Categories
      <3>1. /\ UNCHANGED <<input, pc, listing, results, answers, output, before>>
            /\ answers = <<>> /\ results = <<>>
        BY <2>4 DEF Categories, batchVars, BatchInv, Early
      <3>2. answers' = <<>> /\ results' = <<>>
        BY <3>1
      <3>3. Collected'
        BY <3>2, NothingCollected
      <3> QED  BY <3>1, <3>3 DEF BatchInv, BatchType, Written
    <2>5. CASE RunAgain
      <3>1. /\ listing' = <<>> /\ results' = <<>> /\ answers' = <<>>
            /\ before' = output /\ output' = output /\ input' = input
            /\ pc' = "settings"
        BY <2>5 DEF RunAgain
      <3>2. Collected'
        BY <3>1, NothingCollected
      <3> QED  BY <3>1, <3>2 DEF BatchInv, BatchType, Written
    <2>6. CASE \/ LoadSettings \/ NeedCategoryFile \/ ReadFails
               \/ CategoriesDone \/ BuildClassifier \/ BindSource \/ BuildClients
               \/ SourceMissing \/ EndDocuments \/ OpenFails \/ Killed
               \/ UNCHANGED vars
      <3>1. UNCHANGED <<parse, input, batchVars, before>>
        BY <2>6 DEF LoadSettings, NeedCategoryFile, ReadFails, CategoriesDone,
           BuildClassifier, BindSource, BuildClients, SourceMissing, EndDocuments,
           OpenFails, Killed, GoOn, vars
      <3>2. input.program \in {"classify", "walker", "processor"}
        BY JobsAssumption DEF BatchInv, BatchType, Programs
      <3>3. /\ pc' \in Early => pc \in Early
            /\ pc' = "exit0" => pc = "exit0"
        BY <2>6, <3>2 DEF LoadSettings, NeedCategoryFile, ReadFails,
           CategoriesDone, BuildClassifier, BindSource, BuildClients, SourceMissing,
           EndDocuments, OpenFails, Killed, GoOn, vars, Early
      <3> QED  BY <3>1, <3>3, BatchStays
    <2> QED
      BY <2>1, <2>2, <2>3, <2>4, <2>5, <2>6 DEF Next
  <1> QED
    BY <1>1, <1>2, ParseTypeCorrect, OrderInvariant, PTL DEF Spec

\* Whatever the source holds and the service answers, an output is the answered
\* documents' rows in the order of the listing, all of them when the run exits with
\* 0 and the first of them otherwise (classify_documents, write_results_csv).
THEOREM BatchCorrect == Spec => []OutputIsTheBatch
  <1>1. BatchInv => OutputIsTheBatch
    <2> SUFFICES ASSUME BatchInv PROVE OutputIsTheBatch
      OBVIOUS
    <2>1. /\ Len(results) = Cardinality(Answered)
          /\ \A k \in Answered : /\ PlaceOf(k) \in 1 .. Len(results)
                                 /\ results[PlaceOf(k)] = RowOf(k)
      BY PlaceType DEF BatchInv, Collected
    <2>2. output.rows \in Seq(Row) /\ results \in Seq(Row)
      BY DEF BatchInv, BatchType
    <2> QED  BY <2>1, <2>2 DEF BatchInv, Written, OutputIsTheBatch
  <1> QED  BY <1>1, BatchInvariant, PTL

----------------------------------------------------------------------------
(***************************************************************************)
(* The routes                                                              *)
(***************************************************************************)

\* A suffix that has an extractor has a type, and the type leads back to the same
\* extractor, whichever of the suffixes of that type the inverted table keeps
\* (_SUFFIX_TO_MIME, _MIME_TO_SUFFIX).
LEMMA RouteOfSuffix ==
    ASSUME NEW s \in SupportedSuffixes
    PROVE  BySuffix(s) # NoExtractor /\ ByMime(MimeFor(s)) = BySuffix(s)
  <1> USE DEF SupportedSuffixes, Extractors, TextSuffixes
  <1>1. /\ s \in DOMAIN SuffixToMime /\ SuffixToMime[s] = Mime(s)
        /\ MimeFor(s) = Mime(s)
    BY DEF SuffixToMime, MimeFor
  <1>2. /\ Mime(s) \in Range(SuffixToMime)
        /\ Mime(s) \notin YamlAliases /\ Mime(s) # "text/xml"
    BY <1>1 DEF Mime, Word, YamlAliases, Range
  <1> DEFINE t == CHOOSE t \in DOMAIN SuffixToMime : SuffixToMime[t] = Mime(s)
  <1>3. Mime(s) \in DOMAIN MimeToSuffix /\ MimeToSuffix[Mime(s)] = t
    BY <1>2 DEF MimeToSuffix
  <1>4. t \in DOMAIN SuffixToMime /\ SuffixToMime[t] = Mime(s)
    BY <1>1
  <1> HIDE DEF t
  <1>5. t \in SupportedSuffixes /\ Mime(t) = Mime(s)
    BY <1>4 DEF SuffixToMime
  <1>6. Extractors[t] = Extractors[s]
    BY <1>5 DEF Mime, Word
  <1>7. ByMime(MimeFor(s)) = Extractors[t]
    BY <1>1, <1>3 DEF ByMime
  <1>8. BySuffix(s) = Extractors[s] /\ BySuffix(s) # NoExtractor
    BY DEF BySuffix, NoExtractor
  <1> QED  BY <1>6, <1>7, <1>8

\* Whatever the source holds, a listed document has one extractor by either entry
\* point (extract_text, extract_text_from_bytes).
THEOREM RoutesCorrect == Spec => []RoutesAgree
  <1>1. BatchInv => RoutesAgree
    <2> SUFFICES ASSUME BatchInv, NEW k \in DOMAIN listing
                 PROVE  LET s == Suffix[listing[k]] IN
                        BySuffix(s) # NoExtractor /\ ByMime(MimeFor(s)) = BySuffix(s)
      BY DEF RoutesAgree
    <2>1. Suffix[listing[k]] \in SupportedSuffixes
      BY DEF BatchInv, Supported
    <2> QED  BY <2>1, RouteOfSuffix
  <1> QED  BY <1>1, BatchInvariant, PTL

----------------------------------------------------------------------------
(***************************************************************************)
(* The start                                                               *)
(***************************************************************************)

\* What each stage on the way to the work has made sure of.
StartInv ==
    /\ env \in Environments /\ input.program \in Programs
    /\ pc \in {"needs", "source", "clients", "work"} => ~SettingsRefused(env)
    /\ pc \in {"categories", "classifier"} => ~SettingsRefused(env)
    /\ pc \in {"source", "clients", "work"} /\ input.program = "processor" =>
          parse.pc = "parsed" /\ JevConfigured(env)
    /\ pc = "classifier" => parse.pc = "parsed"
    /\ pc \in {"clients", "work"} => SourceConfigured
    /\ pc = "work" => ClientsBuild

\* The checks made so far hold, in every run of every program.
THEOREM StartInvariant == Spec => []StartInv
  <1>1. Init => StartInv
    BY JobsAssumption DEF Init, StartInv, env
  <1>2. StartInv /\ [Next]_vars => StartInv'
    <2> SUFFICES ASSUME StartInv, [Next]_vars PROVE StartInv'
      OBVIOUS
    <2>1. input' = input
      BY DEF Next, vars, GoOn, LoadSettings, NeedCategoryFile, ReadFails, Categories,
         CategoriesDone, BuildClassifier, BindSource, BuildClients, SourceMissing,
         ListDocuments, ClassifyDocument, EndDocuments, OpenFails, OpenOutput,
         WriteRows, WriteStops, Killed, RunAgain
    <2>2. /\ env' = env /\ SettingsRefused(env)' = SettingsRefused(env)
          /\ SourceConfigured' = SourceConfigured /\ ClientsBuild' = ClientsBuild
          /\ JevConfigured(env)' = JevConfigured(env)
      BY <2>1 DEF env, SourceConfigured, ClientsBuild, SettingsRefused, JevConfigured,
         JevRefused, GraphRefused, QueueRefused, WalkerRefused, Invalid, Source,
         QueueBackend, QueueConfigured, GraphConfigured, WalkerConfigured,
         DatabaseConfigured, FilesystemConfigured, BlobConfigured, Given, Truthy
    <2> USE DEF StartInv, GoOn, batchVars, Programs
    <2>3. CASE LoadSettings  BY <2>1, <2>2, <2>3 DEF LoadSettings
    <2>4. CASE NeedCategoryFile  BY <2>1, <2>2, <2>4 DEF NeedCategoryFile
    <2>5. CASE Categories  BY <2>1, <2>2, <2>5 DEF Categories
    <2>6. CASE CategoriesDone  BY <2>1, <2>2, <2>6 DEF CategoriesDone
    <2>7. CASE BuildClassifier  BY <2>1, <2>2, <2>7 DEF BuildClassifier
    <2>8. CASE BindSource  BY <2>1, <2>2, <2>8 DEF BindSource
    <2>9. CASE BuildClients  BY <2>1, <2>2, <2>9 DEF BuildClients
    <2>10. CASE UNCHANGED vars  BY <2>1, <2>2, <2>10 DEF vars
    <2>11. CASE pc' \in {"documents", "write", "rows", "settings", "exit0", "exit1",
                          "raised", "killed"}
      BY <2>1, <2>2, <2>11
    <2>12. CASE ClassifyDocument  BY <2>1, <2>2, <2>12 DEF ClassifyDocument
    <2> QED
      BY <2>3, <2>4, <2>5, <2>6, <2>7, <2>8, <2>9, <2>10, <2>11, <2>12
      DEF Next, ReadFails, SourceMissing, ListDocuments, EndDocuments, OpenFails,
          OpenOutput, WriteRows, WriteStops, Killed, RunAgain
  <1> QED  BY <1>1, <1>2, PTL DEF Spec

\* In every environment, a job that reaches its work has every setting the work
\* will ask for (walker.run, processor.run, config.Settings).
THEOREM StartConfigured == Spec => []StartedIsConfigured
  <1>1. StartInv => StartedIsConfigured
    <2> SUFFICES ASSUME StartInv, pc = "work" PROVE StartedIsConfigured
      BY DEF StartedIsConfigured
    <2>1. /\ ~SettingsRefused(env) /\ SourceConfigured /\ ClientsBuild
          /\ env \in Environments
      BY DEF StartInv
    <2>2. /\ Truthy(env, "database_url") /\ Truthy(env, "queue_name")
          /\ \/ Truthy(env, "queue_connection_string")
             \/ /\ Truthy(env, "queue_use_managed_identity")
                /\ Truthy(env, "queue_account_url")
      BY <2>1 DEF ClientsBuild, QueueConfigured, QueueBackend
    <2>3. /\ Source(env) = "sharepoint" =>
                /\ \/ Truthy(env, "graph_use_managed_identity")
                   \/ \A v \in GraphTrio : Truthy(env, v)
                /\ input.program = "walker" => Given(env, "walker_drive_id")
          /\ Source(env) = "filesystem" => Given(env, "filesystem_root")
          /\ Source(env) = "blob" =>
                Truthy(env, "blob_account_url") /\ Truthy(env, "blob_container")
      BY <2>1 DEF SourceConfigured, ClientsBuild, GraphConfigured, WalkerConfigured,
                  FilesystemConfigured
    <2>4. Source(env) \in Sources
      <3>1. env["source"] \in Values("source") /\ ~Invalid(env, "source")
        BY <2>1 DEF Environments, Variables, SettingsRefused
      <3> QED  BY <3>1 DEF Source, Values, Sources, Invalid, Typed, Given
    <2>5. input.program = "processor" =>
              /\ parse.pc = "parsed"
              /\ Given(env, "jev_api_key") /\ Truthy(env, "jev_base_url")
      <3>1. env["jev_base_url"] \in {"unset", "blank", "set", "bad"}
        BY <2>1 DEF Environments, Variables, Values
      <3>2. ~Invalid(env, "jev_base_url")
        BY <2>1 DEF SettingsRefused, JevRefused
      <3> QED
        BY <3>1, <3>2 DEF StartInv, JevConfigured, Given, Truthy, Invalid, Typed
    <2> QED  BY <2>2, <2>3, <2>4, <2>5 DEF StartedIsConfigured, Sources
  <1> QED  BY <1>1, StartInvariant, PTL

\* The client builders find the credential of every section that says it is
\* configured (message_queue._build_backend, graph_client._build_credential).
THEOREM CredentialsGuaranteed == Spec => []CredentialsAreGuaranteed
  <1>1. StartInv => CredentialsAreGuaranteed
    BY DEF CredentialsAreGuaranteed, QueueConfigured, QueueBackend, GraphConfigured,
           Given, Truthy, GraphTrio
  <1> QED  BY <1>1, StartInvariant, PTL
============================================================================
