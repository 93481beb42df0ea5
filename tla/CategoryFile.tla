---------------------------- MODULE CategoryFile ---------------------------
(***************************************************************************)
(* The parser of the category file (src/src/categories.py): the lines are  *)
(* grouped into blocks, one per "## Name" heading, and then each block is  *)
(* made into a category.  A line is a heading's name, or one of the other  *)
(* kinds; the wording of descriptions and examples is left out.            *)
(***************************************************************************)
EXTENDS Naturals, Sequences, FiniteSets

CONSTANTS
    Names,          \* names a heading may carry
    Lower,          \* Lower[n]: the name in lower case
    Unknown         \* the reserved name

\* "malformed": two to six #'s and no space before something else, which is how a
\* well-spaced "### Name" reads too;  "bullet": an example;  "text": prose;
\* "blank": an empty line.
Others == {"malformed", "bullet", "text", "blank"}
Lines  == Names \cup Others

ASSUME CategoryAssumption ==
    /\ Names \cap Others = {}
    /\ Lower \in [Names -> Names]
    /\ Unknown \in Names

VARIABLES
    file,           \* the lines of the category file
    parse           \* the parse in progress

\* at: lines, and then blocks, consumed so far.
NoParse == [pc |-> "split", at |-> 0, blocks |-> <<>>, seen |-> {}, built |-> <<>>]

Block    == [name : Names, body : Seq(Others)]
Category == [name : Names, prose : Nat, examples : Nat]

ParseTypeOK ==
    parse \in [pc : {"split", "build", "parsed", "refused"}, at : Nat,
               blocks : Seq(Block), seen : SUBSET Names, built : Seq(Category)]

----------------------------------------------------------------------------
Refuse == parse' = [parse EXCEPT !.pc = "refused"]

AddBlock(n) == Append(parse.blocks, [name |-> n, body |-> <<>>])

\* The last block takes the line; what comes before the first heading is ignored.
Extended(line) ==
    IF parse.blocks = <<>> THEN <<>>
    ELSE [parse.blocks EXCEPT ![Len(parse.blocks)].body = Append(@, line)]

\* Mutant: a heading under the first one is a line of its block.
SplitLineOnce ==
    /\ parse.pc = "split" /\ parse.at < Len(file)
    /\ LET line == file[parse.at + 1] IN
          IF line = "malformed" THEN Refuse
          ELSE parse' = [parse EXCEPT !.at = @ + 1,
                   !.blocks = IF line \in Names /\ @ = <<>> THEN AddBlock(line)
                              ELSE Extended(line)]
    /\ UNCHANGED file

SplitLine ==
    /\ parse.pc = "split" /\ parse.at < Len(file)
    /\ LET line == file[parse.at + 1] IN
          IF line = "malformed" THEN Refuse
          ELSE parse' = [parse EXCEPT !.at = @ + 1,
                   !.blocks = IF line \in Names THEN AddBlock(line)
                              ELSE Extended(line)]
    /\ UNCHANGED file

EndSplit ==
    /\ parse.pc = "split" /\ parse.at = Len(file)
    /\ parse' = [parse EXCEPT !.pc = "build", !.at = 0]
    /\ UNCHANGED file

Examples(body) == Cardinality({k \in DOMAIN body : body[k] = "bullet"})

\* The description is the prose before the first example.
Prose(body) ==
    Cardinality({k \in DOMAIN body :
        body[k] = "text" /\ \A j \in 1 .. k : body[j] # "bullet"})

Built(block) == [name |-> block.name, prose |-> Prose(block.body),
                 examples |-> Examples(block.body)]

\* Mutant: names are compared as they are written.
BuildBlockByCase ==
    /\ parse.pc = "build" /\ parse.at < Len(parse.blocks)
    /\ LET block == parse.blocks[parse.at + 1] IN
          IF Lower[block.name] = Unknown
          THEN parse' = [parse EXCEPT !.at = @ + 1]
          ELSE IF block.name \in parse.seen \/ Examples(block.body) = 0 THEN Refuse
          ELSE parse' = [parse EXCEPT !.at = @ + 1,
                   !.seen = @ \cup {block.name}, !.built = Append(@, Built(block))]
    /\ UNCHANGED file

\* The reserved name is passed over before anything about its block is looked at.
BuildBlock ==
    /\ parse.pc = "build" /\ parse.at < Len(parse.blocks)
    /\ LET block == parse.blocks[parse.at + 1]
           lowered == Lower[block.name] IN
          IF lowered = Unknown THEN parse' = [parse EXCEPT !.at = @ + 1]
          ELSE IF lowered \in parse.seen \/ Examples(block.body) = 0 THEN Refuse
          ELSE parse' = [parse EXCEPT !.at = @ + 1,
                   !.seen = @ \cup {lowered}, !.built = Append(@, Built(block))]
    /\ UNCHANGED file

\* Mutant: a file that defines no category is taken for one that does.
EndBuildEmpty ==
    /\ parse.pc = "build" /\ parse.at = Len(parse.blocks)
    /\ parse' = [parse EXCEPT !.pc = "parsed"]
    /\ UNCHANGED file

EndBuild ==
    /\ parse.pc = "build" /\ parse.at = Len(parse.blocks)
    /\ parse' = [parse EXCEPT !.pc = IF parse.built = <<>> THEN "refused" ELSE "parsed"]
    /\ UNCHANGED file

ParseStep == SplitLine \/ EndSplit \/ BuildBlock \/ EndBuild

ParseEnded == parse.pc \in {"parsed", "refused"}

\* The answer space: the names in the file and the reserved one.
EnumValues == {parse.built[k].name : k \in DOMAIN parse.built} \cup {Unknown}

(***************************************************************************)
(* What the parser promises, said of the file's lines without blocks       *)
(***************************************************************************)

Headings == {k \in DOMAIN file : file[k] \in Names}

\* The lines under the heading at k.
Under(k) == {j \in DOMAIN file : j > k /\ \A l \in k + 1 .. j : l \notin Headings}

Bullets(k) == {j \in Under(k) : file[j] = "bullet"}

\* Headings that name a category of the user's.
Proper == {k \in Headings : Lower[file[k]] # Unknown}

Acceptable ==
    /\ \A k \in DOMAIN file : file[k] # "malformed"
    /\ Proper # {}
    /\ \A k \in Proper : Bullets(k) # {}
    /\ \A j, k \in Proper : Lower[file[j]] = Lower[file[k]] => j = k

\* The category the heading at k stands for.
CategoryAt(k) ==
    [name |-> file[k],
     prose |-> Cardinality({j \in Under(k) :
                   file[j] = "text" /\ \A b \in Bullets(k) : b > j}),
     examples |-> Cardinality(Bullets(k))]

\* A file is parsed exactly when every heading is well formed, names a category
\* of its own and has an example, and then into one category per heading, in the
\* order of the file, the reserved one left out (parse_categories).
ParserAgrees ==
    /\ parse.pc = "refused" => ~Acceptable
    /\ parse.pc = "parsed" =>
          /\ Acceptable
          /\ Len(parse.built) = Cardinality(Proper)
          /\ \A k \in Proper :
                parse.built[Cardinality({j \in Proper : j <= k})] = CategoryAt(k)

\* The categories a program works with are distinct but for case, none of them is
\* the reserved one, and each has an example to show the classifier.
CategoriesAreSound ==
    parse.pc = "parsed" =>
        /\ parse.built # <<>>
        /\ \A k \in DOMAIN parse.built :
              /\ Lower[parse.built[k].name] # Unknown
              /\ parse.built[k].examples > 0
        /\ \A j, k \in DOMAIN parse.built :
              Lower[parse.built[j].name] = Lower[parse.built[k].name] => j = k
============================================================================
