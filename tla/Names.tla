------------------------------- MODULE Names -------------------------------
(***************************************************************************)
(* clang-fun: the checker of names.  For every source file it visits the   *)
(* declarations clang finds, compares their names with the pattern of      *)
(* their kind, and looks for misspelt words in the names that match.  A    *)
(* name is a sequence of characters.                                       *)
(***************************************************************************)
EXTENDS Integers, Sequences, SequencesExt, FiniteSets, FiniteSetsExt

CONSTANTS Lower, Upper,         \* sequences: the letters and their capitals, in the same order
          MaxName               \* bound on the length of a name

NameConstants == Len(Lower) = Len(Upper) /\ ToSet(Lower) \cap ToSet(Upper) = {}

VARIABLES spellchecker_dict_, files,    \* the dictionary; the source files
          res,                          \* what CheckNames returns, by file name
          visited                       \* how many of the files have been visited

vars == <<spellchecker_dict_, files, res, visited>>

IsLower(c) == c \in ToSet(Lower)
IsUpper(c) == c \in ToSet(Upper)
tolower(c) == IF IsUpper(c) THEN Lower[CHOOSE i \in DOMAIN Upper : Upper[i] = c] ELSE c
-----------------------------------------------------------------------------
\* The regular expressions: from the set S of places in the name s, the places that
\* lo to hi characters of a class lead to.
Reps(S, s, Class(_), lo, hi) ==
    {j \in 0..Len(s) : \E i \in S : j - i \in lo..hi /\ \A k \in i + 1..j : Class(s[k])}
Lowers(S, s) == Reps(S, s, IsLower, 1, Len(s))
Char(S, s, c) == Reps(S, s, LAMBDA x : x = c, 1, 1)

First(S, s) == Lowers(Reps(S, s, IsUpper, 1, 1) \cup Reps(S, s, IsUpper, 4, Len(s)), s)
Word(S, s) == Lowers(Reps(S, s, IsUpper, 1, 1), s)
Middle(S, s) == Word(S, s) \cup Lowers(Reps(S, s, IsUpper, 4, Len(s)), s)
Snake(S, s) == Lowers(Char(S, s, "_"), s)

\* S and all that Step leads to, any number of times.
Star(S, s, Step(_, _)) == LET reach[n \in 0..Len(s)] == IF n = 0 THEN S ELSE reach[n - 1] \cup Step(reach[n - 1], s)
                          IN reach[Len(s)]

Camel(S, s) == LET T == Star(First(S, s), s, Middle) IN Len(s) \in T \cup Word(T, s) \cup Reps(T, s, IsUpper, 3, Len(s))
SnakeUpTo(s, end) == LET T == Star(Lowers({0}, s), s, Snake) IN end \in T
Matches(s, pattern) ==
    CASE pattern \in {"kTypeNamePattern", "kConstPattern"} -> Camel(IF pattern = "kConstPattern" THEN Char({0}, s, "k") ELSE {0}, s)
      [] pattern = "kPrivateFieldPattern" -> Last(s) = "_" /\ SnakeUpTo(s, Len(s) - 1)
      [] pattern = "kPublicFieldPattern" -> SnakeUpTo(s, Len(s))
-----------------------------------------------------------------------------
\* LevenshteinDistance, row by row.
LevenshteinDistance(s, t) ==
    LET Row(prew, j) ==
            LET current[i \in 0..Len(s)] ==
                    IF i = 0 THEN j
                    ELSE Min({IF tolower(t[j]) = tolower(s[i]) THEN prew[i - 1] ELSE prew[i - 1] + 1,
                              prew[i] + 1, current[i - 1] + 1})
            IN current
    IN FoldLeft(Row, [i \in 0..Len(s) |-> i], [j \in DOMAIN t |-> j])[Len(s)]

\* The pieces of s that begin at the given places; skip characters of each are left out.
Pieces(s, begins, skip) ==
    LET at == SetToSortSeq(begins, <)
    IN [k \in DOMAIN at |-> SubSeq(s, at[k] + skip, IF k = Len(at) THEN Len(s) ELSE at[k + 1] - 1)]

\* A capital begins a word; capitals that are words by themselves are joined, unless
\* the words are divided by underscores.
Capital(s, i) == IsUpper(s[i]) /\ (i = Len(s) \/ IsUpper(s[i + 1]))
SplitIntoWords(s) ==
    IF "_" \in ToSet(s)
    THEN LET words == Pieces(s, {0} \cup {i \in DOMAIN s : s[i] = "_"}, 1)
         IN IF Last(words) = <<>> THEN Front(words) ELSE words
    ELSE Pieces(s, {1} \cup {i \in 2..Len(s) : IsUpper(s[i]) /\ ~(Capital(s, i) /\ Capital(s, i - 1))}, 0)

\* CheckMistakes: each long word with its nearest word of the dictionary, the first
\* of them, if it is near.
CheckMistakes(s) ==
    LET words == SelectSeq(SplitIntoWords(s), LAMBDA w : Len(w) > 3)
        dist(w, i) == LevenshteinDistance(w, spellchecker_dict_[i])
        nearest(w) == CHOOSE i \in DOMAIN spellchecker_dict_ :
                         \A j \in DOMAIN spellchecker_dict_ : dist(w, i) < dist(w, j) \/ (dist(w, i) = dist(w, j) /\ i <= j)
        wrong == SelectSeq(words, LAMBDA w : dist(w, nearest(w)) \in 1..3)
    IN IF spellchecker_dict_ = <<>> THEN <<>>
       ELSE [k \in DOMAIN wrong |-> [name |-> s, wrong_word |-> wrong[k], ok_word |-> spellchecker_dict_[nearest(wrong[k])]]]
-----------------------------------------------------------------------------
\* What run looks at for each kind of declaration: names (an unnamed entity has an
\* empty one, and is passed over), the pattern and the kind of entity of each, and
\* how the name is shown.
Item(name, pattern, entity) == [name |-> name, pattern |-> pattern, entity |-> entity, shown |-> name]

Params(d) == [i \in DOMAIN d.params |-> IF d.params[i].const THEN Item(d.params[i].name, "kConstPattern", "kConst")
                                        ELSE Item(d.params[i].name, "kPublicFieldPattern", "kVariable")]

TypeDecl(d) == <<Item(d.name, "kTypeNamePattern", "kType")>>
EnumDecl(d) == <<Item(d.name, "kTypeNamePattern", "kType")>>
FunctionDecl(d) == (IF d.main THEN <<>> ELSE <<Item(d.name, "kTypeNamePattern", "kFunction")>>) \o Params(d)
MethodDecl(d) == (IF d.name = <<"r", "u", "n">> THEN <<>> ELSE <<Item(d.name, "kTypeNamePattern", "kFunction")>>) \o Params(d)
ConstructorDecl(d) == IF d.name = <<>> THEN <<>> ELSE <<Item(d.name, "kTypeNamePattern", "kFunction")>> \o Params(d)
DestructorDecl(d) == IF d.name = <<>> THEN <<>>
                     ELSE <<[Item(d.name, "kTypeNamePattern", "kFunction") EXCEPT !.shown = <<"~">> \o @]>> \o Params(d)

Member(d, public) == CASE d.const -> <<Item(d.name, "kConstPattern", "kConst")>>
                       [] ~d.const /\ d.access = "private" -> <<Item(d.name, "kPrivateFieldPattern", "kField")>>
                       [] ~d.const /\ d.access \in public -> <<Item(d.name, "kPublicFieldPattern", "kVariable")>>
                       [] OTHER -> <<>>
FieldDecl(d) == Member(d, {"public"})
VarDecl(d) == Member(d, {"public", "none"})

Items(d) == CASE d.system -> <<>>
              [] ~d.system /\ d.kind \in {"type_decl", "type_alias_decl", "type_def_decl"} -> TypeDecl(d)
              [] ~d.system /\ d.kind = "method_decl" -> MethodDecl(d)
              [] ~d.system /\ d.kind = "construct_decl" -> ConstructorDecl(d)
              [] ~d.system /\ d.kind = "destruct_decl" -> DestructorDecl(d)
              [] ~d.system /\ d.kind = "field_decl" -> FieldDecl(d)
              [] ~d.system /\ d.kind = "variable_decl" -> VarDecl(d)
              [] ~d.system /\ d.kind = "func_decl" -> FunctionDecl(d)
              [] ~d.system /\ d.kind = "enum_decl" -> EnumDecl(d)

\* NamingRulesViolation::run, called for what a matcher of CheckNames has found: a
\* name that does not match is bad, and the words of one that does are spelt.
run(d) ==
    LET named == SelectSeq(Items(d), LAMBDA x : x.name # <<>>)
        bad == SelectSeq(named, LAMBDA x : ~Matches(x.name, x.pattern))
        good == SelectSeq(named, LAMBDA x : Matches(x.name, x.pattern))
    IN [bad_names |-> [i \in DOMAIN bad |-> [name |-> bad[i].shown, entity |-> bad[i].entity]],
        mistakes |-> FlattenSeq([i \in DOMAIN good |-> CheckMistakes(good[i].shown)])]

\* One file of CheckNames: a tool of its own, whose statistics go under its name (the
\* last part of its path).
CheckNames(file) == [x \in DOMAIN res \cup {file.name} |->
                        IF x = file.name THEN run(file.decl) ELSE res[x]]
-----------------------------------------------------------------------------
\* The inputs: one declaration, or two files, which may have the same name.
Text == SeqOf({Lower[1], Upper[1], "_"}, MaxName) \cup UNION {[1..n -> ToSet(Lower)] : n \in 4..MaxName - 1}
Some == {<<>>, <<"r", "u", "n">>, <<"a", "a", "_">>, <<"A", "a", "a", "a">>, <<"k", "A", "a", "a", "a">>, <<"a", "a", "a", "a">>}
Decl(kind, name, const, access) ==
    [kind |-> kind, name |-> name, const |-> const, access |-> access, system |-> FALSE, main |-> FALSE, params |-> <<>>]
Kinds == {"type_decl", "type_alias_decl", "type_def_decl", "enum_decl", "method_decl", "construct_decl",
          "destruct_decl", "field_decl", "variable_decl", "func_decl"}
Declarations ==
    {Decl("type_decl", s, FALSE, "none") : s \in Text} \cup {Decl("variable_decl", s, FALSE, "public") : s \in Text}
    \cup {Decl("variable_decl", s, FALSE, "private") : s \in Text} \cup {Decl("variable_decl", <<"k">> \o s, TRUE, "none") : s \in Text}
    \cup {[Decl(k, s, c, a) EXCEPT !.system = y, !.main = m, !.params = p] :
             k \in Kinds, s \in Some, c \in BOOLEAN, a \in {"private", "protected", "public", "none"}, y \in BOOLEAN, m \in BOOLEAN,
             p \in {<<>>, <<[name |-> <<"A">>, const |-> FALSE], [name |-> <<"a", "a">>, const |-> TRUE]>>}}

Dictionary == <<<<"b", "a", "a", "a">>, <<"a", "b", "a", "a", "b">>>>

Inputs == {<<[name |-> 1, decl |-> d]>> : d \in Declarations}
          \cup {[i \in 1..2 |-> [name |-> n[i], decl |-> Decl("type_decl", <<Lower[i]>>, FALSE, "none")]] : n \in [1..2 -> 1..2]}

Init == spellchecker_dict_ = <<>> /\ files = <<>> /\ res = <<>> /\ visited = 0

\* The options: the source files, and the dictionary if there is one.
Start == /\ files = <<>> /\ files' \in Inputs /\ spellchecker_dict_' \in {<<>>, Dictionary}
         /\ UNCHANGED <<res, visited>>

Visit == /\ visited < Len(files) /\ visited' = visited + 1 /\ res' = CheckNames(files[visited + 1])
         /\ UNCHANGED <<spellchecker_dict_, files>>

Next == Start \/ Visit
Spec == Init /\ [][Next]_vars
-----------------------------------------------------------------------------
\* The rules of the style guide as the task states them: words that begin with a
\* capital, where capitals in a row are none or at least three when the one that
\* begins the next word is not counted, and never the whole name; or words of small
\* letters with underscores between them.
Letters(s) == \A i \in DOMAIN s : IsLower(s[i]) \/ IsUpper(s[i])
InCamelCase(s) ==
    /\ s # <<>> /\ Letters(s) /\ IsUpper(s[1]) /\ \E i \in DOMAIN s : IsLower(s[i])
    /\ \A i, j \in DOMAIN s : /\ i <= j /\ \A k \in i..j : IsUpper(s[k])
                              /\ i = 1 \/ IsLower(s[i - 1])
                              /\ j = Len(s) \/ IsLower(s[j + 1])
                              => LET n == IF j = Len(s) THEN j - i + 1 ELSE j - i IN n = 0 \/ n >= 3
InSnakeCase(s) == /\ s # <<>> /\ \A i \in DOMAIN s : IsLower(s[i]) \/ (s[i] = "_" /\ i > 1 /\ i < Len(s) /\ s[i - 1] # "_")
                                       
RECURSIVE Distance(_, _)
Distance(s, t) == IF s = <<>> \/ t = <<>> THEN Len(s) + Len(t)
                  ELSE Min({Distance(Tail(s), t) + 1, Distance(s, Tail(t)) + 1,
                            Distance(Tail(s), Tail(t)) + (IF tolower(s[1]) = tolower(t[1]) THEN 0 ELSE 1)})
Nearest(w) == Min({Distance(w, t) : t \in ToSet(spellchecker_dict_)})

RulesOf(d) == CASE d.kind = "type_decl" -> InCamelCase(d.name)
                [] d.kind = "variable_decl" /\ d.const -> d.name # <<>> /\ d.name[1] = "k" /\ InCamelCase(Tail(d.name))
                [] d.kind = "variable_decl" /\ ~d.const /\ d.access = "private" ->
                      d.name # <<>> /\ Last(d.name) = "_" /\ InSnakeCase(Front(d.name))
                [] OTHER -> InSnakeCase(d.name)

\* A type or a variable is reported exactly if its name breaks the rule of its kind;
\* the words of a name in camel case are capitalised words and abbreviations that
\* make up the name; the misspelt words are those whose distance to the nearest word
\* of the dictionary is 1 to 3, reported with one as near; and of a function at most
\* its name and its parameters are reported.
NamesAgree ==
    \A i \in 1..visited :
        LET d == files[i].decl
            s == res[files[i].name]
            words == SplitIntoWords(d.name)
        IN Len(files) = 1 =>
            /\ InCamelCase(d.name) =>
                  /\ FlattenSeq(words) = d.name
                  /\ \A w \in ToSet(words) : IsUpper(w[1]) /\ Len(w) > 1 /\ \/ \A k \in 2..Len(w) : IsLower(w[k])
                                                                            \/ Len(w) > 2 /\ \A k \in 2..Len(w) : IsUpper(w[k])
            /\ "_" \notin UNION {ToSet(w) : w \in ToSet(words)}
            /\ \A m \in ToSet(s.mistakes) : Distance(m.wrong_word, m.ok_word) = Nearest(m.wrong_word)
            /\ d.kind \in {"type_decl", "variable_decl"} /\ ~d.system /\ d.access # "protected" /\ d.name # <<>> =>
                  /\ s.bad_names = <<>> <=> RulesOf(d)
                  /\ {m.wrong_word : m \in ToSet(s.mistakes)} =
                        IF s.bad_names # <<>> \/ spellchecker_dict_ = <<>> THEN {}
                        ELSE {w \in ToSet(words) : Len(w) > 3 /\ Nearest(w) \in 1..3}
            /\ Len(s.bad_names) <= 1 + Len(d.params)
=============================================================================
