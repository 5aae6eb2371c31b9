--------------------------- MODULE MigrationAnalyzer ---------------------------
(***************************************************************************)
(* The migration-analyzer: comments are stripped from a Jenkinsfile, the    *)
(* rules are applied to what is left line by line, shared-library steps are *)
(* added, and the checklist and the exit code are made from the findings.   *)
(*                                                                         *)
(* A Jenkinsfile is a sequence of tokens, one for each category of rule, for*)
(* a rule that reports only once, for both ways to name a credential and    *)
(* the names, for a plugin step with a rule and one without, for the call   *)
(* and the definition of a step, for marks, and for line ends.  Tokens are  *)
(* apart; what stands together is one token.                                *)
(***************************************************************************)
EXTENDS Integers, FiniteSets, Sequences, SequencesExt

CONSTANT MaxTokens  \* bound: the length of a Jenkinsfile

ASSUME AnalyzerAssumption == MaxTokens \in Nat

NL == "nl"
Blank == "blank"        \* where a token of a comment was
Glob == "'**/*'"        \* a string with both marks of a block comment
Url == "'https://h'"    \* a string with the mark of a line comment after a colon
Text == "'a//b'"        \* a string with the mark of a line comment after a letter
Glued == "'x'//"        \* the mark of a line comment, right after a string
Shebang == "#!"

\* A pattern that captures a name is met by what opens the construct and the name, which may be
\* on another line: \s* matches a line end.
Arguments == {"'a')", "'b')"}
HelperTokens == {"credentials("}
IdTokens == {"credentialsId:"}
Secrets == HelperTokens \cup IdTokens
Openers == Secrets \cup {"stage("}
Calls == {"stage(", "input", "timestamps", "httpRequest", "deployHelm"}
Statements == {"@Library", "def deployHelm"} \cup Calls \cup Secrets
Tokens ==
    Statements \cup Arguments \cup {NL, Glob, Url, Text, Glued, Shebang, "/*", "*/", "//"}

VARIABLES
    step,      \* "scan", "rules", "steps", "render", "exit" or "done"
    text,      \* the Jenkinsfile
    cleaned,   \* the text without comments
    lists,     \* the stages, the library, the credentials, the library's steps, the plugins
    next,      \* the rule that is applied next
    findings,  \* a sequence of [line, rule, category, detail]
    output,    \* the report: [sections, items, summary], an item is [finding, open]
    failOn,    \* the category given with --fail-on, "none" when there is none
    exit       \* the exit code

vars == <<step, text, cleaned, lists, next, findings, output, failOn, exit>>

LineOf(s, i) == 1 + Cardinality({j \in 1 .. i - 1 : s[j] = NL})

\* The name after what opens at i, with nothing but `between` before it.
Argument(s, i, between) ==
    {j \in i + 1 .. Len(s) : s[j] \in Arguments /\ \A k \in i + 1 .. j - 1 : s[k] \in between}

\* What a pattern finds in a line, and what it finds in the lines joined.
InLine == {Blank}
InText == {Blank, NL}
Matches(s, tokens, between) ==
    {i \in DOMAIN s : s[i] \in tokens /\ (s[i] \in Openers => Argument(s, i, between) # {})}

\* What the group of the pattern captures at a match.
Captured(s, i) == IF s[i] \in Openers THEN s[Min(Argument(s, i, InText))] ELSE ""

LinesWith(s, tokens) == {LineOf(s, i) : i \in Matches(s, tokens, InLine)}

\* A set of numbers in order, and the elements of a sequence at some of its positions.
InOrder(S) == CHOOSE q \in [1 .. Cardinality(S) -> S] : \A j, k \in DOMAIN q : j < k => q[j] < q[k]
Picked(seq, positions) ==
    LET at == InOrder(positions) IN [k \in DOMAIN at |-> seq[at[k]]]

--------------------------------------------------------------------------------
(* What Groovy takes for code                                                  *)

\* What a token makes of the mode; strings hide their marks, except in a comment.
ModeAfter(mode, t) ==
    CASE mode = "code" /\ t = "/*" -> "block"
      [] mode = "code" /\ t \in {"//", Glued} -> "line"
      [] mode = "block" /\ t \in {"*/", Glob} -> "code"
      [] mode = "line" /\ t = NL -> "code"
      [] OTHER -> mode

\* The first line may be a shebang.
FirstMode(s) == IF s # <<>> /\ s[1] = Shebang THEN "line" ELSE "code"

\* The mode of the lexer before each token.
Mode(s) ==
    LET mode[i \in 1 .. Len(s) + 1] ==
        IF i = 1 THEN FirstMode(s) ELSE ModeAfter(mode[i - 1], s[i - 1])
    IN mode

\* The code alone, at its line.
CodeAtItsLine(s) ==
    LET mode == Mode(s)
    IN [i \in DOMAIN s |->
           IF s[i] = NL \/ (mode[i] = "code" /\ s[i] \notin {"/*", "//"}) THEN s[i] ELSE Blank]

\* Comments end, what ends a comment is its own mark, and a shebang is at the start.
CommentsEnd(s) ==
    /\ Mode(s)[Len(s) + 1] # "block"
    /\ \A i \in DOMAIN s :
        /\ s[i] \in {"*/", Shebang} => Mode(s)[i] # "code"
        /\ s[i] = Glob => Mode(s)[i] # "block"

\* What opens has its name, and a name what it belongs to.
NamesFollow(s) ==
    LET open == Matches(s, Openers, InText) IN
    /\ \A i \in DOMAIN s : s[i] \in Openers => i \in open
    /\ \A j \in DOMAIN s : s[j] \in Arguments => \E i \in open : j \in Argument(s, i, InText)

Legal(s) == CommentsEnd(s) /\ NamesFollow(CodeAtItsLine(s))

Jenkinsfiles == {s \in SeqOf(Tokens, MaxTokens) : Legal(s)}

\* The patterns know no strings, no line comment for a mark of a block comment, no mark of a line
\* comment right after a quote or a colon, and take any line that starts with #! for a shebang.
\* Here a mark is where Groovy takes it for one, and only there.
MarksAreMarks(s) ==
    \A i \in DOMAIN s :
        /\ s[i] # Glob
        /\ s[i] \in {"/*", "*/"} => Mode(s)[i] # "line"
        /\ s[i] \in {Text, Glued} => Mode(s)[i] # "code"
        /\ s[i] = Shebang /\ Mode(s)[i] = "block" => s[i - 1] # NL

--------------------------------------------------------------------------------
(* parser.py                                                                   *)

\* _BLOCK_COMMENT knows no strings and no line comments: from a start to the next end.
Ends(s, i) == {j \in i + 1 .. Len(s) : s[j] \in {"*/", Glob}}

\* The end of the last comment that starts no later than each token.
CommentEnd(s) ==
    LET until[i \in 0 .. Len(s)] ==
        IF i = 0 THEN 0
        ELSE IF i > until[i - 1] /\ s[i] \in {"/*", Glob} /\ Ends(s, i) # {}
             THEN Min(Ends(s, i))
             ELSE until[i - 1]
    IN until

\* Mutated form of StripBlocks: the line ends of a comment go with it.
StripBlocksAndLines(s) ==
    LET until == CommentEnd(s)
    IN [i \in DOMAIN s |-> IF i <= until[i] THEN Blank ELSE s[i]]

StripBlocks(s) ==
    LET until == CommentEnd(s)
    IN [i \in DOMAIN s |-> IF i <= until[i] /\ s[i] # NL THEN Blank ELSE s[i]]

\* From the first of these marks to the end of its line.
StripFrom(s, marks) ==
    [i \in DOMAIN s |->
        IF \E j \in marks : j <= i /\ \A k \in j .. i : s[k] # NL THEN Blank ELSE s[i]]

\* _LINE_COMMENT: a mark that follows neither a colon nor a quote, in a string or not.
StripLines(s) == StripFrom(s, {j \in DOMAIN s : s[j] \in {"//", Text}})

\* _SHEBANG: at the start of any line, and before the comments.
StripShebangs(s) ==
    StripFrom(s, {j \in DOMAIN s : s[j] = Shebang /\ (j > 1 => s[j - 1] = NL)})

\* Mutated form of StripComments: line comments go first.
StripCommentsLinesFirst(s) == StripBlocks(StripLines(StripShebangs(s)))

StripComments(s) == StripLines(StripBlocks(StripShebangs(s)))

\* The library's name, every stage, and each credential once: credentials() first.
Captures(s, tokens) ==
    LET at == InOrder(Matches(s, tokens, InText))
    IN [k \in DOMAIN at |-> Captured(s, at[k])]

\* Mutated form of CredentialIds: those of credentials() alone.
CredentialIdsOfHelpers(s) ==
    LET ids == Captures(s, HelperTokens)
    IN Picked(ids, {i \in DOMAIN ids : \A j \in 1 .. i - 1 : ids[j] # ids[i]})

CredentialIds(s) ==
    LET ids == Captures(s, HelperTokens) \o Captures(s, IdTokens)
    IN Picked(ids, {i \in DOMAIN ids : \A j \in 1 .. i - 1 : ids[j] # ids[i]})

Init ==
    /\ step = "scan"
    /\ text \in Jenkinsfiles
    /\ cleaned = <<>> /\ next = 1 /\ findings = <<>>
    /\ lists = [stages |-> <<>>, library |-> FALSE, credentials |-> <<>>,
                librarySteps |-> <<>>, plugins |-> <<>>]
    /\ output = [sections |-> <<>>, items |-> <<>>, summary |-> <<>>]
    /\ failOn = "none" /\ exit = 0

Scan ==
    /\ step = "scan"
    /\ cleaned' = StripComments(text)
    /\ lists' = [lists EXCEPT !.stages = Captures(cleaned', {"stage("}),
                              !.library = Contains(cleaned', "@Library"),
                              !.credentials = CredentialIds(cleaned')]
    /\ step' = "rules"
    /\ UNCHANGED <<text, next, findings, output, failOn, exit>>

\* The path names no file: the text of a missing file is empty.
NoSuchFile ==
    /\ step = "scan"
    /\ text = <<>>
    /\ exit' = 1
    /\ step' = "done"
    /\ UNCHANGED <<text, cleaned, lists, next, findings, output, failOn>>

--------------------------------------------------------------------------------
(* rules.py and analyzer.py                                                    *)

Categories == {"manual", "review", "auto", "drop"}

Rule(id, of, category, once) == [id |-> id, of |-> of, category |-> category, once |-> once]

Rules ==
    <<Rule("shared-library", {"@Library"}, "manual", TRUE),
      Rule("stage", {"stage("}, "auto", FALSE),
      Rule("credentials-helper", HelperTokens, "review", FALSE),
      Rule("credentials-id", IdTokens, "review", FALSE),
      Rule("input-gate", {"input"}, "manual", FALSE),
      Rule("timestamps", {"timestamps"}, "drop", FALSE)>>

LibraryRule == Rule("shared-library-step", {"deployHelm"}, "manual", TRUE)
KnownSteps == {"stage(", "input", "timestamps", "httpRequest"}
PluginSteps == {"timestamps", "httpRequest"}

\* The first match on the line gives the detail.
Detail(s, tokens, line) ==
    Captured(s, Min({i \in Matches(s, tokens, InLine) : LineOf(s, i) = line}))

Finding(rule, line, detail) ==
    [line |-> line, rule |-> rule.id, category |-> rule.category, detail |-> detail]

Hits(rule, lines) == IF rule.once /\ lines # {} THEN {Min(lines)} ELSE lines

FindingsOf(rule, s) ==
    {Finding(rule, l, Detail(s, rule.of, l)) : l \in Hits(rule, LinesWith(s, rule.of))}

\* By line and then by rule, the ids being in alphabetical order.
Ids == <<"credentials-helper", "credentials-id", "input-gate", "shared-library",
         "shared-library-step", "stage", "timestamps">>
IdRank(id) == CHOOSE i \in DOMAIN Ids : Ids[i] = id
Key(f) == Len(Ids) * f.line + IdRank(f.rule)
Sorted(S) ==
    LET keys == InOrder({Key(f) : f \in S})
    IN [k \in DOMAIN keys |-> CHOOSE f \in S : Key(f) = keys[k]]

\* One match on a line is one finding, and once is enough for some rules.
ApplyRule ==
    /\ step = "rules"
    /\ findings' = findings \o Sorted(FindingsOf(Rules[next], cleaned))
    /\ next' = next + 1
    /\ step' = IF next = Len(Rules) THEN "steps" ELSE "rules"
    /\ UNCHANGED <<text, cleaned, lists, output, failOn, exit>>

\* A call nobody knows and the file does not define comes from the shared library.
LibraryCalls(s) ==
    {t \in ToSet(s) \cap Calls : t \notin KnownSteps /\ ~Contains(s, "def deployHelm")}

CallsInOrder == <<"deployHelm", "httpRequest", "input", "stage(", "timestamps">>
Alphabetical(calls) == Picked(CallsInOrder, {i \in DOMAIN CallsInOrder : CallsInOrder[i] \in calls})

LibrarySteps ==
    /\ step = "steps"
    /\ findings' = Sorted(ToSet(findings) \cup
           {Finding(LibraryRule, Min(LinesWith(cleaned, {name})), name) :
               name \in LibraryCalls(cleaned)})
    /\ lists' = [lists EXCEPT
           !.librarySteps = Alphabetical(LibraryCalls(cleaned)),
           !.plugins = Alphabetical(ToSet(cleaned) \cap PluginSteps)]
    /\ step' = "render"
    /\ UNCHANGED <<text, cleaned, next, output, failOn, exit>>

--------------------------------------------------------------------------------
(* report.py and cli.py                                                        *)

Summary == [c \in Categories |-> Cardinality({i \in DOMAIN findings : findings[i].category = c})]

\* The findings of a category, with a box each.
Items(category) ==
    LET of == Picked(findings, {i \in DOMAIN findings : findings[i].category = category})
    IN [k \in DOMAIN of |->
           [finding |-> of[k], open |-> category \in {"manual", "review"}]]

\* The lists that are not empty, then the findings.
Parts == <<"stages", "library", "credentials", "plugins">>
Shown(part) ==
    CASE part = "stages" -> lists.stages # <<>>
      [] part = "library" -> lists.library \/ lists.librarySteps # <<>>
      [] part = "credentials" -> lists.credentials # <<>>
      [] part = "plugins" -> lists.plugins # <<>>

Markdown ==
    [sections |-> Picked(Parts, {i \in DOMAIN Parts : Shown(Parts[i])}),
     items |-> Items("manual") \o Items("review") \o Items("auto") \o Items("drop"),
     summary |-> Summary]

Render ==
    /\ step = "render"
    /\ output' = Markdown
    /\ step' = "exit"
    /\ UNCHANGED <<text, cleaned, lists, next, findings, failOn, exit>>

Severity(category) ==
    CASE category = "manual" -> 3
      [] category = "review" -> 2
      [] category = "auto" -> 1
      [] category = "drop" -> 0

\* Mutated form of Reaches: strictly more severe.
ReachesBeyond(f, threshold) == Severity(f.category) > Severity(threshold)
Reaches(f, threshold) == Severity(f.category) >= Severity(threshold)

Exit ==
    /\ step = "exit"
    /\ failOn' \in {"none"} \cup Categories
    /\ exit' = IF failOn' # "none" /\ \E i \in DOMAIN findings : Reaches(findings[i], failOn')
               THEN 2 ELSE 0
    /\ step' = "done"
    /\ UNCHANGED <<text, cleaned, lists, next, findings, output>>

Next == Scan \/ NoSuchFile \/ ApplyRule \/ LibrarySteps \/ Render \/ Exit

Spec == Init /\ [][Next]_vars

--------------------------------------------------------------------------------
(* Properties                                                                  *)

TokenOf(id) ==
    IF id = LibraryRule.id THEN LibraryRule.of
    ELSE (CHOOSE r \in ToSet(Rules) : r.id = id).of

\* The snippet shown with a finding comes from the original text and the line number from the
\* cleaned one: it must show the construct the finding is about and the name in its detail,
\* whatever comments of several lines, shebangs and marks in strings the file has
\* (parser.py:41-47, analyzer.py:25-31).
SnippetShowsConstruct ==
    \A k \in DOMAIN findings :
        LET shown == {text[i] : i \in {j \in DOMAIN text : LineOf(text, j) = findings[k].line}} IN
        /\ shown \cap TokenOf(findings[k].rule) # {}
        /\ findings[k].detail \in shown \cup {""}

\* What Groovy reads as code is reported and what it reads as a comment is not, provided that the
\* marks of the file are marks (MarksAreMarks names the files the patterns misread).  Findings are
\* at the lines of the code, for a construct that is on one line.  The lists name the stages in
\* order, a secret to create once however often, in whichever of the two ways and over how many
\* lines it is named, every plugin step, and a step of the library only when the file does not
\* define it (parser.py:39-74, analyzer.py:19-64).
ReportIsTheCode ==
    LET code == CodeAtItsLine(text)
        fromLibrary == Contains(code, "deployHelm") /\ ~Contains(code, "def deployHelm")
        names(tokens) == {Captured(code, i) : i \in {j \in DOMAIN code : code[j] \in tokens}}
    IN step = "done" /\ exit # 1 /\ MarksAreMarks(text) =>
        /\ ToSet(findings) =
               (UNION {FindingsOf(r, code) : r \in ToSet(Rules)})
               \cup {Finding(LibraryRule, l, "deployHelm") : l \in
                       IF fromLibrary THEN Hits(LibraryRule, LinesWith(code, {"deployHelm"})) ELSE {}}
        /\ lists.stages = Captures(code, {"stage("}) /\ ToSet(lists.stages) = names({"stage("})
        /\ ToSet(lists.credentials) = names(Secrets)
        /\ IsInjective(lists.credentials)
        /\ ToSet(lists.plugins) = ToSet(code) \cap PluginSteps
        /\ lists.library <=> Contains(code, "@Library")
        /\ lists.librarySteps # <<>> <=> fromLibrary

\* A secret is listed from the joined lines and reported from single ones, and a rule sees one
\* match of a line.  Still every secret on the list has an open box on a line that shows its name,
\* unless a mention of it runs over a line end, which no rule sees (a construct split across lines
\* can be missed, the README of the tool says); and every secret a box names is on the list
\* (parser.py:18-19, 62-67; analyzer.py:21-25).
SecretsAreCovered ==
    LET boxed(id) == \E f \in ToSet(findings) :
                        /\ f.category = "review"
                        /\ \E i \in DOMAIN text : text[i] = id /\ LineOf(text, i) = f.line
        split(id) == \E i \in Matches(cleaned, Secrets, InText) \ Matches(cleaned, Secrets, InLine) :
                        Captured(cleaned, i) = id
    IN step = "done" =>
        /\ \A id \in ToSet(lists.credentials) : boxed(id) \/ split(id)
        /\ \A f \in ToSet(findings) :
               f.rule \in {"credentials-helper", "credentials-id"} => Contains(lists.credentials, f.detail)

\* Every finding has its box, the counts at the top are those of the boxes, and the exit code,
\* which looks at the findings again in another file, agrees with what a reader of the checklist
\* sees: --fail-on review fails exactly when a box is open, --fail-on drop when there is one
\* (report.py:26-31, 65-79; cli.py:33, 54-57).
ExitAgreesWithBoxes ==
    LET open == Cardinality({i \in DOMAIN output.items : output.items[i].open}) IN
    step = "done" /\ exit # 1 =>
        /\ Len(output.items) = Len(findings)
        /\ {output.items[i].finding : i \in DOMAIN output.items} = ToSet(findings)
        /\ output.summary["manual"] + output.summary["review"] = open
        /\ output.summary["auto"] + output.summary["drop"] = Len(output.items) - open
        /\ failOn = "review" => (exit = 2 <=> open > 0)
        /\ failOn = "manual" /\ exit = 2 => open > 0
        /\ failOn = "drop" => (exit = 2 <=> output.items # <<>>)
================================================================================
