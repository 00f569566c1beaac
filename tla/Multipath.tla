------------------------------ MODULE Multipath ------------------------------
(***************************************************************************)
(* kdumptool multipath (src/kdumptool/multipath.cc): copies a              *)
(* multipath.conf and adds to its section blacklist the line that excludes *)
(* every device, to blacklist_exceptions the devices the dump needs.       *)
(*                                                                         *)
(* A text is a sequence of characters; a word, like the name of a section, *)
(* is one character.                                                       *)
(***************************************************************************)
EXTENDS Naturals, Sequences, SequencesExt

Feed == "\n"
Space == " "
Quote == "\""
Open == "{"
Close == "}"
Comment == "#"
Special == {Feed, Space, Quote, Open, Close, Comment}

Map(op(_), text) == [i \in DOMAIN text |-> op(text[i])]

(* ---- readline: what is left without a line feed is no line any more ---- *)

Readlines(text) ==
    FoldLeft(LAMBDA st, c : IF c = Feed
                            THEN [lines |-> Append(st.lines, Append(st.rest, Feed)), rest |-> <<>>]
                            ELSE [st EXCEPT !.rest = Append(@, c)],
             [lines |-> <<>>, rest |-> <<>>], text)

(* ---- the tokens of a line ---- *)

Tokens(line) ==
    LET flush(st) == IF st.word = <<>> THEN st
                     ELSE [st EXCEPT !.tokens = Append(@, st.word), !.word = <<>>]
        push(st, token) == [flush(st) EXCEPT !.tokens = Append(@, token)]
        step(st, c) ==
            CASE st.end -> st
              [] c = Quote -> [push(st, <<c>>) EXCEPT !.string = ~@]
              \* white space before a token is skipped also in a string
              [] c \in {Space, Feed} /\ (~st.string \/ st.word = <<>>) -> flush(st)
              [] c = Comment /\ (~st.string \/ st.word = <<>>) -> [flush(st) EXCEPT !.end = TRUE]
              [] c \in {Open, Close} /\ ~st.string -> push(st, <<c>>)
              [] OTHER -> [st EXCEPT !.word = Append(@, c)]
    IN  flush(FoldLeft(step, [tokens |-> <<>>, word |-> <<>>, string |-> FALSE, end |-> FALSE],
                       line)).tokens

(* ---- class AddBlacklistHandler ---- *)

\* wwid ".*"
Everything == <<"wwid", Space, Quote, "all", Quote, Feed>>

Exceptions(options) == Map(LAMBDA o : o \o <<Feed>>, options)

Added(name, options) == IF name = "blacklist" THEN <<Everything>> ELSE Exceptions(options)

Names == {"blacklist", "blacklist_exceptions"}

Section(line) == LET tokens == Tokens(line)
                 IN  IF tokens # <<>> /\ tokens[1] \in {<<n>> : n \in Names} THEN {tokens[1][1]} ELSE {}

\* altered: the lines come before the one that begins the section
ProcessBefore(line, options) ==
    FlattenSeq(Map(LAMBDA n : Added(n, options), SetToSeq(Section(line)))) \o <<line>>

\* the lines are inserted after the one that begins the section
Process(line, options) ==
    <<line>> \o FlattenSeq(Map(LAMBDA n : Added(n, options), SetToSeq(Section(line))))

\* at the start what has no section yet
Missing(lines, options) ==
    LET done == UNION {Section(lines[i]) : i \in DOMAIN lines}
        new(name) == IF name \in done THEN <<>>
                     ELSE <<<<name, Space, Open, Feed>>>> \o Added(name, options) \o <<<<Close, Feed>>>>
    IN  new("blacklist") \o new("blacklist_exceptions")

Execute(text, options) ==
    LET read == Readlines(text)
    IN  FlattenSeq(Missing(read.lines, options)
                     \o FlattenSeq(Map(LAMBDA l : Process(l, options), read.lines))
                     \o <<read.rest>>)

(* ---- how multipath reads the file ---- *)

\* the contents of the sections: the tokens of each line that stands in one
Entries(text) ==
    LET read  == Readlines(text)
        lines == Map(Tokens, read.lines) \o <<Tokens(read.rest)>>
        step(st, tokens) ==
            IF tokens = <<>> THEN st
            ELSE IF st.section = <<>> THEN [st EXCEPT !.section = tokens[1]]
            ELSE IF tokens[1] = <<Close>> THEN [st EXCEPT !.section = <<>>]
            ELSE [st EXCEPT !.found = @ \cup {<<st.section, tokens>>}]
    IN  FoldLeft(step, [section |-> <<>>, found |-> {}], lines).found

\* one line begins a section, one ends it; the last one may have no line feed
WellFormed(text) ==
    LET read  == Readlines(text)
        lines == Map(Tokens, read.lines)
        step(st, tokens) ==
            IF tokens = <<>> THEN st
            ELSE IF Last(tokens) = <<Open>> THEN
                 IF st = "outside" /\ Len(tokens) = 2 /\ tokens[1] # <<Open>> THEN "inside" ELSE "wrong"
            ELSE IF tokens = <<<<Close>>>> THEN (IF st = "inside" THEN "outside" ELSE "wrong")
            ELSE IF st = "inside" /\ ~Contains(tokens, <<Open>>) /\ ~Contains(tokens, <<Close>>)
                 THEN st ELSE "wrong"
        last == FoldLeft(step, "outside", lines)
    IN  <<last, Tokens(read.rest)>> \in {<<"outside", <<>>>>, <<"inside", <<<<Close>>>>>>}

(***************************************************************************)
(* The file means the same as before, and blacklist and                    *)
(* blacklist_exceptions have the added lines, whether they were there or   *)
(* not, in any order and also more than once (multipath.cc:109-122).  It   *)
(* fails for a section that is opened and closed in one line, where the    *)
(* lines come after it (multipath.cc:185).                                 *)
(***************************************************************************)
KeepsFile(text, options) ==
    WellFormed(text) =>
        Entries(Execute(text, options))
          = Entries(text)
              \cup {<<<<"blacklist">>, Tokens(Everything)>>}
              \cup {<<<<"blacklist_exceptions">>, Tokens(options[i])>> : i \in DOMAIN options}
=============================================================================
