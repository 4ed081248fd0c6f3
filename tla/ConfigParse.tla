----------------------------- MODULE ConfigParse -----------------------------
(***************************************************************************)
(* include/file_parser.h and src/app_config.cpp: LoadAppConfig registers   *)
(* the parameters with their defaults and param_parse_txt reads the file   *)
(* over them, line by line and, for every line, parameter by parameter.    *)
(*                                                                         *)
(* The parser looks for the name of a parameter anywhere in the line.  A   *)
(* line is modelled by its mentions: what it says is name=text of, first   *)
(* the assignment it is there for, then those in the comment behind it.    *)
(* Storing a value puts a terminator behind it, which hides the mentions   *)
(* that follow.  A number is stored as an unsigned long, twice the size of *)
(* the field: the parameters beside it in AppConfig are overwritten with   *)
(* the upper half, which is zero for the numbers considered here.          *)
(*                                                                         *)
(* No parameter of the application is mandatory.  An unquoted string is    *)
(* taken to have no quote behind it, and a missing value no comment.       *)
(***************************************************************************)
EXTENDS Integers, Sequences

CONSTANTS Params,    \* the names, in the order LoadAppConfig registers them
          Type,      \* of each name: "bool", "uint" or "str"
          Default,
          Beside,    \* the parameters in the four bytes behind each uint's own
          Numerals,  \* texts strtoul reads to their end
          Quoted,    \* texts in quotes
          Files      \* the files, as sequences of lines

Names == {Params[k] : k \in 1..Len(Params)}

Truths == {"1", "true", "yes", "si"}
Falsities == {"0", "false", "no"}

ValuesOf(p) == CASE Type[p] = "bool" -> {"true", "false"}
                 [] Type[p] = "uint" -> Numerals \cup {"0"}
                 [] Type[p] = "str" -> Quoted \cup {""}

Line == [commented : BOOLEAN,  \* '#', a blank or the end of the line comes first
         mentions : Seq([name : Names, text : STRING]),
         newline : BOOLEAN]    \* the last line of a file may lack it

ASSUME ParamsAssumption ==
    /\ Params \in Seq(STRING)
    /\ \A j, k \in 1..Len(Params) : Params[j] = Params[k] => j = k
    /\ Type \in [Names -> {"bool", "uint", "str"}]
    /\ DOMAIN Default = Names /\ \A p \in Names : Default[p] \in ValuesOf(p)
    /\ Beside \in [Names -> SUBSET Names]
    /\ \A p \in Names : p \notin Beside[p]
    /\ \A p \in Names : Type[p] # "uint" => Beside[p] = {}
ASSUME TextsAssumption == /\ Numerals \subseteq STRING \ {""}
                          /\ Quoted \subseteq STRING
ASSUME FilesAssumption == Files \subseteq Seq(Line)

VARIABLES pc,
          file,
          n,      \* lines read
          i,      \* the parameter that is looked for, in registration order
          cut,    \* mentions of the line that no terminator hides
          found,  \* some parameter has been found
          config  \* what the parameters' ref point to

vars == <<pc, file, n, i, cut, found, config>>

mentions == file[n].mentions

Init == /\ file \in Files
        /\ pc = "fgets"
        /\ n = 0 /\ i = 1 /\ cut = 0
        /\ found = FALSE
        /\ config = Default

-----------------------------------------------------------------------------
(* param_parse_txt. *)

Fgets == /\ pc = "fgets" /\ n < Len(file)
         /\ n' = n + 1
         /\ i' = 1
         /\ IF file[n'].commented
            THEN UNCHANGED <<pc, cut>>
            ELSE pc' = "params" /\ cut' = Len(file[n'].mentions)
         /\ UNCHANGED <<file, found, config>>

\* strstr finds the first mention that is not hidden.
Mentioned(p, k) == /\ k \in 1..cut
                   /\ mentions[k].name = p
                   /\ \A j \in 1..(k - 1) : mentions[j].name # p

\* The end of the value: the closing quote, or a blank or newline behind it.
Terminated(line, k) ==
    IF Type[line.mentions[k].name] = "str" THEN line.mentions[k].text \in Quoted
    ELSE k < Len(line.mentions) \/ line.newline

\* Nothing at all is the number 0.
Readable(p, text) == CASE Type[p] = "bool" -> text \in Truths \cup Falsities
                       [] Type[p] = "uint" -> text \in Numerals \cup {""}
                       [] Type[p] = "str" -> TRUE

Value(p, text) == CASE Type[p] = "bool" -> (IF text \in Truths THEN "true" ELSE "false")
                    [] Type[p] = "uint" -> (IF text = "" THEN "0" ELSE text)
                    [] Type[p] = "str" -> text

Zero(p) == CASE Type[p] = "bool" -> "false"
             [] Type[p] = "uint" -> "0"
             [] Type[p] = "str" -> ""

Stored(p, text) == [q \in Names |-> IF q = p THEN Value(p, text)
                                    ELSE IF q \in Beside[p] THEN Zero(q)
                                    ELSE config[q]]

\* The for loop over the parameters.
NotMentioned == /\ pc = "params" /\ i <= Len(Params)
                /\ \A k \in 1..cut : mentions[k].name # Params[i]
                /\ i' = i + 1
                /\ UNCHANGED <<pc, file, n, cut, found, config>>

\* A value without an end is passed over, with the rest of the line.
Unterminated == /\ pc = "params" /\ i <= Len(Params)
                /\ \E k \in 1..cut : /\ Mentioned(Params[i], k)
                                     /\ ~Terminated(file[n], k)
                /\ found' = TRUE
                /\ pc' = "fgets"
                /\ UNCHANGED <<file, n, i, cut, config>>

MalformedPassedOver ==
             /\ pc = "params" /\ i <= Len(Params)
             /\ \E k \in 1..cut : /\ Mentioned(Params[i], k)
                                  /\ Terminated(file[n], k)
                                  /\ ~Readable(Params[i], mentions[k].text)
             /\ found' = TRUE
             /\ i' = i + 1
             /\ UNCHANGED <<pc, file, n, cut, config>>

Malformed == /\ pc = "params" /\ i <= Len(Params)
             /\ \E k \in 1..cut : /\ Mentioned(Params[i], k)
                                  /\ Terminated(file[n], k)
                                  /\ ~Readable(Params[i], mentions[k].text)
             /\ found' = TRUE
             /\ pc' = "failed"
             /\ UNCHANGED <<file, n, i, cut, config>>

StoreIfDefault ==
         /\ pc = "params" /\ i <= Len(Params)
         /\ \E k \in 1..cut :
              /\ Mentioned(Params[i], k)
              /\ Terminated(file[n], k)
              /\ Readable(Params[i], mentions[k].text)
              /\ config' = IF config[Params[i]] = Default[Params[i]]
                           THEN Stored(Params[i], mentions[k].text) ELSE config
              /\ cut' = k
         /\ found' = TRUE
         /\ i' = i + 1
         /\ UNCHANGED <<pc, file, n>>

Store == /\ pc = "params" /\ i <= Len(Params)
         /\ \E k \in 1..cut :
              /\ Mentioned(Params[i], k)
              /\ Terminated(file[n], k)
              /\ Readable(Params[i], mentions[k].text)
              /\ config' = Stored(Params[i], mentions[k].text)
              /\ cut' = k
         /\ found' = TRUE
         /\ i' = i + 1
         /\ UNCHANGED <<pc, file, n>>

LineDone == /\ pc = "params" /\ i > Len(Params)
            /\ pc' = "fgets"
            /\ UNCHANGED <<file, n, i, cut, found, config>>

\* A file that names no parameter is refused, although none is mandatory.
EndOfFile == /\ pc = "fgets" /\ n = Len(file)
             /\ pc' = IF found THEN "done" ELSE "failed"
             /\ UNCHANGED <<file, n, i, cut, found, config>>

ParamLoop == NotMentioned \/ Unterminated \/ Malformed \/ Store \/ LineDone

Next == Fgets \/ ParamLoop \/ EndOfFile

Spec == Init /\ [][Next]_vars

-----------------------------------------------------------------------------
(* Correctness. *)

\* The type invariant: in particular every parameter has a value of its type.
TypeOK == /\ pc \in {"fgets", "params", "done", "failed"}
          /\ file \in Seq(Line)
          /\ n \in 0..Len(file) /\ (pc = "params" => n > 0)
          /\ i \in 1..(Len(Params) + 1)
          /\ cut \in Nat
          /\ pc = "params" => cut <= Len(mentions)
          /\ found \in BOOLEAN
          /\ DOMAIN config = Names /\ \A p \in Names : config[p] \in ValuesOf(p)

Name(m, k) == file[m].mentions[k].name
Text(m, k) == file[m].mentions[k].text

Rank(p) == CHOOSE r \in 1..Len(Params) : Params[r] = p

\* In line m, mention k stands before every other mention of its parameter and of those
\* registered before it: nothing hides it until its parameter's turn.
Leads(m, k) == \A j \in 1..(k - 1) : Rank(Name(m, j)) > Rank(Name(m, k))

\* The parser gets to mention k: it takes those that lead from the last to the first,
\* up to one without an end.
Reaches(m, k) ==
    /\ ~file[m].commented /\ Leads(m, k)
    /\ \A l \in (k + 1)..Len(file[m].mentions) : Leads(m, l) => Terminated(file[m], l)

Takes(m, k) == Reaches(m, k) /\ Terminated(file[m], k)

\* The value stored for mention j of line l comes after that for mention k of line m.
Later(l, j, m, k) == l > m \/ (l = m /\ j < k)

\* What is stored for q is stored over p.
Covers(q, p) == q = p \/ p \in Beside[q]

\* Mention k of line m is the last one whose value is stored over p.
Decides(m, k, p) ==
    /\ Takes(m, k) /\ Covers(Name(m, k), p)
    /\ \A l \in 1..Len(file) : \A j \in 1..Len(file[l].mentions) :
         Takes(l, j) /\ Later(l, j, m, k) => ~Covers(Name(l, j), p)

\* An accepted file is read as it is written, in comments too and with the neighbour of
\* a number: the last value that covers a parameter decides, it is the parameter's own
\* or the zero upper half of the one before it, and a default survives without one.
ReadAsWritten ==
    pc = "done" =>
      \A p \in Names :
        /\ \A m \in 1..Len(file) : \A k \in 1..Len(file[m].mentions) :
             Decides(m, k, p) => config[p] = IF Name(m, k) = p THEN Value(p, Text(m, k))
                                             ELSE Zero(p)
        /\ (\A m \in 1..Len(file) : \A k \in 1..Len(file[m].mentions) :
              Takes(m, k) => ~Covers(Name(m, k), p)) => config[p] = Default[p]

\* Line m has a number or a truth value that is taken and cannot be read.
Unreadable(m) == \E k \in 1..Len(file[m].mentions) :
                   Takes(m, k) /\ ~Readable(Name(m, k), Text(m, k))

NamesNothing(m) == file[m].commented \/ Len(file[m].mentions) = 0

\* A file is refused if and only if a number or a truth value in it is taken and cannot
\* be read, or it names no parameter.  One that cannot be read is passed over in a file
\* that is accepted if it has no end, as on a last line without a newline, or if the
\* parser does not get to it: behind one that a terminator cuts off, or before one
\* without an end.
RefusedIfUnreadable ==
    pc \in {"done", "failed"} =>
      (pc = "failed" <=> \/ \E m \in 1..Len(file) : Unreadable(m)
                         \/ \A m \in 1..Len(file) : NamesNothing(m))
=============================================================================
