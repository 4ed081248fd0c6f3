-------------------------- MODULE ConfigParseProofs --------------------------
(***************************************************************************)
(* Theorems about ConfigParse, for every list of parameters, every layout  *)
(* of AppConfig and every set of files.                                    *)
(***************************************************************************)
EXTENDS ConfigParse, TLAPS

Place(m, k) == m \in 1..Len(file) /\ k \in 1..Len(file[m].mentions)

\* The turn of mention k's parameter on line m has been.
Past(m, k) == m < n \/ (m = n /\ (pc = "params" => Rank(Name(m, k)) < i))

\* A mention that the parser takes, and has taken by now.
TakenYet(m, k) == Place(m, k) /\ Takes(m, k) /\ Past(m, k)

\* While a line is worked on, the mentions that lead and whose turn is to come are
\* visible, no other but the last visible one had its turn, and those that lead and had
\* it have an end and could be read.
CutInv ==
    pc = "params" =>
      /\ ~file[n].commented
      /\ \A k \in 1..Len(mentions) :
           Leads(n, k) => IF Rank(Name(n, k)) >= i THEN k <= cut
                          ELSE Terminated(file[n], k) /\ Readable(Name(n, k), Text(n, k))
      /\ \A j \in 1..(cut - 1) : Rank(Name(n, j)) >= i

\* A parameter has been found if a line named one that had its turn.
FoundInv ==
    /\ found => \E m \in 1..n : ~NamesNothing(m)
    /\ \A m \in 1..n : ~NamesNothing(m) /\ Past(m, 1) => found

\* ReadAsWritten for what has been taken.
DecidesYet(m, k, p) ==
    /\ TakenYet(m, k) /\ Covers(Name(m, k), p)
    /\ \A l, j : TakenYet(l, j) /\ Later(l, j, m, k) => ~Covers(Name(l, j), p)
ReadInv ==
    pc # "failed" =>
      \A p \in Names :
        /\ \A m, k : DecidesYet(m, k, p) =>
                       config[p] = IF Name(m, k) = p THEN Value(p, Text(m, k)) ELSE Zero(p)
        /\ (\A m, k : TakenYet(m, k) => ~Covers(Name(m, k), p)) => config[p] = Default[p]

\* RefusedIfUnreadable for what has been taken.
RefusedInv ==
    /\ pc # "failed" => \A m, k : TakenYet(m, k) => Readable(Name(m, k), Text(m, k))
    /\ pc = "failed" => \/ \E m \in 1..Len(file) : Unreadable(m)
                        \/ n = Len(file) /\ ~found
    /\ pc = "done" => n = Len(file) /\ found

\* The inductive invariant.
IInv == TypeOK /\ CutInv /\ FoundInv /\ ReadInv /\ RefusedInv

-----------------------------------------------------------------------------
(* The operators. *)

\* An element of a sequence is one of the sequence's set.
LEMMA ElementOf ==
  ASSUME NEW S, NEW s \in Seq(S), NEW k \in 1..Len(s)
  PROVE  s[k] \in S
  OBVIOUS

\* The lines of a file have their types.
LEMMA LineType ==
  ASSUME TypeOK, NEW m \in 1..Len(file)
  PROVE  /\ file[m] \in Line
         /\ file[m].commented \in BOOLEAN /\ file[m].newline \in BOOLEAN
         /\ file[m].mentions \in Seq([name : Names, text : STRING])
         /\ \A k \in 1..Len(file[m].mentions) : /\ file[m].mentions[k].name \in Names
                                                /\ file[m].mentions[k].text \in STRING
<1>1. file[m] \in Line
  BY DEF TypeOK
<1>2. file[m].mentions \in Seq([name : Names, text : STRING])
  BY <1>1 DEF Line
<1>3. \A k \in 1..Len(file[m].mentions) : file[m].mentions[k] \in [name : Names, text : STRING]
  BY <1>2, ElementOf
<1> QED
  BY <1>1, <1>2, <1>3 DEF Line

\* What is stored is a value of the parameter's type.
LEMMA ValueType ==
  ASSUME NEW p \in Names, NEW text \in STRING, Readable(p, text),
         Type[p] = "str" => text \in Quoted
  PROVE  Value(p, text) \in ValuesOf(p)
<1>1. Type[p] \in {"bool", "uint", "str"}
  BY ParamsAssumption
<1>2. CASE Type[p] = "bool"
  BY <1>2 DEF Value, ValuesOf
<1>3. CASE Type[p] = "uint"
  BY <1>3 DEF Value, ValuesOf, Readable
<1>4. CASE Type[p] = "str"
  BY <1>4 DEF Value, ValuesOf
<1> QED
  BY <1>1, <1>2, <1>3, <1>4

\* So is what the neighbours are overwritten with.
LEMMA ZeroType ==
  ASSUME NEW p \in Names
  PROVE  Zero(p) \in ValuesOf(p)
<1>1. Type[p] \in {"bool", "uint", "str"}
  BY ParamsAssumption
<1> QED
  BY <1>1 DEF Zero, ValuesOf

\* A parameter's rank is where it is registered.
LEMMA RankOf ==
  /\ \A p \in Names : Rank(p) \in 1..Len(Params) /\ Params[Rank(p)] = p
  /\ \A r \in 1..Len(Params) : Params[r] \in Names /\ Rank(Params[r]) = r
<1>1. ASSUME NEW p \in Names
      PROVE  Rank(p) \in 1..Len(Params) /\ Params[Rank(p)] = p
  <2>1. \E r \in 1..Len(Params) : Params[r] = p
    BY DEF Names
  <2> QED
    BY <2>1 DEF Rank
<1>2. ASSUME NEW r \in 1..Len(Params)
      PROVE  Params[r] \in Names /\ Rank(Params[r]) = r
  <2>1. Params[r] \in Names
    BY DEF Names
  <2> QED
    BY <1>1, <2>1, ParamsAssumption
<1> QED
  BY <1>1, <1>2

\* Every mention has a rank.
LEMMA MentionRank ==
  ASSUME TypeOK, NEW m, NEW k, Place(m, k)
  PROVE  Name(m, k) \in Names /\ Text(m, k) \in STRING /\ Rank(Name(m, k)) \in 1..Len(Params)
  BY LineType, RankOf DEF Place, Name, Text

\* In particular those of the line that is worked on.
LEMMA LineRanks ==
  ASSUME TypeOK, n \in 1..Len(file)
  PROVE  \A k \in 1..Len(mentions) : /\ Place(n, k) /\ Name(n, k) \in Names
                                     /\ Rank(Name(n, k)) \in Nat
<1> SUFFICES ASSUME NEW k \in 1..Len(mentions)
             PROVE  Place(n, k) /\ Name(n, k) \in Names /\ Rank(Name(n, k)) \in Nat
  OBVIOUS
<1>1. Place(n, k)
  BY DEF Place, mentions
<1>2. Name(n, k) \in Names /\ Rank(Name(n, k)) \in 1..Len(Params)
  BY <1>1, MentionRank
<1>3. Len(Params) \in Nat
  BY ParamsAssumption
<1> QED
  BY <1>1, <1>2, <1>3

-----------------------------------------------------------------------------
(* The invariant is inductive. *)

LEMMA InitInv == Init => IInv
<1> SUFFICES ASSUME Init PROVE IInv
  OBVIOUS
<1>1. Len(Params) \in Nat /\ Len(file) \in Nat /\ file \in Seq(Line)
  BY ParamsAssumption, FilesAssumption DEF Init
<1>2. TypeOK
  <2>1. n \in 0..Len(file) /\ i \in 1..(Len(Params) + 1) /\ cut \in Nat
    BY <1>1 DEF Init
  <2>2. DOMAIN config = Names /\ \A p \in Names : config[p] \in ValuesOf(p)
    BY ParamsAssumption DEF Init
  <2> QED
    BY <1>1, <2>1, <2>2 DEF Init, TypeOK
<1>3. \A m, k : ~TakenYet(m, k)
  BY <1>1 DEF Init, TakenYet, Past, Place
<1>4. ReadInv /\ RefusedInv
  BY <1>3 DEF Init, ReadInv, DecidesYet, RefusedInv
<1> QED
  BY <1>2, <1>4 DEF IInv, CutInv, FoundInv, Init

\* Which mentions are taken is a question of the file.
LEMMA TakesFile ==
  ASSUME file' = file
  PROVE  /\ \A m, k : Name(m, k)' = Name(m, k) /\ Text(m, k)' = Text(m, k)
         /\ \A m, k : /\ Place(m, k)' <=> Place(m, k)
                      /\ Leads(m, k)' <=> Leads(m, k)
                      /\ Takes(m, k)' <=> Takes(m, k)
         /\ \A m : NamesNothing(m)' <=> NamesNothing(m)
         /\ \A m : Unreadable(m)' <=> Unreadable(m)
  BY DEF Name, Text, Place, Leads, Takes, Reaches, NamesNothing, Unreadable

\* A step that takes nothing more and stores nothing keeps what is said of what has been
\* taken.
LEMMA NothingRead ==
  ASSUME ReadInv, RefusedInv, pc # "failed", file' = file, config' = config,
         \A m, k : TakenYet(m, k)' <=> TakenYet(m, k)
  PROVE  /\ ReadInv'
         /\ \A m, k : TakenYet(m, k)' => Readable(Name(m, k), Text(m, k))'
<1>1. \A m, k : Name(m, k)' = Name(m, k) /\ Text(m, k)' = Text(m, k)
  BY TakesFile
<1>2. \A m, k, p : DecidesYet(m, k, p)' <=> DecidesYet(m, k, p)
  BY <1>1 DEF DecidesYet
<1> QED
  BY <1>1, <1>2 DEF ReadInv, RefusedInv

\* What the parameter whose turn it is finds is the mention of it that leads, and all
\* those that lead behind it had their turn.
LEMMA FoundLeads ==
  ASSUME TypeOK, CutInv, pc = "params", i <= Len(Params), NEW k \in 1..cut,
         Mentioned(Params[i], k)
  PROVE  /\ k \in 1..Len(mentions) /\ Place(n, k)
         /\ Name(n, k) = Params[i] /\ Rank(Name(n, k)) = i
         /\ Leads(n, k) /\ Reaches(n, k)
         /\ \A l \in 1..Len(mentions) : Leads(n, l) /\ l # k => Rank(Name(n, l)) # i
         /\ \A l \in 1..Len(mentions) : Leads(n, l) /\ Rank(Name(n, l)) < i => k < l
<1>1. /\ n \in 1..Len(file) /\ i \in 1..Len(Params) /\ cut \in Nat /\ Len(mentions) \in Nat
      /\ k \in 1..Len(mentions)
  BY LineType, ParamsAssumption DEF TypeOK, mentions
<1>2. Place(n, k) /\ Name(n, k) = Params[i] /\ Rank(Name(n, k)) = i
  BY <1>1, RankOf DEF Place, Name, mentions, Mentioned
<1>3. \A l \in 1..Len(mentions) : Name(n, l) \in Names /\ Rank(Name(n, l)) \in Nat
  BY <1>1, LineRanks
<1>4. \A j \in 1..(k - 1) : Rank(Name(n, j)) > i
  <2> SUFFICES ASSUME NEW j \in 1..(k - 1) PROVE Rank(Name(n, j)) > i
    OBVIOUS
  <2>1. j \in 1..(cut - 1) /\ j \in 1..Len(mentions)
    BY <1>1
  <2>2. Rank(Name(n, j)) >= i
    BY <2>1 DEF CutInv
  <2>3. Name(n, j) # Params[i]
    BY DEF Mentioned, Name, mentions
  <2>4. Rank(Name(n, j)) # i
    BY <1>3, <2>1, <2>3, RankOf
  <2> QED
    BY <1>1, <1>3, <2>1, <2>2, <2>4
<1>5. Leads(n, k)
  BY <1>2, <1>4 DEF Leads
<1>6. \A l \in 1..Len(mentions) : Leads(n, l) /\ l # k => Rank(Name(n, l)) # i
  BY <1>1, <1>2, <1>3, <1>4 DEF Leads
<1>7. \A l \in 1..Len(mentions) : Leads(n, l) /\ Rank(Name(n, l)) < i => k < l
  BY <1>1, <1>2, <1>3, <1>4
<1>8. ASSUME NEW l \in (k + 1)..Len(file[n].mentions), Leads(n, l)
      PROVE  Terminated(file[n], l)
  <2>1. l \in 1..Len(mentions) /\ k \in 1..(l - 1)
    BY <1>1, <1>8 DEF mentions
  <2>2. i > Rank(Name(n, l))
    BY <1>2, <1>8, <2>1 DEF Leads
  <2>3. ~(Rank(Name(n, l)) >= i)
    BY <1>1, <1>3, <2>1, <2>2
  <2> QED
    BY <1>8, <2>1, <2>3 DEF CutInv
<1> QED
  BY <1>1, <1>2, <1>5, <1>6, <1>7, <1>8 DEF Reaches, CutInv

\* Reading a line.
LEMMA FgetsInv ==
  ASSUME IInv, Fgets
  PROVE  IInv'
<1> USE DEF IInv
<1>1. /\ pc = "fgets" /\ n < Len(file) /\ n' = n + 1 /\ i' = 1
      /\ file' = file /\ found' = found /\ config' = config
      /\ n \in Nat /\ Len(file) \in Nat /\ n' \in 1..Len(file) /\ n' > 0
      /\ pc' = IF file[n'].commented THEN "fgets" ELSE "params"
  BY DEF Fgets, TypeOK
<1>2. /\ file[n'].commented \in BOOLEAN
      /\ Len(file[n'].mentions) \in Nat
  BY <1>1, LineType
<1>3. TypeOK'
  <2>1. i' \in 1..(Len(Params) + 1)
    BY <1>1, ParamsAssumption
  <2>2. CASE file[n'].commented
    BY <1>1, <2>1, <2>2 DEF Fgets, TypeOK
  <2>3. CASE ~file[n'].commented
    <3>1. pc' = "params" /\ cut' = Len(file[n'].mentions)
      BY <2>3 DEF Fgets
    <3> QED
      BY <1>1, <1>2, <2>1, <3>1 DEF TypeOK, mentions
  <2> QED
    BY <2>2, <2>3
<1>4. \A m, k : Place(m, k) => Rank(Name(m, k)) \in Nat /\ Rank(Name(m, k)) >= 1
  BY MentionRank, ParamsAssumption
<1>5. CutInv'
  <2> SUFFICES ASSUME ~file[n'].commented
               PROVE  CutInv'
    BY <1>1 DEF CutInv
  <2>1. cut' = Len(file[n'].mentions)
    BY DEF Fgets
  <2>2. \A k \in 1..Len(file[n'].mentions) : Rank(Name(n', k)) >= 1
    BY <1>1, <1>4 DEF Place
  <2>3. \A m, k : Name(m, k)' = Name(m, k)
    BY <1>1, TakesFile
  <2> QED
    BY <1>1, <1>2, <2>1, <2>2, <2>3 DEF CutInv, mentions
<1>6. \A m, k : TakenYet(m, k)' <=> TakenYet(m, k)
  <2> SUFFICES ASSUME NEW m, NEW k, Place(m, k), Takes(m, k)
               PROVE  Past(m, k)' <=> Past(m, k)
    BY <1>1, TakesFile DEF TakenYet
  <2>1. m \in Nat /\ ~file[m].commented /\ Rank(Name(m, k)) \in Nat /\ Rank(Name(m, k)) >= 1
    BY <1>1, <1>4 DEF Place, Takes, Reaches
  <2>2. Name(m, k)' = Name(m, k)
    BY <1>1, TakesFile
  <2> QED
    BY <1>1, <2>1, <2>2 DEF Past
<1>7. FoundInv'
  <2>1. ASSUME NEW m \in 1..n', ~NamesNothing(m), Past(m, 1)'
        PROVE  found
    <3>1. Place(m, 1) /\ ~file[m].commented /\ m \in 1..Len(file)
      BY <1>1, <2>1, LineType DEF Place, NamesNothing
    <3>2. Name(m, 1)' = Name(m, 1) /\ Rank(Name(m, 1)) \in Nat /\ Rank(Name(m, 1)) >= 1
      BY <1>1, <1>4, <3>1, TakesFile
    <3>3. m \in 1..n
      BY <1>1, <2>1, <3>1, <3>2 DEF Past
    <3>4. Past(m, 1)
      BY <1>1, <3>3 DEF Past
    <3> QED
      BY <2>1, <3>3, <3>4 DEF FoundInv
  <2>2. found => \E m \in 1..n' : ~NamesNothing(m)
    BY <1>1 DEF FoundInv
  <2> QED
    BY <1>1, <2>1, <2>2, TakesFile DEF FoundInv
<1>8. ReadInv' /\ RefusedInv'
  BY <1>1, <1>6, NothingRead DEF RefusedInv
<1> QED
  BY <1>3, <1>5, <1>7, <1>8

\* A parameter that the line does not mention.
LEMMA NotMentionedInv ==
  ASSUME IInv, NotMentioned
  PROVE  IInv'
<1> USE DEF IInv
<1>1. /\ pc = "params" /\ i <= Len(Params) /\ i' = i + 1 /\ i \in Nat \ {0}
      /\ pc' = pc /\ file' = file /\ n' = n /\ cut' = cut /\ found' = found /\ config' = config
      /\ \A k \in 1..cut : Name(n, k) # Params[i]
      /\ n \in 1..Len(file) /\ cut \in Nat /\ Len(mentions) \in Nat /\ cut <= Len(mentions)
  BY LineType DEF NotMentioned, TypeOK, mentions, Name
<1>2. TypeOK'
  BY <1>1, ParamsAssumption DEF TypeOK, mentions
<1>3. \A k \in 1..Len(mentions) : /\ Place(n, k) /\ Name(n, k) \in Names
                                  /\ Rank(Name(n, k)) \in Nat
  BY <1>1, LineRanks
<1>4. \A k \in 1..cut : Rank(Name(n, k)) # i
  BY <1>1, <1>3, RankOf
<1>5. \A k \in 1..Len(mentions) : Leads(n, k) => Rank(Name(n, k)) # i
  BY <1>1, <1>3, <1>4 DEF CutInv
<1>6. \A m, k : /\ Name(m, k)' = Name(m, k) /\ Text(m, k)' = Text(m, k)
                /\ Leads(m, k)' <=> Leads(m, k)
  BY <1>1, TakesFile
<1>7. CutInv'
  <2>1. ASSUME NEW k \in 1..Len(mentions), Leads(n, k)
        PROVE  IF Rank(Name(n, k)) >= i + 1 THEN k <= cut
               ELSE Terminated(file[n], k) /\ Readable(Name(n, k), Text(n, k))
    BY <1>1, <1>3, <1>5, <2>1 DEF CutInv
  <2>2. \A j \in 1..(cut - 1) : Rank(Name(n, j)) >= i + 1
    BY <1>1, <1>3, <1>4 DEF CutInv
  <2>3. ~file[n].commented
    BY <1>1 DEF CutInv
  <2> HIDE DEF IInv
  <2> QED
    BY <1>1, <1>6, <2>1, <2>2, <2>3 DEF CutInv, mentions
<1>8. \A m, k : Place(m, k) /\ Leads(m, k) => (Past(m, k)' <=> Past(m, k))
  BY <1>1, <1>3, <1>5, <1>6 DEF Past, Place, mentions
<1>9. \A m, k : TakenYet(m, k)' <=> TakenYet(m, k)
  BY <1>1, <1>8, TakesFile DEF TakenYet, Takes, Reaches
<1>10. FoundInv'
  <2>1. \A m \in 1..n : ~NamesNothing(m) => Place(m, 1) /\ Leads(m, 1)
    BY <1>1, LineType DEF NamesNothing, Place, Leads
  <2> QED
    BY <1>1, <1>8, <2>1, TakesFile DEF FoundInv
<1>11. ReadInv' /\ RefusedInv'
  BY <1>1, <1>9, NothingRead DEF RefusedInv
<1> QED
  BY <1>2, <1>7, <1>10, <1>11

\* A value without an end: neither it nor any mention before it is taken.
LEMMA UnterminatedInv ==
  ASSUME IInv, Unterminated
  PROVE  IInv'
<1> USE DEF IInv
<1>1. /\ pc = "params" /\ i <= Len(Params) /\ pc' = "fgets" /\ found' = TRUE
      /\ file' = file /\ n' = n /\ i' = i /\ cut' = cut /\ config' = config
      /\ n \in 1..Len(file) /\ Len(mentions) \in Nat /\ i \in Nat
  BY LineType DEF Unterminated, TypeOK, mentions
<1>2. PICK k \in 1..cut : Mentioned(Params[i], k) /\ ~Terminated(file[n], k)
  BY DEF Unterminated
<1>3. /\ k \in 1..Len(mentions) /\ Rank(Name(n, k)) = i /\ Leads(n, k) /\ Place(n, k)
      /\ \A l \in 1..Len(mentions) : Leads(n, l) /\ l # k => Rank(Name(n, l)) # i
  BY <1>1, <1>2, FoundLeads
<1>4. TypeOK' /\ CutInv'
  BY <1>1 DEF TypeOK, CutInv
<1>5. \A l \in 1..Len(mentions) : Rank(Name(n, l)) \in Nat
  BY <1>1, LineRanks
<1>6. \A l \in 1..Len(mentions) : Takes(n, l) => Rank(Name(n, l)) < i
  <2> SUFFICES ASSUME NEW l \in 1..Len(mentions), Takes(n, l), ~(Rank(Name(n, l)) < i)
               PROVE  FALSE
    OBVIOUS
  <2>1. l # k /\ Leads(n, l)
    BY <1>2 DEF Takes, Reaches
  <2>2. Rank(Name(n, l)) > i
    BY <1>1, <1>3, <1>5, <2>1
  <2>3. ~(k \in 1..(l - 1))
    BY <1>1, <1>3, <1>5, <2>1, <2>2 DEF Leads
  <2>4. k \in (l + 1)..Len(file[n].mentions)
    BY <1>1, <1>3, <2>1, <2>3 DEF mentions
  <2> QED
    BY <1>2, <1>3, <2>4 DEF Takes, Reaches
<1>7. \A m, l : TakenYet(m, l)' <=> TakenYet(m, l)
  <2>1. \A m, l : Place(m, l) /\ Takes(m, l) => (Past(m, l)' <=> Past(m, l))
    BY <1>1, <1>6 DEF Past, Place, mentions
  <2> QED
    BY <1>1, <2>1, TakesFile DEF TakenYet
<1>8. FoundInv'
  <2>1. ~NamesNothing(n)
    BY <1>1, <1>3 DEF NamesNothing, CutInv, mentions
  <2> QED
    BY <1>1, <2>1, TakesFile DEF FoundInv
<1>9. ReadInv' /\ RefusedInv'
  BY <1>1, <1>7, NothingRead DEF RefusedInv
<1> QED
  BY <1>4, <1>8, <1>9

\* A value that cannot be read: it is taken, and ends the parse.
LEMMA MalformedInv ==
  ASSUME IInv, Malformed
  PROVE  IInv'
<1> USE DEF IInv
<1>1. /\ pc = "params" /\ i <= Len(Params) /\ pc' = "failed" /\ found' = TRUE
      /\ file' = file /\ n' = n /\ i' = i /\ cut' = cut /\ config' = config
      /\ n \in 1..Len(file) /\ Len(mentions) \in Nat
  BY LineType DEF Malformed, TypeOK, mentions
<1>2. PICK k \in 1..cut : /\ Mentioned(Params[i], k) /\ Terminated(file[n], k)
                          /\ ~Readable(Params[i], mentions[k].text)
  BY DEF Malformed
<1>3. k \in 1..Len(mentions) /\ Name(n, k) = Params[i] /\ Takes(n, k)
  BY <1>1, <1>2, FoundLeads DEF Takes
<1>4. Unreadable(n)
  BY <1>2, <1>3 DEF Unreadable, Text, mentions
<1>5. TypeOK' /\ CutInv' /\ ReadInv'
  BY <1>1 DEF TypeOK, CutInv, ReadInv
<1>6. FoundInv'
  <2>1. ~NamesNothing(n)
    BY <1>1, <1>3 DEF NamesNothing, CutInv, mentions
  <2> QED
    BY <1>1, <2>1, TakesFile DEF FoundInv
<1>7. RefusedInv'
  BY <1>1, <1>4, TakesFile DEF RefusedInv
<1> QED
  BY <1>5, <1>6, <1>7

\* The end of a line: every parameter had its turn.
LEMMA LineDoneInv ==
  ASSUME IInv, LineDone
  PROVE  IInv'
<1> USE DEF IInv
<1>1. /\ pc = "params" /\ i = Len(Params) + 1 /\ Len(Params) \in Nat /\ pc' = "fgets"
      /\ file' = file /\ n' = n /\ i' = i /\ cut' = cut /\ found' = found /\ config' = config
      /\ n \in 1..Len(file)
  BY ParamsAssumption DEF LineDone, TypeOK
<1>2. TypeOK' /\ CutInv'
  BY <1>1 DEF TypeOK, CutInv
<1>3. \A m, k : Place(m, k) => (Past(m, k)' <=> Past(m, k))
  <2>1. \A m, k : Place(m, k) => Rank(Name(m, k)) \in Nat /\ Rank(Name(m, k)) <= Len(Params)
    BY MentionRank, <1>1
  <2> QED
    BY <1>1, <2>1 DEF Past
<1>4. \A m, k : TakenYet(m, k)' <=> TakenYet(m, k)
  BY <1>1, <1>3, TakesFile DEF TakenYet
<1>5. FoundInv'
  <2>1. \A m \in 1..n : ~NamesNothing(m) => Place(m, 1)
    BY <1>1, LineType DEF NamesNothing, Place
  <2> QED
    BY <1>1, <1>3, <2>1, TakesFile DEF FoundInv
<1>6. ReadInv' /\ RefusedInv'
  BY <1>1, <1>4, NothingRead DEF RefusedInv
<1> QED
  BY <1>2, <1>5, <1>6

\* The end of the file.
LEMMA EndOfFileInv ==
  ASSUME IInv, EndOfFile
  PROVE  IInv'
<1> USE DEF IInv
<1>1. /\ pc = "fgets" /\ n = Len(file) /\ pc' = IF found THEN "done" ELSE "failed"
      /\ file' = file /\ n' = n /\ i' = i /\ cut' = cut /\ found' = found /\ config' = config
  BY DEF EndOfFile
<1>2. TypeOK' /\ CutInv'
  BY <1>1 DEF TypeOK, CutInv
<1>3. \A m, k : Past(m, k)' <=> Past(m, k)
  BY <1>1 DEF Past
<1>4. \A m, k : TakenYet(m, k)' <=> TakenYet(m, k)
  BY <1>1, <1>3, TakesFile DEF TakenYet
<1>5. FoundInv'
  BY <1>1, <1>3, TakesFile DEF FoundInv
<1>6. ReadInv' /\ RefusedInv'
  BY <1>1, <1>4, NothingRead, TakesFile DEF RefusedInv
<1> QED
  BY <1>2, <1>5, <1>6

\* Storing a value: it is taken, later than all that have been, and nothing but what it
\* covers changes.
LEMMA StoreInv ==
  ASSUME IInv, Store
  PROVE  IInv'
<1> USE DEF IInv
<1> DEFINE P == Params[i]
<1>1. /\ pc = "params" /\ i <= Len(Params) /\ i' = i + 1 /\ found' = TRUE
      /\ pc' = pc /\ file' = file /\ n' = n
      /\ n \in 1..Len(file) /\ ~file[n].commented
      /\ i \in 1..Len(Params) /\ Len(Params) \in Nat /\ P \in Names
      /\ Len(mentions) \in Nat /\ cut \in Nat /\ cut <= Len(mentions)
  BY ParamsAssumption, RankOf, LineType DEF Store, TypeOK, CutInv, mentions
<1>2. PICK k \in 1..cut : /\ Mentioned(P, k) /\ Terminated(file[n], k)
                          /\ Readable(P, mentions[k].text)
                          /\ config' = Stored(P, mentions[k].text)
                          /\ cut' = k
  BY DEF Store
<1>3. /\ k \in 1..Len(mentions) /\ Place(n, k) /\ Takes(n, k) /\ Leads(n, k)
      /\ Name(n, k) = P /\ Rank(Name(n, k)) = i
      /\ Text(n, k) = mentions[k].text /\ Text(n, k) \in STRING
  BY <1>1, <1>2, FoundLeads, MentionRank DEF Takes, Text, mentions
<1>4. /\ \A l \in 1..Len(mentions) : Leads(n, l) /\ l # k => Rank(Name(n, l)) # i
      /\ \A l \in 1..Len(mentions) : Leads(n, l) /\ Rank(Name(n, l)) < i => k < l
  BY <1>1, <1>2, FoundLeads
<1>5. \A l \in 1..Len(mentions) : Rank(Name(n, l)) \in Nat
  BY <1>1, LineRanks
<1>6. TypeOK'
  <2>1. Type[P] = "str" => mentions[k].text \in Quoted
    BY <1>2, <1>3 DEF Terminated, Name, mentions
  <2>2. Value(P, mentions[k].text) \in ValuesOf(P)
    BY <1>1, <1>2, <1>3, <2>1, ValueType
  <2>3. \A p \in Names : config'[p] \in ValuesOf(p)
    BY <1>2, <2>2, ZeroType DEF Stored, TypeOK
  <2>4. DOMAIN config' = Names
    BY <1>2 DEF Stored
  <2> HIDE DEF P
  <2> QED
    BY <1>1, <1>2, <1>3, <2>3, <2>4 DEF TypeOK, mentions
<1>7. \A m, l : /\ Name(m, l)' = Name(m, l) /\ Text(m, l)' = Text(m, l)
                /\ Leads(m, l)' <=> Leads(m, l)
  BY <1>1, TakesFile
<1>8. CutInv'
  <2>1. ASSUME NEW l \in 1..Len(mentions), Leads(n, l)
        PROVE  IF Rank(Name(n, l)) >= i + 1 THEN l <= k
               ELSE Terminated(file[n], l) /\ Readable(Name(n, l), Text(n, l))
    <3>1. CASE Rank(Name(n, l)) < i
      BY <1>1, <1>5, <2>1, <3>1 DEF CutInv
    <3>2. CASE Rank(Name(n, l)) = i
      BY <1>1, <1>2, <1>3, <1>4, <2>1, <3>2
    <3>3. CASE Rank(Name(n, l)) > i
      <4>1. ~(k \in 1..(l - 1))
        BY <1>1, <1>3, <1>5, <2>1, <3>3 DEF Leads
      <4> QED
        BY <1>1, <1>3, <1>5, <3>3, <4>1
    <3> QED
      BY <1>1, <1>5, <3>1, <3>2, <3>3
  <2>2. \A j \in 1..(k - 1) : Rank(Name(n, j)) >= i + 1
    BY <1>1, <1>3, <1>5 DEF Leads
  <2> HIDE DEF IInv
  <2> QED
    BY <1>1, <1>2, <1>7, <2>1, <2>2 DEF CutInv, mentions
<1>9. \A m, l : TakenYet(m, l)' <=> TakenYet(m, l) \/ (m = n /\ l = k)
  <2>1. ASSUME NEW m, NEW l, Place(m, l), Leads(m, l)
        PROVE  Past(m, l)' <=> Past(m, l) \/ (m = n /\ l = k)
    BY <1>1, <1>3, <1>4, <1>5, <1>7, <2>1 DEF Past, Place, mentions
  <2>2. \A m, l : Takes(m, l) => Leads(m, l)
    BY DEF Takes, Reaches
  <2> HIDE DEF IInv, P
  <2> QED
    BY <1>1, <1>3, <2>1, <2>2, TakesFile DEF TakenYet
<1>10. \A m, l : TakenYet(m, l) => Later(n, k, m, l)
  <2> SUFFICES ASSUME NEW m, NEW l, TakenYet(m, l)
               PROVE  Later(n, k, m, l)
    OBVIOUS
  <2>1. m \in Nat /\ Leads(m, l) /\ Place(m, l) /\ Past(m, l)
    BY <1>1 DEF TakenYet, Place, Takes, Reaches
  <2>2. CASE m = n
    BY <1>1, <1>4, <2>1, <2>2 DEF Past, Later, Place, mentions
  <2>3. CASE m < n
    BY <2>3 DEF Later
  <2> QED
    BY <2>1, <2>2, <2>3 DEF Past
<1>11. FoundInv'
  <2>1. ~NamesNothing(n)
    BY <1>1, <1>3 DEF NamesNothing, mentions
  <2> QED
    BY <1>1, <2>1, TakesFile DEF FoundInv
<1>12. RefusedInv'
  BY <1>1, <1>2, <1>3, <1>7, <1>9 DEF RefusedInv
<1>13. ReadInv'
  <2>1. \A p \in Names : ~Covers(P, p) => config'[p] = config[p]
    BY <1>2 DEF Stored, Covers
  <2>2. \A p \in Names : Covers(P, p) =>
           config'[p] = IF P = p THEN Value(p, Text(n, k)) ELSE Zero(p)
    BY <1>2, <1>3 DEF Stored, Covers
  <2> HIDE DEF P, IInv
  <2>3. \A m, l : m = n /\ l = k => TakenYet(m, l)'
    BY <1>9
  <2>4. ASSUME NEW p \in Names, NEW m, NEW l, DecidesYet(m, l, p)'
        PROVE  config'[p] = IF Name(m, l) = p THEN Value(p, Text(m, l)) ELSE Zero(p)
    <3>1. /\ TakenYet(m, l)' /\ Covers(Name(m, l), p)
          /\ \A h, j : TakenYet(h, j)' /\ Later(h, j, m, l) => ~Covers(Name(h, j), p)
      BY <1>7, <2>4 DEF DecidesYet, Later, Covers
    <3>2. CASE m = n /\ l = k
      BY <1>3, <2>2, <3>1, <3>2
    <3>3. CASE ~(m = n /\ l = k)
      <4>1. TakenYet(m, l) /\ Later(n, k, m, l)
        BY <1>9, <1>10, <3>1, <3>3
      <4>2. ~Covers(P, p)
        BY <1>3, <2>3, <3>1, <4>1
      <4>3. DecidesYet(m, l, p)
        BY <1>9, <3>1, <4>1 DEF DecidesYet
      <4>4. config[p] = IF Name(m, l) = p THEN Value(p, Text(m, l)) ELSE Zero(p)
        BY <1>1, <4>3 DEF IInv, ReadInv
      <4> QED
        BY <2>1, <4>2, <4>4
    <3> QED
      BY <3>2, <3>3
  <2>5. ASSUME NEW p \in Names, \A m, l : TakenYet(m, l)' => ~Covers(Name(m, l), p)
        PROVE  config'[p] = Default[p]
    <3>1. ~Covers(P, p)
      BY <1>3, <2>3, <2>5
    <3>2. \A m, l : TakenYet(m, l) => ~Covers(Name(m, l), p)
      BY <1>9, <2>5
    <3>3. config[p] = Default[p]
      BY <1>1, <3>2 DEF IInv, ReadInv
    <3> QED
      BY <2>1, <3>1, <3>3
  <2>6. \A m, l, p : Covers(Name(m, l), p)' <=> Covers(Name(m, l), p)
    BY <1>7 DEF Covers
  <2> QED
    BY <1>7, <2>4, <2>5, <2>6 DEF ReadInv
<1> QED
  BY <1>6, <1>8, <1>11, <1>12, <1>13

\* Every step keeps the invariant.
LEMMA StepInv == IInv /\ [Next]_vars => IInv'
<1> SUFFICES ASSUME IInv, [Next]_vars PROVE IInv'
  OBVIOUS
<1>1. CASE Fgets
  BY <1>1, FgetsInv
<1>2. CASE ParamLoop
  BY <1>2, NotMentionedInv, UnterminatedInv, MalformedInv, StoreInv, LineDoneInv DEF ParamLoop
<1>3. CASE EndOfFile
  BY <1>3, EndOfFileInv
<1>4. CASE UNCHANGED vars
  <2>1. /\ pc' = pc /\ file' = file /\ n' = n /\ i' = i /\ cut' = cut /\ found' = found
        /\ config' = config
    BY <1>4 DEF vars
  <2>2. \A m, k : Past(m, k)' <=> Past(m, k)
    BY <2>1 DEF Past, Name
  <2>3. \A m, k : TakenYet(m, k)' <=> TakenYet(m, k)
    BY <2>1, <2>2, TakesFile DEF TakenYet
  <2>4. TypeOK' /\ CutInv'
    BY <2>1 DEF IInv, TypeOK, CutInv, mentions, Leads, Name, Text
  <2>5. FoundInv'
    BY <2>1, <2>2, TakesFile DEF IInv, FoundInv
  <2>6. ReadInv' /\ RefusedInv'
    <3>1. CASE pc = "failed"
      BY <2>1, <3>1, TakesFile DEF IInv, ReadInv, RefusedInv
    <3>2. CASE pc # "failed"
      BY <2>1, <2>3, <3>2, NothingRead DEF IInv, RefusedInv
    <3> QED
      BY <3>1, <3>2
  <2> QED
    BY <2>4, <2>5, <2>6 DEF IInv
<1> QED
  BY <1>1, <1>2, <1>3, <1>4 DEF Next

-----------------------------------------------------------------------------
(* The theorems. *)

LEMMA Invariant == Spec => []IInv
<1> QED
  BY InitInv, StepInv, PTL DEF Spec

\* Every parameter always has a value of its type (ConfigParse's TypeOK): param_parse_txt
\* stores nothing that the reader of the parameter could not use.
THEOREM TypeCorrect == Spec => []TypeOK
<1>1. IInv => TypeOK
  BY DEF IInv
<1> QED
  BY <1>1, Invariant, PTL

\* At the end of a file every mention that is taken has been.
LEMMA AllTaken ==
  ASSUME IInv, pc # "params", n = Len(file)
  PROVE  \A m, k : TakenYet(m, k) <=> Place(m, k) /\ Takes(m, k)
<1>1. Len(file) \in Nat
  BY DEF IInv, TypeOK
<1> QED
  BY <1>1 DEF TakenYet, Past, Place

\* The last value that the parser takes for a parameter, or for the one before it in
\* AppConfig, decides, whatever the parameters, their layout and the file.
THEOREM FilesAreRead == Spec => []ReadAsWritten
<1>1. IInv => ReadAsWritten
  <2> SUFFICES ASSUME IInv, pc = "done"
               PROVE  ReadAsWritten
    BY DEF ReadAsWritten
  <2>1. \A m, k : TakenYet(m, k) <=> Place(m, k) /\ Takes(m, k)
    BY AllTaken DEF IInv, RefusedInv
  <2>2. \A m \in 1..Len(file) : \A k \in 1..Len(file[m].mentions) : \A p :
           Decides(m, k, p) => DecidesYet(m, k, p)
    BY <2>1 DEF Decides, DecidesYet, Place
  <2>3. \A p \in Names :
           (\A m \in 1..Len(file) : \A k \in 1..Len(file[m].mentions) :
              Takes(m, k) => ~Covers(Name(m, k), p))
             => \A m, k : TakenYet(m, k) => ~Covers(Name(m, k), p)
    BY <2>1 DEF Place
  <2> QED
    BY <2>2, <2>3 DEF IInv, ReadInv, ReadAsWritten
<1> QED
  BY <1>1, Invariant, PTL

\* A file is refused exactly when a number or truth value that the parser takes cannot
\* be read, or it names no parameter.
THEOREM UnreadableIsRefused == Spec => []RefusedIfUnreadable
<1>1. IInv => RefusedIfUnreadable
  <2>1. ASSUME IInv, pc = "done"
        PROVE  /\ \A m \in 1..Len(file) : ~Unreadable(m)
               /\ \E m \in 1..Len(file) : ~NamesNothing(m)
    <3>1. \A m, k : TakenYet(m, k) <=> Place(m, k) /\ Takes(m, k)
      BY <2>1, AllTaken DEF IInv, RefusedInv
    <3> QED
      BY <2>1, <3>1 DEF IInv, RefusedInv, FoundInv, Unreadable, Place
  <2>2. ASSUME IInv, pc = "failed", ~(\E m \in 1..Len(file) : Unreadable(m))
        PROVE  \A m \in 1..Len(file) : NamesNothing(m)
    <3>1. n = Len(file) /\ ~found /\ n \in Nat
      BY <2>2 DEF IInv, RefusedInv, TypeOK
    <3>2. \A m \in 1..n : Past(m, 1)
      BY <2>2, <3>1 DEF Past
    <3> QED
      BY <2>2, <3>1, <3>2 DEF IInv, FoundInv
  <2> QED
    BY <2>1, <2>2 DEF RefusedIfUnreadable
<1> QED
  BY <1>1, Invariant, PTL
=============================================================================
