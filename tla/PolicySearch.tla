---------------------------- MODULE PolicySearch ----------------------------
(***************************************************************************)
(* How a policy text becomes chunks, and how a query finds some of them:   *)
(* chunk_policy and PolicyIndex.search of retrieval.py.                    *)
(*                                                                         *)
(* A text is read line by line: a heading opens a section, a blank line    *)
(* ends a paragraph, any other line is a sequence of sentences of which    *)
(* only the lengths are kept.  A chunk lists the sentences it is made of   *)
(* and the path of headings it stands under.  The scores of the two        *)
(* retrievers and of the reranker are numbers nothing here depends on: the *)
(* retrievers rank the chunks in any order, the reranker prefers any of    *)
(* those it is given.                                                      *)
(***************************************************************************)
EXTENDS Integers, Sequences, FiniteSets, FiniteSetsExt, SequencesExt

CONSTANTS
    Texts,          \* the policy texts: sequences of lines
    SearchedTexts,  \* those of which the chunks are searched: a bound
    MaxChars,       \* MAX_CHUNK_CHARS
    Overlap,        \* CHUNK_OVERLAP
    RrfK,           \* RRF_K
    Depth,          \* chunks taken from each retriever (30)
    Kept,           \* chunks given to the reranker (20)
    TopK            \* chunks selected of these (5)

ASSUME SizesAssumption ==
    /\ MaxChars \in Nat \ {0} /\ Overlap \in 0..(MaxChars - 1)
    /\ RrfK \in Nat /\ Depth \in Nat \ {0}
    /\ Kept \in Nat \ {0} /\ TopK \in Nat \ {0}

(* A heading has a level, any other line that is not blank some sentences,  *)
(* none of them empty.  As in the policies of the repository, no sentence   *)
(* goes on in the next line.                                                *)
Lines == [kind : {"heading"}, level : Nat \ {0}]
           \cup [kind : {"blank"}]
           \cup [kind : {"text"}, lengths : Seq(Nat \ {0}) \ {<<>>}]

ASSUME TextsAssumption == Texts \subseteq Seq(Lines)

VARIABLES
    text,    \* source.text
    at,      \* the line that comes next
    path,    \* section_path: the headings, by their lines
    buffer,  \* what is read and not yet in a chunk, with its buffer_path
    chunks,  \* the chunks so far
    found    \* the result of a search, once there is one

vars == <<text, at, path, buffer, chunks, found>>

Empty == [path |-> <<>>, sentences |-> <<>>, length |-> 0]
NotSearched == [bm25 |-> <<>>, dense |-> <<>>, kept |-> {}, selected |-> {}]

-----------------------------------------------------------------------------
(* Lines.  A sentence is known by its line and its place in it.             *)

Is(kind) == at \in DOMAIN text /\ text[at].kind = kind

Sentences(n) ==
    [i \in DOMAIN text[n].lengths |-> [id |-> <<n, i>>, length |-> text[n].lengths[i]]]

(* The lines of the buffer are joined by line breaks.                       *)
WithLine(n) ==
    LET size == FoldLeft(LAMBDA sum, s : sum + s.length, 0, Sentences(n))
    IN  IF buffer.sentences = <<>>
        THEN [path |-> path, sentences |-> Sentences(n), length |-> size]
        ELSE [buffer EXCEPT !.sentences = @ \o Sentences(n), !.length = @ + 1 + size]

-----------------------------------------------------------------------------
(* _split_long_text.  A part lists the sentences added to it; its length    *)
(* counts what it repeats of the part before.                               *)

NoPart == [ids |-> <<>>, length |-> 0]
Add(part, s) == [ids |-> Append(part.ids, s.id), length |-> part.length + s.length]
TooLong(part, s) == part.length > 0 /\ part.length + s.length > MaxChars

(* Mutated: a part repeats all of the one before.                           *)
RepeatedAll(part) == [NoPart EXCEPT !.length = part.length]

(* The last Overlap characters.                                             *)
Repeated(part) == [NoPart EXCEPT !.length = Min({Overlap, part.length})]

(* A part is closed when the next sentence would make it too long, and that *)
(* sentence is added to the next one, however long it gets.                 *)
SplitLongText(sentences) ==
    LET Step(parts, s) ==
          LET current == parts[Len(parts)]
          IN  IF TooLong(current, s) THEN Append(parts, Add(Repeated(current), s))
              ELSE [parts EXCEPT ![Len(parts)] = Add(current, s)]
    IN  FoldLeft(Step, <<NoPart>>, sentences)

(* flush: a buffer that fits is one chunk.                                  *)
Flush(b) ==
    LET whole == [ids |-> [i \in DOMAIN b.sentences |-> b.sentences[i].id],
                  length |-> b.length]
        parts == IF b.length <= MaxChars THEN <<whole>> ELSE SplitLongText(b.sentences)
    IN  IF b.sentences = <<>> THEN <<>>
        ELSE [i \in DOMAIN parts |->
                [path |-> b.path, ids |-> parts[i].ids, length |-> parts[i].length]]

-----------------------------------------------------------------------------
Init ==
    /\ text \in Texts
    /\ at = 1
    /\ path = <<>>
    /\ buffer = Empty
    /\ chunks = <<>>
    /\ found = NotSearched

(* _section_path: a heading of level n stays under n - 1 of those before.   *)
SectionPath(level) == Append(SubSeq(path, 1, Min({level - 1, Len(path)})), at)

(* Mutated: the buffer is kept over a heading.                              *)
HeadingUnflushed ==
    /\ Is("heading")
    /\ path' = SectionPath(text[at].level)
    /\ at' = at + 1
    /\ UNCHANGED <<text, buffer, chunks, found>>

Heading ==
    /\ Is("heading")
    /\ chunks' = chunks \o Flush(buffer)
    /\ buffer' = Empty
    /\ path' = SectionPath(text[at].level)
    /\ at' = at + 1
    /\ UNCHANGED <<text, found>>

Blank ==
    /\ Is("blank")
    /\ chunks' = chunks \o Flush(buffer)
    /\ buffer' = Empty
    /\ at' = at + 1
    /\ UNCHANGED <<text, path, found>>

(* Mutated: flushed only once it is too long.                               *)
TextLineLate ==
    /\ Is("text")
    /\ IF WithLine(at).length > MaxChars
       THEN chunks' = chunks \o Flush(WithLine(at)) /\ buffer' = Empty
       ELSE buffer' = WithLine(at) /\ UNCHANGED chunks
    /\ at' = at + 1
    /\ UNCHANGED <<text, path, found>>

(* A line joins the buffer, which is flushed once it is long enough.        *)
TextLine ==
    /\ Is("text")
    /\ IF WithLine(at).length >= MaxChars
       THEN chunks' = chunks \o Flush(WithLine(at)) /\ buffer' = Empty
       ELSE buffer' = WithLine(at) /\ UNCHANGED chunks
    /\ at' = at + 1
    /\ UNCHANGED <<text, path, found>>

EndOfText ==
    /\ at = Len(text) + 1
    /\ chunks' = chunks \o Flush(buffer)
    /\ buffer' = Empty
    /\ at' = at + 1
    /\ UNCHANGED <<text, path, found>>

Chunked == at = Len(text) + 2

-----------------------------------------------------------------------------
(* PolicyIndex.search.  Each retriever returns the best of its ranking.     *)

Listed(list) == {list[i] : i \in DOMAIN list}
RankIn(list, c) == CHOOSE i \in DOMAIN list : list[i] = c

Candidates(result) == Listed(result.bm25) \cup Listed(result.dense)

(* The better rank of a candidate.                                          *)
BestRank(result, c) ==
    Min({RankIn(list, c) : list \in {l \in {result.bm25, result.dense} : c \in Listed(l)}})

(* Mutated: a chunk that is not listed counts as one of rank zero.          *)
ShareAnyway(list, c) ==
    IF c \in Listed(list) THEN <<1, RrfK + RankIn(list, c)>> ELSE <<1, RrfK>>

(* Mutated: the constant of the fusion is left out.                         *)
ShareUndamped(list, c) == IF c \in Listed(list) THEN <<1, RankIn(list, c)>> ELSE <<0, 1>>

(* Scores are fractions.  A list that does not have a chunk adds nothing.   *)
Share(list, c) == IF c \in Listed(list) THEN <<1, RrfK + RankIn(list, c)>> ELSE <<0, 1>>

Score(result, c) ==
    LET x == Share(result.bm25, c)
        y == Share(result.dense, c)
    IN  <<x[1] * y[2] + y[1] * x[2], x[2] * y[2]>>
Higher(p, q) == p[1] * q[2] > q[1] * p[2]

(* The order of the fusion: by score, best rank and chunk_id, which orders  *)
(* the chunks somehow, here as they stand in the text.                      *)
FusedBefore(result, c, d) ==
    LET p == Score(result, c)
        q == Score(result, d)
        better == BestRank(result, c) - BestRank(result, d)
    IN  Higher(p, q) \/ (~Higher(q, p) /\ (better < 0 \/ (better = 0 /\ c < d)))

FusedRank(result, c) ==
    1 + Cardinality({d \in Candidates(result) : FusedBefore(result, d, c)})

Rankings(n) ==
    {list \in [1..Min({Depth, n}) -> 1..n] :
       \A i, j \in DOMAIN list : list[i] = list[j] => i = j}

(* The first Kept candidates are put to the reranker, which has its TopK    *)
(* selected.                                                                *)
Search ==
    /\ Chunked /\ chunks # <<>> /\ found = NotSearched /\ text \in SearchedTexts
    /\ \E bm25, dense \in Rankings(Len(chunks)) :
         LET lists == [bm25 |-> bm25, dense |-> dense]
             kept == {c \in Candidates(lists) : FusedRank(lists, c) <= Kept}
         IN  \E selected \in kSubset(Min({TopK, Cardinality(kept)}), kept) :
               found' = [bm25 |-> bm25, dense |-> dense, kept |-> kept,
                         selected |-> selected]
    /\ UNCHANGED <<text, at, path, buffer, chunks>>

Next == Heading \/ Blank \/ TextLine \/ EndOfText \/ Search

Spec == Init /\ [][Next]_vars

-----------------------------------------------------------------------------
(* Properties.                                                             *)

PolicyTypeOK ==
    /\ at \in 1..(Len(text) + 2)
    /\ \A i \in DOMAIN path : text[path[i]].kind = "heading"
    /\ buffer.length \in 0..(MaxChars - 1)
    /\ \A i \in DOMAIN chunks : chunks[i].length \in Nat \ {0}
    /\ found.selected \subseteq found.kept

(* The headings a line stands under: those that no later one of the same or *)
(* a higher level closes before it, in a text that skips no level.          *)
WellNested ==
    \A n \in DOMAIN text : text[n].kind = "heading" =>
      text[n].level <= 1 + Max({0} \cup {text[m].level : m \in
                                 {k \in 1..(n - 1) : /\ text[k].kind = "heading"
                                                     /\ \A j \in (k + 1)..(n - 1) :
                                                          text[j].kind # "heading"}})
Over(n) ==
    {h \in 1..(n - 1) : /\ text[h].kind = "heading"
                        /\ \A k \in (h + 1)..(n - 1) :
                             text[k].kind = "heading" => text[k].level > text[h].level}

AllSentences ==
    FoldLeft(LAMBDA all, n : all \o (IF text[n].kind = "text" THEN Sentences(n) ELSE <<>>),
             <<>>, [n \in DOMAIN text |-> n])

(* Put end to end, the chunks of a policy are its text: no sentence is lost *)
(* over flushes and splits, none is read twice or out of order, and each    *)
(* is found under the headings it stands under.                             *)
NoPolicyTextIsLost ==
    Chunked =>
      /\ FoldLeft(LAMBDA all, c : all \o c.ids, <<>>, chunks)
           = [i \in DOMAIN AllSentences |-> AllSentences[i].id]
      /\ WellNested => \A c \in Listed(chunks) : \A i \in DOMAIN c.ids :
                         Listed(c.path) = Over(c.ids[i][1])

(* No chunk outgrows the limit by more than the overlap, unless a sentence  *)
(* alone does, whatever lines and sentences came together in it; none is    *)
(* only a repetition of the one before.                                     *)
ChunksAreBounded ==
    \A i \in DOMAIN chunks :
      LET longest == Max({s.length : s \in {AllSentences[j] : j \in
                            {k \in DOMAIN AllSentences :
                               AllSentences[k].id \in Listed(chunks[i].ids)}}})
      IN  /\ chunks[i].ids # <<>>
          /\ chunks[i].length <= Overlap + Max({MaxChars, longest})

(* A chunk both retrievers list comes before every chunk that only one of   *)
(* them lists, first in its list as that may be: what reciprocal rank       *)
(* fusion with a constant of this size is for.                              *)
AgreementWins ==
    LET both == Listed(found.bm25) \cap Listed(found.dense)
    IN  \A c \in both, d \in Candidates(found) \ both :
          /\ FusedRank(found, c) < FusedRank(found, d)
          /\ d \in found.kept => c \in found.kept

(* A chunk ranked before another by both retrievers is not fused after it;  *)
(* a list that ends before a chunk ranks it after all of its own.           *)
Ahead(list, c, d) ==
    \/ c \in Listed(list) /\ (d \in Listed(list) => RankIn(list, c) < RankIn(list, d))
    \/ {c, d} \cap Listed(list) = {}
FusionFollowsRankings ==
    \A c, d \in Candidates(found) :
      /\ c # d
      /\ Ahead(found.bm25, c, d) /\ Ahead(found.dense, c, d)
      => FusedRank(found, c) < FusedRank(found, d)
=============================================================================
