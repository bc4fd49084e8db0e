------------------------------ MODULE Packing -------------------------------
(***************************************************************************)
(* chunk_document: each section of a text packed into chunks of whole      *)
(* sentences, up to a number of tokens, with some overlap.  A section is   *)
(* the sequence of its sentences' word counts, and a blank one has none.   *)
(***************************************************************************)
EXTENDS Integers, Sequences, FiniteSets, SequencesExt

\* round(n / d), halves to even.
RoundHalfEven(n, d) ==
    LET q == n \div d   r == 2 * (n % d)
    IN IF r > d \/ (r = d /\ q % 2 = 1) THEN q + 1 ELSE q

\* _tokens_for: 1.3 tokens a word.
Tokens(words) == RoundHalfEven(13 * words, 10)

WordsIn(s, from, to) == FoldLeft(LAMBDA a, w : a + w, 0, SubSeq(s, from, to))

\* The last sentence the chunk that starts at i takes: always i, then as many as
\* still fit.
PackedTo(s, i, target) ==
    LET fit == {j \in i..Len(s) : j = i \/ Tokens(WordsIn(s, i, j)) <= target}
    IN CHOOSE j \in fit : \A k \in fit : k <= j

\* Mutant of BackedTo: the search starts with one sentence included.
BackedToOne(s, i, j, target, percent) ==
    LET enough == {b \in i..j :
                     b = i \/ 100 * Tokens(WordsIn(s, b, j)) >= percent * target}
    IN CHOOSE b \in enough : \A c \in enough : c <= b

\* How far the next chunk backs up over the one just closed at j: from no overlap
\* at all to the first sentence that makes it long enough, never past i.
BackedTo(s, i, j, target, percent) ==
    LET enough == {b \in i..(j + 1) :
                     b = i \/ 100 * Tokens(WordsIn(s, b, j)) >= percent * target}
    IN CHOOSE b \in enough : \A c \in enough : c <= b

NextStart(s, i, j, target, percent) ==
    LET b == BackedTo(s, i, j, target, percent) IN IF b > i THEN b ELSE j + 1

\* _pack_sentences: <<first, last>> of every chunk of a section.
PackSentences(s, target, percent) ==
    LET from[i \in 1..(Len(s) + 1)] ==
          IF i > Len(s) THEN <<>>
          ELSE LET j == PackedTo(s, i, target)
               IN <<<<i, j>>>> \o (IF j = Len(s) THEN <<>>
                                   ELSE from[NextStart(s, i, j, target, percent)])
    IN from[1]

\* chunk_document: the sections in order, blank ones left out, numbered on.
ChunkDocument(doc, target, percent) ==
    LET chunksOf(n) ==
          LET spans == PackSentences(doc[n], target, percent)
          IN [k \in DOMAIN spans |-> [section |-> n, first |-> spans[k][1], last |-> spans[k][2]]]
        all == FlattenSeq([n \in DOMAIN doc |-> IF doc[n] = <<>> THEN <<>> ELSE chunksOf(n)])
    IN [k \in DOMAIN all |->
          [index |-> k - 1, section |-> all[k].section,
           first |-> all[k].first, last |-> all[k].last]]

\* embed_batched: the slices the texts go out in.
Batches(texts, size) ==
    LET count == (Len(texts) + size - 1) \div size
    IN [b \in 1..count |-> SubSeq(texts, (b - 1) * size + 1,
                                  IF b * size < Len(texts) THEN b * size ELSE Len(texts))]

-----------------------------------------------------------------------------
SeqsUpTo(S, n) == UNION {[1..k -> S] : k \in 0..n}
Documents == SeqsUpTo(SeqsUpTo({1, 5, 9}, 3), 2) \union SeqsUpTo(SeqsUpTo({2, 4, 7}, 5), 1)

-----------------------------------------------------------------------------
(* What the chunks promise. *)

\* Every sentence is in a chunk, the chunks are numbered in the order of the
\* text and never start again where one already started, none is over the target
\* unless it is a single sentence, none stops short of a sentence that still fits,
\* and no overlap is larger than asked for by more than the sentence that
\* reached it.
ChunksTile(doc, chunks, target, percent) ==
    LET words(k, from, to) == WordsIn(doc[chunks[k].section], from, to)
        size(k) == Tokens(words(k, chunks[k].first, chunks[k].last))
        shared(k) == Tokens(words(k, chunks[k + 1].first + 1, chunks[k].last))
    IN /\ \A n \in DOMAIN doc : \A i \in DOMAIN doc[n] :
            \E k \in DOMAIN chunks :
               chunks[k].section = n /\ i \in chunks[k].first..chunks[k].last
       /\ \A k \in DOMAIN chunks :
            /\ chunks[k].index = k - 1
            /\ chunks[k].last \in chunks[k].first..Len(doc[chunks[k].section])
            /\ size(k) > target => chunks[k].first = chunks[k].last
            /\ chunks[k].last < Len(doc[chunks[k].section]) =>
                 Tokens(words(k, chunks[k].first, chunks[k].last + 1)) > target
       /\ \A k \in 1..(Len(chunks) - 1) :
            \/ chunks[k].section < chunks[k + 1].section
            \/ /\ chunks[k].section = chunks[k + 1].section
               /\ chunks[k].first < chunks[k + 1].first
               /\ chunks[k + 1].first <= chunks[k].last =>
                    100 * shared(k) < percent * target

\* Every text goes out once, in order, in batches of at most the size.
BatchesCover(texts, size) ==
    LET batches == Batches(texts, size)
    IN /\ FlattenSeq(batches) = texts
       /\ \A b \in DOMAIN batches : Len(batches[b]) \in 1..size

=============================================================================
