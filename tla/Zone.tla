--------------------------------- MODULE Zone ---------------------------------
(***************************************************************************)
(* Zones (lib/Zone.cpp): one page cut into chunks of equal size, and the   *)
(* list of those that are free.  A chunk is its address.                   *)
(***************************************************************************)
EXTENDS Integers, Sequences

\* Zone::isValidChunk: the chunks of a page.
chunks(pageAddr, size, chunkSize) ==
    {pageAddr + k * chunkSize : k \in 0..((size \div chunkSize) - 1)}

\* Zone::init.  Each chunk is added at the front, so the last comes first.
newZone(page, size, chunkSize) ==
    LET count == size \div chunkSize
    IN  [page            |-> page,
         chunkSize       |-> chunkSize,
         chunksCount     |-> count,
         freeChunksCount |-> count,
         freeChunks      |-> [k \in 1..count |->
                                 page * size + (count - k) * chunkSize]]

\* The chunk that takeChunk returns.
firstChunk(zone) == Head(zone.freeChunks)

\* Mutant: the chunk stays in the list.
takeChunk_Keep(zone) == [zone EXCEPT !.freeChunksCount = @ - 1]

takeChunk(zone) ==
    [zone EXCEPT !.freeChunks = Tail(@), !.freeChunksCount = @ - 1]

\* Mutant: the counter is forgotten.
giveChunk_Uncounted(zone, chunk) ==
    [zone EXCEPT !.freeChunks = <<chunk>> \o @]

giveChunk(zone, chunk) ==
    [zone EXCEPT !.freeChunks = <<chunk>> \o @, !.freeChunksCount = @ + 1]
===============================================================================
