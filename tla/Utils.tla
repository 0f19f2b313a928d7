-------------------------------- MODULE Utils --------------------------------
(***************************************************************************)
(* The bit tricks of the library (lib/utils.hpp) and the sizes that are    *)
(* derived with them (lib/ZoneAllocator.hpp, detail), on words of Width    *)
(* bits.  A word is the set of the positions at which it has a 1.          *)
(***************************************************************************)
EXTENDS Integers

CONSTANTS
    Width,       \* the number of bits of std::size_t
    Sizes,       \* the sizes a client asks for
    PageSizes,   \* the page sizes
    MinimalBit,  \* minimalAllocSize() is 2^MinimalBit: 4
    MaxZoneIdx   \* m_cMaxZoneIdx: 8

ASSUME WidthAssumption == Width \in Nat /\ Width > 32

Bits == 0..(Width - 1)
Word == SUBSET Bits

\* A page size has passed isValidPageSize, so it is above the minimal size of a
\* chunk; no page is larger than the five shifts reach.
ASSUME WordsAssumption ==
    /\ Sizes \subseteq Word
    /\ PageSizes \subseteq {{b} : b \in (MinimalBit + 1)..32}
    /\ MinimalBit \in 4..31
    /\ MaxZoneIdx \in Nat /\ MaxZoneIdx >= 8

Top(w) == CHOOSE b \in w : \A c \in w : c <= b
Bottom(w) == CHOOSE b \in w : \A c \in w : b <= c

\* v < w: they differ, and the highest bit in which they do is one of w.
Less(v, w) == \E b \in w \ v : \A c \in v \ w : c < b
AtMost(v, w) == v = w \/ Less(v, w)

\* Addition of 1 and subtraction of 1, modulo 2^Width.
plusOne(w) ==
    LET zeros == Bits \ w
    IN  IF zeros = {} THEN {} ELSE {Bottom(zeros)} \cup {b \in w : b > Bottom(zeros)}
minusOne(w) ==
    IF w = {} THEN Bits ELSE 0..(Bottom(w) - 1) \cup (w \ {Bottom(w)})

-----------------------------------------------------------------------------
(* utils.hpp                                                               *)

\* Mutant: zero is taken for a power of 2.
isPowerOf2_Zero(value) == value \cap minusOne(value) = {}

isPowerOf2(value) == value # {} /\ value \cap minusOne(value) = {}

\* result |= (result >> shift)
smear(w, shift) == w \cup {b \in Bits : b + shift \in w}

\* Mutant: the last shift is left out, as if values had 16 bits.
smearAll_16Bits(w) == smear(smear(smear(smear(w, 1), 2), 4), 8)

smearAll(w) == smear(smear(smear(smear(smear(w, 1), 2), 4), 8), 16)

roundPowerOf2(value) == plusOne(smearAll(minusOne(value)))

-----------------------------------------------------------------------------
(* ZoneAllocator.hpp and the test in ZoneAllocator::allocate.              *)

larger(v, w) == IF Less(v, w) THEN w ELSE v

\* Mutant: small sizes are not raised to the minimal one.
chunkSize_Small(size) == roundPowerOf2(size)

chunkSize(size) == roundPowerOf2(larger(size, {MinimalBit}))

\* std::floor(std::log2(chunkSize)) - 4; the logarithm of 0 is no index at all.
zoneIdx(size) == IF size = {} THEN Width ELSE Top(size) - 4

\* Mutant: only the rounded size is compared.
isForPages_Rounded(size, pageSize) == AtMost(pageSize, chunkSize(size))

isForPages(size, pageSize) ==
    AtMost(pageSize, size) \/ AtMost(pageSize, chunkSize(size))

-----------------------------------------------------------------------------
(* The calls, for any size and page size.                                  *)

VARIABLES
    size,      \* the argument
    pageSize,  \* m_pageSize
    answer     \* what the last call returned

vars == <<size, pageSize, answer>>

Answer(call, result) == [call |-> call, result |-> result, idx |-> 0]

Init == size \in Sizes /\ pageSize \in PageSizes /\ answer = Answer("none", {})

Check ==
    /\ answer' = Answer("isPowerOf2", isPowerOf2(size))
    /\ UNCHANGED <<size, pageSize>>

Round ==
    /\ answer' = Answer("roundPowerOf2", roundPowerOf2(size))
    /\ UNCHANGED <<size, pageSize>>

\* The part of allocate that looks at nothing but sizes.
ServeByPages ==
    /\ size # {}
    /\ isForPages(size, pageSize)
    /\ answer' = Answer("pages", {})
    /\ UNCHANGED <<size, pageSize>>

ServeByZone ==
    /\ size # {}
    /\ ~isForPages(size, pageSize)
    /\ answer' = [call |-> "zone", result |-> chunkSize(size),
                  idx |-> zoneIdx(chunkSize(size))]
    /\ UNCHANGED <<size, pageSize>>

Next == Check \/ Round \/ ServeByPages \/ ServeByZone

Spec == Init /\ [][Next]_vars

-----------------------------------------------------------------------------
\* Exactly the words with a single bit are powers of 2; zero is none.
PowersRecognized ==
    answer.call = "isPowerOf2" => (answer.result <=> \E b \in Bits : size = {b})

\* b is the power of 2 that a value is to be rounded to.
RoundsTo(b, value) ==
    AtMost(value, {b}) /\ \A c \in 0..(b - 1) : Less({c}, value)

\* Up to 2^32, as far as the five shifts reach, roundPowerOf2 returns the
\* smallest power of 2 that is not below its argument.
RoundsUp ==
    (/\ answer.call = "roundPowerOf2"
     /\ size # {}
     /\ AtMost(size, {32}))
    => \E b \in Bits : answer.result = {b} /\ RoundsTo(b, size)

\* allocate serves a size by pages exactly if it is more than half a page,
\* those above 2^32 included, which chunkSize rounds to anything, even to 0.
PagesForLargeSizes ==
    answer.call \in {"pages", "zone"} =>
        (answer.call = "pages" <=> Less({Top(pageSize) - 1}, size))

\* Any other size gets a chunk that is large enough, at least of the minimal
\* size, divides the page and, in pages up to 4096 bytes, has an entry in the
\* table of zones.
ChunkFits ==
    answer.call = "zone" =>
        \E b \in MinimalBit..(Top(pageSize) - 1) :
            /\ answer.result = {b}
            /\ AtMost(size, {b})
            /\ Top(pageSize) <= 12 => answer.idx \in 0..(MaxZoneIdx - 1)
=============================================================================
