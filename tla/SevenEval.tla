-------------------------------- MODULE SevenEval -------------------------------
(***************************************************************************)
(* The C++ evaluator: SevenEval::GetRank on the arrays of the headers.     *)
(*                                                                         *)
(* A card is a number below 4 * FACES: 0 is the ace of spades, and cards   *)
(* of one residue modulo 4 are of one suit (SevenEval.h:35).  The arrays   *)
(* rank_hash, offsets, flush_ranks and flush_check are fields of t.  A key *)
(* is unsigned and fits its 32 bits: 7 * CLUB < 2^(32 - FLUSH_BIT_SHIFT).  *)
(***************************************************************************)
EXTENDS Integers, FiniteSets, FiniteSetsExt

CONSTANTS FACES,
          faceKeys, suitKeys,    \* TWO .. ACE, SPADE .. CLUB
          FLUSH_BIT_SHIFT, RANK_OFFSET_SHIFT,
          Multiplier             \* 31

NOT_A_SUIT == -1
OutOfBounds == -2
At(array, i) == IF i \in DOMAIN array THEN array[i] ELSE OutOfBounds

Face(c) == FACES - 1 - c \div 4
card(c) == faceKeys[Face(c)] + suitKeys[c % 4] * 2^FLUSH_BIT_SHIFT
suit_kronecker(suit, c) == IF c % 4 = suit THEN {Face(c)} ELSE {}

Hash(key) == (Multiplier * key) % 2^FLUSH_BIT_SHIFT

(***************************************************************************)
(* GetRank<TDoFlushCheck>: without the check the caller vouches that there *)
(* is no flush.                                                            *)
(***************************************************************************)
GetRank(t, TDoFlushCheck, hand) ==
  LET key == MapThenSumSet(card, hand)
      suit == At(t.flush_check, key \div 2^FLUSH_BIT_SHIFT)
      hash == Hash(key)
      offset == At(t.offsets, hash \div 2^RANK_OFFSET_SHIFT)
  IN  IF TDoFlushCheck /\ suit # NOT_A_SUIT
        THEN At(t.flush_ranks, UNION {suit_kronecker(suit, c) : c \in hand})
        ELSE At(t.rank_hash, offset + (hash % 2^RANK_OFFSET_SHIFT))
=============================================================================
