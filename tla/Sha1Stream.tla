------------------------------ MODULE Sha1Stream ------------------------------
(***************************************************************************)
(* The hash context of sha1/sha1.c: a state, a bit count in two words and  *)
(* a buffer for the bytes that do not fill a block yet.                    *)
(*                                                                         *)
(* The compression of a block is a free constructor: the state is the list *)
(* of what has been mixed into the initial constants.  The block itself is *)
(* not left alone: SHA1HANDSOFF is not defined, so SHA1_Transform expands  *)
(* it in place (line 139), and the blocks that aae_SHA1_Update takes       *)
(* straight from its argument lie in the caller's memory.                  *)
(*                                                                         *)
(* A byte is a tuple, so that the bytes of data, of the padding, of the    *)
(* length field and of an expanded block can be compared.                  *)
(***************************************************************************)
EXTENDS Integers, Sequences

CONSTANTS
  Block,      \* bytes of a block: 64 in the code
  LenBytes,   \* bytes of the length field: 8 in the code
  Word        \* the modulus of a word of the bit count: 2^32 in the code

ASSUME BlockAssumption ==
  /\ Block \in Nat /\ LenBytes \in Nat \ {0} /\ LenBytes < Block
  /\ Word \in Nat \ {0} /\ Word % (8 * Block) = 0

One == <<"one">>      \* the byte \200
Nul == <<"nul">>      \* the byte \0

(* Byte k of the expanded block b, and of the length field of a count.     *)
Expanded(b, k) == <<"expanded", b, k>>
LengthField(count) == [k \in 1..LenBytes |-> <<"length", count, k>>]

Fresh == [state |-> <<"constants">>, count |-> <<0, 0>>, buffer |-> <<>>]
Wiped == [state |-> <<"zeros">>, count |-> <<0, 0>>, buffer |-> <<>>]

(* The bytes waiting in the buffer, as aae_SHA1_Update finds their number. *)
Waiting(ctx) == (ctx.count[1] \div 8) % Block

(* The bit count after len more bytes; the length is not reduced to a word *)
(* before it is compared with the sum.                                     *)
Counted(count, len) ==
  LET low == (count[1] + 8 * len) % Word
  IN  << low,
         (count[2] + (IF low < 8 * len THEN 1 ELSE 0) + (8 * len) \div Word) % Word >>

(* How many bytes of data complete the buffer (0: they do not), and how    *)
(* many blocks are taken straight from data behind them.                   *)
Completing(ctx, data) ==
  IF Waiting(ctx) + Len(data) >= Block THEN Block - Waiting(ctx) ELSE 0
Direct(ctx, data) ==
  IF Completing(ctx, data) = 0 THEN 0 ELSE (Len(data) - Completing(ctx, data)) \div Block

DirectBlock(ctx, data, b) ==
  [k \in 1..Block |-> data[Completing(ctx, data) + (b - 1) * Block + k]]

(* aae_SHA1_Update: the context after data has been fed to it.             *)
Update(ctx, data) ==
  LET j == Waiting(ctx)
      i == Completing(ctx, data)
      n == Direct(ctx, data)
      held == SubSeq(ctx.buffer, 1, j)
  IN  [ state |->
          IF i = 0 THEN ctx.state
          ELSE Append(ctx.state, held \o SubSeq(data, 1, i))
                 \o [b \in 1..n |-> DirectBlock(ctx, data, b)],
        count |-> Counted(ctx.count, Len(data)),
        buffer |->
          IF i = 0 THEN held \o data ELSE SubSeq(data, i + n * Block + 1, Len(data)) ]

(* The caller's memory behind data after aae_SHA1_Update returns.          *)
Left(ctx, data) ==
  LET i == Completing(ctx, data)
  IN  [k \in 1..Len(data) |->
        IF i < k /\ k <= i + Direct(ctx, data) * Block
          THEN Expanded(DirectBlock(ctx, data, (k - i - 1) \div Block + 1),
                        ((k - i - 1) % Block) + 1)
          ELSE data[k]]

(* aae_SHA1_Final: the bit count is saved, the padding fed byte by byte,   *)
(* the count fed last; the digest is the state.                            *)
Padded(ctx) ==
  LET pad[k \in 0..Block] ==
        IF k = 0 THEN Update(ctx, <<One>>)
        ELSE IF Waiting(pad[k - 1]) = Block - LenBytes THEN pad[k - 1]
        ELSE Update(pad[k - 1], <<Nul>>)
  IN  pad[Block]

Final(ctx) == Update(Padded(ctx), LengthField(ctx.count)).state

-----------------------------------------------------------------------------
(* What SHA-1 is: the message, a one, as many zeros as are needed and the  *)
(* length in bits fill whole blocks, which are mixed in one by one.        *)
Complete(message) ==
  LET len == Len(message)
      nuls == CHOOSE n \in 0..(Block - 1) : (len + 1 + n + LenBytes) % Block = 0
  IN  message \o <<One>> \o [k \in 1..nuls |-> Nul]
        \o LengthField(<<(8 * len) % Word, ((8 * len) \div Word) % Word>>)

Sha1Of(message) ==
  LET m == Complete(message)
  IN  <<"constants">> \o [b \in 1..(Len(m) \div Block) |-> SubSeq(m, (b - 1) * Block + 1, b * Block)]
===============================================================================
