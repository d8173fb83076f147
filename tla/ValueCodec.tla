----------------------------- MODULE ValueCodec -----------------------------
(* The encoding of a value in an SST (value.rs): meta, user_meta, expires_at *)
(* in a variable number of bytes, and the value itself.                      *)
EXTENDS Naturals, Sequences

(* The fields of Value that are stored.                                      *)
ValueFields == [meta : 0..255, userMeta : 0..255, expiresAt : Nat, value : Seq(0..255)]

(* var_size: how many groups of seven bits n has.                            *)
VarSize(n) ==
  LET size[m \in 0..n] == IF m < 128 THEN 1 ELSE 1 + size[m \div 128] IN size[n]

(* encode_var.  The loop runs to 0x128 = 296 (0x80 may be meant), and no     *)
(* byte carries a continuation bit.                                          *)
EncodeVar(data) ==
  LET bytes[n \in 0..data] == IF n < 296 THEN <<n % 256>> ELSE <<n % 128>> \o bytes[n \div 128]
  IN  bytes[data]

(* decode_var: a first byte 0 is the number 0.  Otherwise the loop, while    *)
(* index > bytes.len(), does not run and index is still 0 at the panic.      *)
Panics == [panics |-> TRUE, ans |-> 0, read |-> 0]

DecodeVar(bytes) ==
  IF bytes # <<>> /\ bytes[1] = 0 THEN [panics |-> FALSE, ans |-> 0, read |-> 1] ELSE Panics

Encode(v) == <<v.meta, v.userMeta>> \o EncodeVar(v.expiresAt) \o v.value

(* encoded_size *)
EncodedSize(v) == Len(v.value) + 2 + IF v.expiresAt = 0 THEN 1 ELSE VarSize(v.expiresAt)

(* Value::decode does not return for these bytes.                            *)
DecodePanics(bytes) == DecodeVar(SubSeq(bytes, 3, Len(bytes))).panics

Decode(bytes) ==
  LET var == DecodeVar(SubSeq(bytes, 3, Len(bytes)))
  IN  [meta |-> bytes[1], userMeta |-> bytes[2], expiresAt |-> var.ans,
       value |-> SubSeq(bytes, var.read + 3, Len(bytes))]
=============================================================================
