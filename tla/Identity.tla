------------------------------ MODULE Identity ------------------------------
(***************************************************************************)
(* The conversions behind the identity of a device: the serial number      *)
(* hashed from the hardware id (src/lib/product_id.c), the Bluetooth       *)
(* address made of it (src/bluetooth.c) and the key made of the token that *)
(* scripts/gen_cred_partition.py wrote (generate_hex, src/lwm2m.c).        *)
(* A token is a sequence of characters.  A letter or a digit stands for    *)
(* its value as a digit, upper and lower case alike; any other character   *)
(* is Other.                                                               *)
(***************************************************************************)
EXTENDS Integers, Sequences

CONSTANTS
  KeySize,    \* LWM2M_DEVICE_TOKEN_HEX_SIZE, 16 in the code
  Word,       \* the values of a u32_t, 2^32 in the code
  Zep1656     \* TRUE if Zephyr toggles the U/L bit of the address

ASSUME IdentityAssumption ==
  KeySize \in Nat \ {0} /\ Word \in Nat \ {0} /\ Zep1656 \in BOOLEAN

Alnum == 0..35               \* isdigit or isalpha
Other == -1
Invalid == << >>             \* -EINVAL or -E2BIG: there is no key

-----------------------------------------------------------------------------
(* Two characters make a byte, in a u8_t; g to z are not told apart from   *)
(* the digits.                                                             *)
HexByte(hi, lo) == (((hi * 16) % 256) + lo) % 256

(* Every character is looked at; an odd last one is dropped.               *)
generate_hex(src) ==
  IF Len(src) \div 2 = KeySize /\ \A i \in 1..Len(src) : src[i] \in Alnum
  THEN [j \in 1..KeySize |-> HexByte(src[2 * j - 1], src[2 * j])]
  ELSE Invalid

hash32(str) ==
  LET h[i \in 0..Len(str)] ==
        IF i = 0 THEN 0 ELSE (h[i - 1] * 37 + str[i]) % Word
  IN  h[Len(str)]

Digit(d) == IF d < 10 THEN 48 + d ELSE 87 + d

(* product_id_init: the hardware id, a sequence of 32-bit words, printed   *)
(* with eight digits each.                                                 *)
Buffer(words) ==
  [k \in 1 .. 8 * Len(words) |->
     Digit((words[((k - 1) \div 8) + 1] \div (16^(7 - ((k - 1) % 8)))) % 16)]

SerialNumber(words) == hash32(Buffer(words))

Shifted(number) ==
  LET byte1 == number \div 256
      byte2 == byte1 \div 256
  IN  <<number, byte1, byte2, byte2 \div 256>>

(* set_own_bt_addr: the four bytes of the number, lowest first, and two    *)
(* that make a static random address of them.                              *)
OwnAddress(number) ==
  [i \in 1..4 |-> Shifted(number)[i] % 256]
    \o <<231, IF Zep1656 THEN 214 ELSE 212>>
=============================================================================
