-------------------------- MODULE MCDeviceObjects --------------------------
(* Values for the run of DeviceObjects: a token of two hexadecimal digits  *)
(* for each byte of a key, one with letters beyond f, one that is too      *)
(* short, none at all, and one with a character that makes no key.         *)
EXTENDS DeviceObjects
CONSTANTS S1, S2, Id1

Scripts  == {S1, S2}
Tokens   == {<<1, 2, 15, 14>>, <<35, 35, 0, 16>>, <<1, 2, 3>>, << >>,
             <<1, 2, 3, Other>>}
Default  == <<0, 0, 0, 1>>
Ids      == {Id1}
Warm     == {20, 21}

EveryFault == Fault

(* hash32 is the value of a polynomial in 37: checked for hardware ids of  *)
(* one word that differ in their first and last digits.                    *)
Power[n \in Nat] == IF n = 0 THEN 1 ELSE (37 * Power[n - 1]) % Word

Polynomial(str) ==
  LET sum[i \in 0..Len(str)] ==
        IF i = 0 THEN 0
        ELSE (sum[i - 1] + str[i] * Power[Len(str) - i]) % Word
  IN  sum[Len(str)]

ASSUME HashAssumption ==
  \A a, b \in 0..15 :
    LET words == <<a * 16^6 + b>> IN
    SerialNumber(words) = Polynomial(Buffer(words))
=============================================================================
