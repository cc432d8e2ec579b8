--------------------------- MODULE DeviceObjects ---------------------------
(***************************************************************************)
(* What a device publishes in its LwM2M objects and where it comes from:   *)
(* main() (src/main.c) with its self test, lwm2m_setup (src/lwm2m.c) with  *)
(* the credentials, the temperature (IPSO 3303) and the light (IPSO 3311,  *)
(* src/light_control.c), and the scripts that toggle the light             *)
(* (scripts/toggle-lights.py).                                             *)
(*                                                                         *)
(* The main thread runs lwm2m_start again whenever the interface comes up, *)
(* while the engine thread serves reads and writes.  A write takes effect  *)
(* in two steps, of which the second can fail: the engine stores the       *)
(* value, then calls on_off_cb.  Several scripts, and other writers, work  *)
(* on the same light; a request may be lost, or only its answer.           *)
(***************************************************************************)
EXTENDS Identity

CONSTANTS
  Id,          \* device ids, each a value
  Token,       \* tokens a partition may hold, sequences of characters
  DefaultPsk,  \* DEFAULT_CLIENT_PSK, such a sequence
  SerialName,  \* the name made of the serial number
  Erased,      \* what an erased flash reads as: a string without an end
  Garbled,     \* a buffer after a read that failed, or never written
  None,        \* nothing published, read or acknowledged yet
  Script,      \* the scripts that toggle the light
  Reading,     \* what the temperature sensor may measure
  Inverted,    \* CONFIG_FOTA_LED_GPIO_INVERTED
  Faults       \* what may go wrong

Fault == {"init",    \* a step of init_temp_device or init_light_control
          "flash",   \* reading the credentials
          "setup",   \* another step of lwm2m_start
          "gpio",    \* writing the pin, which is then left as it is
          "sensor",  \* fetching or getting a temperature
          "lost",    \* a request, or its answer
          "reset"}   \* a reset at any moment

ASSUME ObjectsAssumption ==
  /\ Token \subseteq Seq(Alnum \cup {Other})
  /\ DefaultPsk \in [1 .. 2 * KeySize -> 0..15]
  /\ SerialName \notin Id /\ {Erased, Garbled} \cap (Id \cup {SerialName}) = {}
  /\ {Erased, Garbled} \cap (Token \cup {DefaultPsk}) = {}
  /\ Garbled # Erased /\ None \notin Id \cup {SerialName, Garbled}
  /\ {None, Garbled} \cap Reading = {} /\ None \notin BOOLEAN
  /\ Inverted \in BOOLEAN /\ Faults \subseteq Fault

VARIABLES
  id, token,    \* flash: the credentials partition
  main,         \* where the main thread is
  serving,      \* TRUE once the client has been started
  name, key,    \* 0/0/3 and 0/0/5
  temp,         \* temp_float, 3303/0/5700; None stands for the initial zero
  pin,          \* the level of the LED's pin
  led_current,  \* the light as on_off_cb believes it to be
  value,        \* 3311/0/5850
  phase,        \* where each script is
  nextstate,    \* the value a script is about to put
  misread,      \* history: which of id, token could not be read for name, key
  acked,        \* history: what the last write asked for, None if it failed
  seen          \* history: the light when a script read it; None if it has
                \* changed since, or was not what the resource said

identity == <<id, token, name, key, misread>>
light    == <<pin, led_current, value, acked>>
scripts  == <<phase, nextstate, seen>>
vars     == <<identity, main, serving, temp, light, scripts>>

lamp == pin # Inverted       \* TRUE if the light is on

TypeOK ==
  /\ id \in Id \cup {Erased} /\ token \in Token \cup {Erased}
  /\ main \in {"off", "start", "client", "run", "failed", "stopped"}
  /\ serving \in BOOLEAN /\ misread \in SUBSET {"id", "token"}
  /\ name \in Id \cup {SerialName, None}
  /\ key \in [1..KeySize -> 0..255] \cup {None}
  /\ temp \in Reading \cup {None}
  /\ pin \in BOOLEAN /\ led_current \in BOOLEAN /\ value \in BOOLEAN
  /\ phase \in [Script -> {"get", "put", "done", "failed"}]
  /\ nextstate \in [Script -> BOOLEAN]
  /\ acked \in BOOLEAN \cup {None}
  /\ seen \in [Script -> BOOLEAN \cup {None}]

(* The partition is erased, or written by gen_cred_partition.py.           *)
Init ==
  /\ \/ id = Erased /\ token = Erased
     \/ id \in Id /\ token \in Token
  /\ main = "off" /\ serving = FALSE /\ name = None /\ key = None
  /\ misread = {} /\ temp = None
  /\ pin \in BOOLEAN /\ led_current = FALSE /\ value = FALSE /\ acked = None
  /\ phase = [s \in Script |-> "get"]
  /\ nextstate = [s \in Script |-> FALSE]
  /\ seen = [s \in Script |-> None]

-----------------------------------------------------------------------------
(* main() and lwm2m_start.                                                 *)

(* What init_light_control writes to the pin.                              *)
OffLevel == Inverted

(* The light starts off, unless a step of this or of init_temp_device      *)
(* fails.                                                                  *)
init_light_control(ret) ==
  \/ ret = 0 /\ pin' = OffLevel
  \/ "init" \in Faults /\ ret = -1 /\ pin' \in {pin, OffLevel}

(* main(): a device whose self test fails never gets to lwm2m_init; an     *)
(* error of fota_settings_init does not stop it.                           *)
SelfTest ==
  /\ main = "off"
  /\ \/ init_light_control(0) /\ main' = "start" /\ acked' = FALSE
     \/ init_light_control(-1) /\ main' = "stopped" /\ UNCHANGED acked
  /\ UNCHANGED <<identity, serving, temp, led_current, value, scripts>>

(* flash_read into a static buffer: a field of the partition, or an error  *)
(* that leaves a mixture of the old and the new.                           *)
Read(stored, ret, buffer) ==
  \/ ret = 0 /\ buffer = stored
  \/ "flash" \in Faults /\ ret = -1 /\ buffer = Garbled

EndpointName_ByEndOnly(ret, buffer) ==
  IF buffer = Erased THEN SerialName ELSE buffer

(* The stored id if it could be read and has an end.                       *)
EndpointName(ret, buffer) ==
  IF ret # 0 \/ buffer = Erased THEN SerialName ELSE buffer

Psk(ret, buffer) ==
  IF ret # 0 \/ buffer = Erased THEN DefaultPsk ELSE buffer

(* lwm2m_setup up to the values of the Security object; a token that makes *)
(* no key, or another step that fails, ends lwm2m_start.                   *)
Setup ==
  /\ main = "start"
  /\ \E ret, tokenRet \in {0, -1}, ep_name \in {id, Garbled},
        client_psk \in {token, Garbled} :
       LET psk == generate_hex(Psk(tokenRet, client_psk)) IN
       /\ Read(id, ret, ep_name) /\ Read(token, tokenRet, client_psk)
       /\ \/ /\ psk # Invalid
             /\ name' = EndpointName(ret, ep_name) /\ key' = psk
             /\ misread' = (IF ret = 0 THEN {} ELSE {"id"})
                             \cup (IF tokenRet = 0 THEN {} ELSE {"token"})
             /\ main' = "client"
          \/ /\ psk = Invalid \/ "setup" \in Faults
             /\ main' = "failed" /\ UNCHANGED <<name, key, misread>>
  /\ UNCHANGED <<id, token, serving, temp, light, scripts>>

(* lwm2m_rd_client_start.                                                  *)
StartClient ==
  /\ main = "client"
  /\ main' = "run" /\ serving' = TRUE
  /\ UNCHANGED <<identity, temp, light, scripts>>

(* event_iface_up, again.                                                  *)
InterfaceUpAgain ==
  /\ main \in {"run", "failed"}
  /\ main' = "start"
  /\ UNCHANGED <<identity, serving, temp, light, scripts>>

Unseen == [s \in Script |-> None]

StillSeen == IF lamp' = lamp THEN seen ELSE Unseen

(* All RAM is lost; the pin floats until init_light_control.               *)
Reset ==
  /\ "reset" \in Faults /\ main # "off"
  /\ main' = "off" /\ serving' = FALSE /\ name' = None /\ key' = None
  /\ misread' = {} /\ temp' = None
  /\ pin' \in BOOLEAN /\ led_current' = FALSE /\ value' = FALSE
  /\ acked' = None /\ seen' = Unseen
  /\ UNCHANGED <<id, token, phase, nextstate>>

-----------------------------------------------------------------------------
(* The engine thread.                                                      *)

ReadFails_Stored == temp' = Garbled

ReadFails == UNCHANGED temp

(* temp_read_cb, for instance 0, the only one main() creates: if the       *)
(* sensor cannot be read, the last value is served.                        *)
ReadTemperature ==
  /\ serving
  /\ temp' \in Reading \/ ("sensor" \in Faults /\ ReadFails)
  /\ UNCHANGED <<identity, main, serving, light, scripts>>

OnOffFails_CacheKept(v) == UNCHANGED pin /\ led_current' = v

(* gpio_pin_write returns an error: nothing else has changed.              *)
OnOffFails(v) == UNCHANGED <<pin, led_current>>

GpioError_Dropped == 0

GpioError == -1

(* The engine stores v and calls on_off_cb, whose result it answers with;  *)
(* a light that is believed to show v already is not touched.  v comes in  *)
(* one byte, as every Boolean does: on_off_cb's test of data_len passes.   *)
OnOff(v, ret) ==
  /\ value' = v
  /\ IF v = led_current
     THEN ret = 0 /\ UNCHANGED <<pin, led_current>>
     ELSE \/ ret = 0 /\ pin' = (v # Inverted) /\ led_current' = v
          \/ "gpio" \in Faults /\ ret = GpioError /\ OnOffFails(v)
  /\ acked' = IF ret = 0 THEN v ELSE None

-----------------------------------------------------------------------------
(* The scripts and other writers.                                          *)

(* toggle(): get() answers with the value, or with None for an error, and  *)
(* `not None' switches the light on.                                       *)
Get(s) ==
  /\ phase[s] # "put"
  /\ \/ /\ serving
        /\ nextstate' = [nextstate EXCEPT ![s] = ~value]
        /\ seen' = [seen EXCEPT ![s] = IF value = lamp THEN lamp ELSE None]
     \/ /\ ~serving \/ "lost" \in Faults
        /\ nextstate' = [nextstate EXCEPT ![s] = TRUE]
        /\ seen' = [seen EXCEPT ![s] = None]
  /\ phase' = [phase EXCEPT ![s] = "put"]
  /\ UNCHANGED <<identity, main, serving, temp, light>>

(* put(): carried out and answered, carried out without an answer, or not  *)
(* carried out.                                                            *)
Put(s) ==
  /\ phase[s] = "put"
  /\ \/ /\ serving
        /\ \E ret \in {0, -1} :
             /\ OnOff(nextstate[s], ret)
             /\ \/ phase' = [phase EXCEPT ![s] = IF ret = 0 THEN "done"
                                                            ELSE "failed"]
                \/ "lost" \in Faults /\ phase' = [phase EXCEPT ![s] = "failed"]
        /\ seen' = StillSeen
     \/ /\ ~serving \/ "lost" \in Faults
        /\ phase' = [phase EXCEPT ![s] = "failed"]
        /\ UNCHANGED <<light, seen>>
  /\ UNCHANGED <<identity, main, serving, temp, nextstate>>

(* Anybody else writes the light: another user, or a request of a script   *)
(* that has given up waiting for it.                                       *)
OtherWrite(v) ==
  /\ serving
  /\ \E ret \in {0, -1} : OnOff(v, ret)
  /\ seen' = StillSeen
  /\ UNCHANGED <<identity, main, serving, temp, phase, nextstate>>

-----------------------------------------------------------------------------
DeviceStep ==
  SelfTest \/ Setup \/ StartClient \/ InterfaceUpAgain \/ Reset
    \/ ReadTemperature

Next ==
  \/ DeviceStep
  \/ \E s \in Script : Get(s) \/ Put(s)
  \/ \E v \in BOOLEAN : OtherWrite(v)

Spec == Init /\ [][Next]_vars

-----------------------------------------------------------------------------
(* Properties.                                                             *)

(* The light shows what the last write asked for if that write was         *)
(* acknowledged, also one that repeats a write whose GPIO operation failed *)
(* (on_off_cb), and it is off after a start, whatever the pin was.         *)
AcknowledgedIsShown == acked # None => lamp = acked

(* No toggle is lost but to a change of the light in between: one that is  *)
(* answered changes the light, however many writes that changed nothing    *)
(* came after the script's read, unless the light itself changed or was    *)
(* not what the resource said, after a failed GPIO operation (toggle,      *)
(* line 101).                                                              *)
ToggleInverts ==
  [][\A s \in Script :
       phase[s] = "put" /\ phase'[s] = "done" /\ seen[s] # None =>
         lamp' = ~lamp]_vars

(* Where the name and the key come from.                                   *)
Provisioned ==
  /\ name = id \/ (name = SerialName /\ (id = Erased \/ "id" \in misread))
  /\ \/ key = generate_hex(DefaultPsk)
        /\ (token = Erased \/ "token" \in misread)
     \/ /\ token # Erased /\ Len(token) >= 2 * KeySize
        /\ \A j \in 1..KeySize :
             key[j] = (16 * token[2 * j - 1] + token[2 * j]) % 256

(* A device registers under the id and with the key it was given; under    *)
(* its serial number or with the default key only if that part was never   *)
(* written or reading it failed; and never with remains of a failed read   *)
(* (lwm2m_setup), also after the interface came up again and again.        *)
RegistersAsProvisioned == serving => Provisioned
=============================================================================
