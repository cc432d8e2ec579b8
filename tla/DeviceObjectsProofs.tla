------------------------ MODULE DeviceObjectsProofs ------------------------
(* Theorems about DeviceObjects, for any number of scripts, any partition  *)
(* contents and whatever goes wrong.                                       *)
EXTENDS DeviceObjects, IdentityProofs

LEMMA HexByteModulo ==
  ASSUME NEW hi \in 0..35, NEW lo \in 0..35
  PROVE  HexByte(hi, lo) = (16 * hi + lo) % 256
<1>1. CASE hi < 16
  <2>1. (hi * 16) % 256 = 16 * hi
    BY <1>1
  <2>. QED
    BY <2>1 DEF HexByte
<1>2. CASE hi \in 16..31
  <2>1. (hi * 16) % 256 = 16 * hi - 256
    BY <1>2
  <2>. QED
    BY <1>2, <2>1 DEF HexByte
<1>3. CASE hi \in 32..35
  <2>1. (hi * 16) % 256 = 16 * hi - 512
    BY <1>3
  <2>. QED
    BY <1>3, <2>1 DEF HexByte
<1>. QED
  BY <1>1, <1>2, <1>3

(* What generate_hex makes of a token it accepts.                          *)
LEMMA KeyOfToken ==
  ASSUME NEW src \in Seq(Alnum \cup {Other}), generate_hex(src) # Invalid
  PROVE  /\ Len(src) >= 2 * KeySize
         /\ generate_hex(src) \in [1..KeySize -> 0..255]
         /\ \A j \in 1..KeySize :
              generate_hex(src)[j] = (16 * src[2 * j - 1] + src[2 * j]) % 256
<1>. USE IdentityAssumption DEF IdentityAssumption
<1>1. /\ Len(src) \div 2 = KeySize
      /\ \A i \in 1..Len(src) : src[i] \in Alnum
  BY DEF generate_hex
<1>2. Len(src) >= 2 * KeySize
  BY <1>1
<1>3. ASSUME NEW j \in 1..KeySize
      PROVE  generate_hex(src)[j] = (16 * src[2 * j - 1] + src[2 * j]) % 256
  <2>1. 2 * j - 1 \in 1..Len(src) /\ 2 * j \in 1..Len(src)
    BY <1>2
  <2>2. src[2 * j - 1] \in 0..35 /\ src[2 * j] \in 0..35
    BY <1>1, <2>1 DEF Alnum
  <2>3. generate_hex(src)[j] = HexByte(src[2 * j - 1], src[2 * j])
    BY <1>1 DEF generate_hex
  <2>4. HexByte(src[2 * j - 1], src[2 * j])
          = (16 * src[2 * j - 1] + src[2 * j]) % 256
    BY <2>2, HexByteModulo, Zenon
  <2>. QED
    BY <2>3, <2>4, Zenon
<1>4. generate_hex(src) \in [1..KeySize -> 0..255]
  BY KeyIsWhole
<1>. QED
  BY <1>2, <1>3, <1>4

LEMMA NameFacts ==
  ASSUME TypeOK, NEW ret \in {0, -1}, NEW buffer \in {id, Garbled},
         Read(id, ret, buffer)
  PROVE  /\ EndpointName(ret, buffer) \in Id \cup {SerialName}
         /\ \/ EndpointName(ret, buffer) = id
            \/ EndpointName(ret, buffer) = SerialName /\ (id = Erased \/ ret # 0)
  BY DEF EndpointName, Read, TypeOK

LEMMA PskFacts ==
  ASSUME TypeOK, NEW ret \in {0, -1}, NEW buffer \in {token, Garbled},
         Read(token, ret, buffer)
  PROVE  /\ Psk(ret, buffer) \in Seq(Alnum \cup {Other})
         /\ \/ Psk(ret, buffer) = token /\ token # Erased
            \/ Psk(ret, buffer) = DefaultPsk /\ (token = Erased \/ ret # 0)
<1>. USE IdentityAssumption, ObjectsAssumption
     DEF IdentityAssumption, ObjectsAssumption
<1>1. DefaultPsk \in Seq(Alnum \cup {Other})
  BY DEF Alnum
<1>. QED
  BY <1>1 DEF Psk, Read, TypeOK

(* What lwm2m_setup can do: fail, or publish a name and a key.             *)
LEMMA SetupFacts ==
  ASSUME TypeOK, Setup
  PROVE  /\ UNCHANGED <<id, token, serving, temp, pin, led_current, value,
                        acked, phase, nextstate, seen>>
         /\ \/ main' = "failed" /\ UNCHANGED <<name, key, misread>>
            \/ /\ main' = "client" /\ Provisioned'
               /\ name' \in Id \cup {SerialName}
               /\ key' \in [1..KeySize -> 0..255]
               /\ misread' \in SUBSET {"id", "token"}
<1>1. UNCHANGED <<id, token, serving, temp, pin, led_current, value, acked,
                  phase, nextstate, seen>>
  BY DEF Setup, light, scripts
<1>2. PICK ret \in {0, -1}, tokenRet \in {0, -1},
           ep_name \in {id, Garbled}, client_psk \in {token, Garbled} :
        LET psk == generate_hex(Psk(tokenRet, client_psk)) IN
        /\ Read(id, ret, ep_name) /\ Read(token, tokenRet, client_psk)
        /\ \/ /\ psk # Invalid
              /\ name' = EndpointName(ret, ep_name) /\ key' = psk
              /\ misread' = (IF ret = 0 THEN {} ELSE {"id"})
                              \cup (IF tokenRet = 0 THEN {} ELSE {"token"})
              /\ main' = "client"
           \/ /\ psk = Invalid \/ "setup" \in Faults
              /\ main' = "failed" /\ UNCHANGED <<name, key, misread>>
  BY DEF Setup
<1>. DEFINE src == Psk(tokenRet, client_psk)
<1>3. CASE main' = "failed" /\ UNCHANGED <<name, key, misread>>
  BY <1>1, <1>3
<1>4. CASE /\ generate_hex(src) # Invalid
           /\ name' = EndpointName(ret, ep_name) /\ key' = generate_hex(src)
           /\ misread' = (IF ret = 0 THEN {} ELSE {"id"})
                           \cup (IF tokenRet = 0 THEN {} ELSE {"token"})
           /\ main' = "client"
  <2>1. /\ misread' \in SUBSET {"id", "token"}
        /\ ret # 0 => "id" \in misread'
        /\ tokenRet # 0 => "token" \in misread'
    BY <1>4
  <2>2. /\ name' \in Id \cup {SerialName}
        /\ name' = id' \/ (name' = SerialName
                            /\ (id' = Erased \/ "id" \in misread'))
    BY <1>1, <1>2, <1>4, <2>1, NameFacts
  <2>3. /\ src \in Seq(Alnum \cup {Other})
        /\ \/ src = token /\ token # Erased
           \/ src = DefaultPsk /\ (token = Erased \/ tokenRet # 0)
    BY <1>2, PskFacts
  <2>. HIDE DEF src
  <2>n. generate_hex(src) # Invalid /\ key' = generate_hex(src)
    BY <1>4
  <2>4. /\ Len(src) >= 2 * KeySize
        /\ key' \in [1..KeySize -> 0..255]
        /\ \A j \in 1..KeySize :
             key'[j] = (16 * src[2 * j - 1] + src[2 * j]) % 256
    <3>1. src \in Seq(Alnum \cup {Other})
      BY <2>3
    <3>2. /\ Len(src) >= 2 * KeySize
          /\ generate_hex(src) \in [1..KeySize -> 0..255]
          /\ \A j \in 1..KeySize :
               generate_hex(src)[j] = (16 * src[2 * j - 1] + src[2 * j]) % 256
      BY <2>n, <3>1, KeyOfToken
    <3>. QED
      BY <2>n, <3>2, Zenon
  <2>5. Provisioned'
    <3>1. CASE src = token /\ token # Erased
      BY <1>1, <2>2, <2>4, <3>1 DEF Provisioned
    <3>2. CASE src = DefaultPsk /\ (token = Erased \/ tokenRet # 0)
      BY <1>1, <1>4, <2>1, <2>2, <3>2 DEF Provisioned
    <3>. QED
      BY <2>3, <3>1, <3>2
  <2>. QED
    BY <1>1, <1>4, <2>1, <2>2, <2>4, <2>5
<1>. QED
  BY <1>2, <1>3, <1>4

LEMMA TypeInit == Init => TypeOK
  BY DEF Init, TypeOK

LEMMA OnOffTypes ==
  ASSUME TypeOK, NEW v \in BOOLEAN, NEW ret \in {0, -1}, OnOff(v, ret)
  PROVE  /\ pin' \in BOOLEAN /\ led_current' \in BOOLEAN
         /\ value' \in BOOLEAN /\ acked' \in BOOLEAN \cup {None}
<1>1. pin' \in BOOLEAN /\ led_current' \in BOOLEAN
  BY Zenon DEF OnOff, OnOffFails, TypeOK
<1>. QED
  BY <1>1, Zenon DEF OnOff

LEMMA SeenType ==
  ASSUME TypeOK, seen' = StillSeen
  PROVE  seen' \in [Script -> BOOLEAN \cup {None}]
  BY DEF TypeOK, StillSeen, Unseen

LEMMA TypeStep == TypeOK /\ [Next]_vars => TypeOK'
<1>. SUFFICES ASSUME TypeOK, [Next]_vars PROVE TypeOK'
  OBVIOUS
<1>. USE ObjectsAssumption DEF ObjectsAssumption, TypeOK
<1>1. CASE SelfTest
  <2>1. pin' \in BOOLEAN /\ acked' \in BOOLEAN \cup {None}
    <3>1. pin' = Inverted \/ pin' = pin
      BY <1>1, Zenon DEF SelfTest, init_light_control, OffLevel
    <3>2. acked' = FALSE \/ acked' = acked
      BY <1>1, Zenon DEF SelfTest, init_light_control
    <3>. QED
      BY <3>1, <3>2, Zenon
  <2>2. main' \in {"start", "stopped"}
    BY <1>1 DEF SelfTest, init_light_control
  <2>3. UNCHANGED <<id, token, name, key, misread, serving, temp,
                    led_current, value, phase, nextstate, seen>>
    BY <1>1 DEF SelfTest, init_light_control, identity, scripts
  <2>. QED
    BY <2>1, <2>2, <2>3
<1>2. CASE Setup
  <2>. HIDE DEF TypeOK
  <2>1. /\ UNCHANGED <<id, token, serving, temp, pin, led_current, value,
                       acked, phase, nextstate, seen>>
        /\ \/ main' = "failed" /\ UNCHANGED <<name, key, misread>>
           \/ /\ main' = "client" /\ name' \in Id \cup {SerialName}
              /\ key' \in [1..KeySize -> 0..255]
              /\ misread' \in SUBSET {"id", "token"}
    BY <1>2, SetupFacts
  <2>t. /\ misread \in SUBSET {"id", "token"}
        /\ name \in Id \cup {SerialName, None}
        /\ key \in [1..KeySize -> 0..255] \cup {None}
    BY DEF TypeOK
  <2>2. /\ main' \in {"client", "failed"} /\ misread' \in SUBSET {"id", "token"}
        /\ name' \in Id \cup {SerialName, None}
        /\ key' \in [1..KeySize -> 0..255] \cup {None}
    <3>1. CASE main' = "failed" /\ UNCHANGED <<name, key, misread>>
      BY <2>t, <3>1
    <3>2. CASE /\ main' = "client" /\ name' \in Id \cup {SerialName}
               /\ key' \in [1..KeySize -> 0..255]
               /\ misread' \in SUBSET {"id", "token"}
      BY <3>2
    <3>. QED
      BY <2>1, <3>1, <3>2, Zenon
  <2>3. UNCHANGED <<id, token, serving, temp, pin, led_current, value, acked,
                    phase, nextstate, seen>>
    BY <2>1
  <2>. QED
    BY <2>2, <2>3 DEF TypeOK
<1>3. CASE StartClient \/ InterfaceUpAgain
  <2>1. UNCHANGED <<id, token, name, key, misread, temp, pin, led_current,
                    value, acked, phase, nextstate, seen>>
    BY <1>3 DEF StartClient, InterfaceUpAgain, identity, light, scripts
  <2>2. main' \in {"run", "start"} /\ serving' \in BOOLEAN
    BY <1>3, Zenon DEF StartClient, InterfaceUpAgain
  <2>. QED
    BY <2>1, <2>2
<1>4. CASE Reset
  <2>1. pin' \in BOOLEAN /\ led_current' = FALSE /\ value' = FALSE
    BY <1>4 DEF Reset
  <2>2. seen' \in [Script -> BOOLEAN \cup {None}]
    BY <1>4 DEF Reset, Unseen
  <2>3. /\ main' = "off" /\ serving' = FALSE /\ name' = None /\ key' = None
        /\ misread' = {} /\ temp' = None /\ acked' = None
        /\ UNCHANGED <<id, token, phase, nextstate>>
    BY <1>4 DEF Reset
  <2>. QED
    BY <2>1, <2>2, <2>3
<1>5. CASE ReadTemperature
  BY <1>5 DEF ReadTemperature, ReadFails, identity, light, scripts
<1>6. ASSUME NEW s \in Script, Get(s) PROVE TypeOK'
  <2>1. lamp \in BOOLEAN /\ (~value) \in BOOLEAN
    BY DEF lamp
  <2>2. PICK v \in BOOLEAN, l \in BOOLEAN \cup {None} :
          /\ nextstate' = [nextstate EXCEPT ![s] = v]
          /\ seen' = [seen EXCEPT ![s] = l]
    BY <1>6, <2>1, Zenon DEF Get
  <2>3. /\ nextstate' \in [Script -> BOOLEAN]
        /\ seen' \in [Script -> BOOLEAN \cup {None}]
    BY <2>2
  <2>4. phase' \in [Script -> {"get", "put", "done", "failed"}]
    BY <1>6 DEF Get
  <2>5. UNCHANGED <<id, token, name, key, misread, main, serving, temp, pin,
                    led_current, value, acked>>
    BY <1>6 DEF Get, identity, light
  <2>. QED
    BY <2>3, <2>4, <2>5
<1>7. ASSUME NEW s \in Script, Put(s) PROVE TypeOK'
  <2>1. nextstate[s] \in BOOLEAN
    OBVIOUS
  <2>2. /\ pin' \in BOOLEAN /\ led_current' \in BOOLEAN
        /\ value' \in BOOLEAN /\ acked' \in BOOLEAN \cup {None}
    BY <1>7, <2>1, OnOffTypes DEF Put, light
  <2>3. /\ phase' \in [Script -> {"get", "put", "done", "failed"}]
        /\ seen' \in [Script -> BOOLEAN \cup {None}]
    BY <1>7, SeenType DEF Put
  <2>. QED
    BY <1>7, <2>2, <2>3 DEF Put, identity
<1>8. ASSUME NEW v \in BOOLEAN, OtherWrite(v) PROVE TypeOK'
  <2>1. /\ pin' \in BOOLEAN /\ led_current' \in BOOLEAN
        /\ value' \in BOOLEAN /\ acked' \in BOOLEAN \cup {None}
    BY <1>8, OnOffTypes DEF OtherWrite
  <2>2. seen' \in [Script -> BOOLEAN \cup {None}]
    BY <1>8, SeenType DEF OtherWrite
  <2>. QED
    BY <1>8, <2>1, <2>2 DEF OtherWrite, identity
<1>9. CASE UNCHANGED vars
  BY <1>9 DEF vars, identity, light, scripts
<1>. QED
  BY <1>1, <1>2, <1>3, <1>4, <1>5, <1>6, <1>7, <1>8, <1>9
     DEF Next, DeviceStep

(* Whatever goes wrong, the objects hold values of their types: no value   *)
(* of a failed read of the sensor or of the flash is ever published.       *)
THEOREM TypeCorrect == Spec => []TypeOK
  BY TypeInit, TypeStep, PTL DEF Spec
-----------------------------------------------------------------------------
(* The Security object is right as soon as lwm2m_setup is over: the client *)
(* is started with it a step later.                                        *)
ProvisionedInv == TypeOK /\ (serving \/ main = "client" => Provisioned)

LEMMA ProvisionedStep == ProvisionedInv /\ [Next]_vars => ProvisionedInv'
<1>. SUFFICES ASSUME ProvisionedInv, [Next]_vars PROVE ProvisionedInv'
  OBVIOUS
<1>1. TypeOK /\ TypeOK'
  BY TypeStep DEF ProvisionedInv
<1>2. ASSUME UNCHANGED identity, (serving \/ main = "client")' =>
                                    serving \/ main = "client"
      PROVE  ProvisionedInv'
  BY <1>1, <1>2 DEF ProvisionedInv, Provisioned, identity
<1>3. CASE SelfTest \/ ReadTemperature
  BY <1>2, <1>3 DEF SelfTest, init_light_control, ReadTemperature
<1>4. CASE Setup
  <2>1. /\ UNCHANGED <<id, token, serving>>
        /\ \/ main' = "failed" /\ UNCHANGED <<name, key, misread>>
           \/ main' = "client" /\ Provisioned'
    BY <1>1, <1>4, SetupFacts
  <2>2. CASE main' = "failed" /\ UNCHANGED <<name, key, misread>>
    BY <1>2, <2>1, <2>2 DEF identity
  <2>3. CASE main' = "client" /\ Provisioned'
    BY <1>1, <2>3 DEF ProvisionedInv
  <2>. QED
    BY <2>1, <2>2, <2>3
<1>5. CASE StartClient \/ InterfaceUpAgain
  BY <1>2, <1>5 DEF StartClient, InterfaceUpAgain
<1>6. CASE Reset
  BY <1>1, <1>6 DEF Reset, ProvisionedInv
<1>7. ASSUME NEW s \in Script, Get(s) \/ Put(s) PROVE ProvisionedInv'
  BY <1>2, <1>7 DEF Get, Put
<1>8. ASSUME NEW v \in BOOLEAN, OtherWrite(v) PROVE ProvisionedInv'
  BY <1>2, <1>8 DEF OtherWrite
<1>9. CASE UNCHANGED vars
  BY <1>2, <1>9 DEF vars
<1>. QED
  BY <1>3, <1>4, <1>5, <1>6, <1>7, <1>8, <1>9 DEF Next, DeviceStep

(* A device registers as it was provisioned, or openly as unprovisioned,   *)
(* however often lwm2m_setup runs and whatever reads of the flash fail.    *)
THEOREM ProvisionedAlways == Spec => []RegistersAsProvisioned
<1>1. Init => ProvisionedInv
  BY TypeInit DEF Init, ProvisionedInv
<1>2. ProvisionedInv => RegistersAsProvisioned
  BY DEF ProvisionedInv, RegistersAsProvisioned
<1>. QED
  BY <1>1, <1>2, ProvisionedStep, PTL DEF Spec

-----------------------------------------------------------------------------
(* What on_off_cb compares a new value with is what the light shows, so no *)
(* write is skipped for a light that shows something else.                 *)
CacheIsLamp == main \notin {"off", "stopped"} => led_current = lamp

LightInv ==
  /\ TypeOK /\ CacheIsLamp /\ AcknowledgedIsShown
  /\ main \in {"off", "stopped"} => ~serving /\ ~led_current /\ acked = None

(* on_off_cb: whatever it was asked for, the light is as it believes, and  *)
(* as it was asked to be if it reports no error.                           *)
LEMMA OnOffFacts ==
  ASSUME TypeOK, led_current = lamp, NEW v \in BOOLEAN, NEW ret \in {0, -1},
         OnOff(v, ret)
  PROVE  /\ led_current' = lamp' /\ acked' \in {v, None}
         /\ ret = 0 => lamp' = v
         /\ acked' # None => lamp' = acked'
<1>. USE ObjectsAssumption DEF ObjectsAssumption
<1>1. CASE v = led_current
  <2>1. ret = 0 /\ UNCHANGED <<pin, led_current>> /\ acked' = v
    BY <1>1, Zenon DEF OnOff
  <2>. QED
    BY <1>1, <2>1, Zenon DEF lamp
<1>2. CASE v # led_current /\ ret = 0
  <2>1. pin' = (v # Inverted) /\ led_current' = v /\ acked' = v
    <3>1. GpioError # 0
      BY DEF GpioError
    <3>. QED
      BY <1>2, <3>1, Zenon DEF OnOff
  <2>2. lamp' = v
    BY <2>1, Zenon DEF lamp
  <2>. QED
    BY <1>2, <2>1, <2>2, Zenon
<1>3. CASE v # led_current /\ ret # 0
  <2>1. UNCHANGED <<pin, led_current>> /\ acked' = None
    BY <1>3, Zenon DEF OnOff, OnOffFails
  <2>. QED
    BY <1>3, <2>1, Zenon DEF lamp
<1>. QED
  BY <1>1, <1>2, <1>3

LEMMA LightStep == LightInv /\ [Next]_vars => LightInv'
<1>. SUFFICES ASSUME LightInv, [Next]_vars PROVE LightInv'
  OBVIOUS
<1>1. TypeOK /\ TypeOK'
  BY TypeStep DEF LightInv
<1>2. ASSUME UNCHANGED light,
             \/ UNCHANGED <<main, serving>>
             \/ main \notin {"off", "stopped"} /\ main' \notin {"off", "stopped"}
      PROVE  LightInv'
  <2>1. lamp' = lamp /\ led_current' = led_current /\ acked' = acked
    BY <1>2, Zenon DEF light, lamp
  <2>2. CASE UNCHANGED <<main, serving>>
    BY <1>1, <2>1, <2>2 DEF LightInv, CacheIsLamp, AcknowledgedIsShown
  <2>3. CASE main \notin {"off", "stopped"} /\ main' \notin {"off", "stopped"}
    BY <1>1, <2>1, <2>3 DEF LightInv, CacheIsLamp, AcknowledgedIsShown
  <2>. QED
    BY <1>2, <2>2, <2>3
<1>3. CASE SelfTest
  <2>1. main = "off" /\ ~serving' /\ ~led_current' /\ acked = None
    BY <1>3 DEF SelfTest, init_light_control, LightInv
  <2>2. CASE main' = "start" /\ pin' = OffLevel /\ acked' = FALSE
    <3>1. lamp' = FALSE
      BY <2>2, Zenon DEF OffLevel, lamp
    <3>2. led_current' = FALSE
      BY <1>1, <2>1, Zenon DEF TypeOK
    <3>. QED
      BY <1>1, <2>2, <3>1, <3>2 DEF LightInv, CacheIsLamp, AcknowledgedIsShown
  <2>3. CASE main' = "stopped" /\ acked' = None
    BY <1>1, <2>1, <2>3 DEF LightInv, CacheIsLamp, AcknowledgedIsShown
  <2>. QED
    <3>1. \/ init_light_control(0) /\ main' = "start" /\ acked' = FALSE
          \/ main' = "stopped" /\ acked' = acked
      BY <1>3, Zenon DEF SelfTest
    <3>2. CASE init_light_control(0) /\ main' = "start" /\ acked' = FALSE
      <4>1. pin' = OffLevel
        BY <3>2 DEF init_light_control
      <4>. QED
        BY <2>2, <3>2, <4>1
    <3>. QED
      BY <2>1, <2>3, <3>1, <3>2
<1>4. CASE Setup
  BY <1>2, <1>4 DEF Setup
<1>5. CASE StartClient \/ InterfaceUpAgain \/ ReadTemperature
  <2>1. /\ UNCHANGED light
        /\ \/ UNCHANGED <<main, serving>>
           \/ main \notin {"off", "stopped"} /\ main' \notin {"off", "stopped"}
    BY <1>5 DEF StartClient, InterfaceUpAgain, ReadTemperature
  <2>. QED
    BY <1>2, <2>1
<1>6. CASE Reset
  BY <1>1, <1>6 DEF Reset, LightInv, CacheIsLamp, AcknowledgedIsShown
<1>7. ASSUME serving, UNCHANGED <<main, serving>>,
             NEW v \in BOOLEAN, NEW ret \in {0, -1}, OnOff(v, ret)
      PROVE  LightInv'
  <2>1. main \notin {"off", "stopped"} /\ led_current = lamp
    BY <1>7 DEF LightInv, CacheIsLamp
  <2>2. led_current' = lamp' /\ (acked' # None => lamp' = acked')
    BY <1>1, <1>7, <2>1, OnOffFacts
  <2>. QED
    BY <1>1, <1>7, <2>1, <2>2
       DEF LightInv, CacheIsLamp, AcknowledgedIsShown
<1>8. ASSUME NEW s \in Script, Get(s) PROVE LightInv'
  <2>1. UNCHANGED <<light, main, serving>>
    BY <1>8 DEF Get
  <2>. QED
    BY <1>2, <2>1
<1>9. ASSUME NEW s \in Script, Put(s) PROVE LightInv'
  <2>1. nextstate[s] \in BOOLEAN
    BY <1>1 DEF TypeOK
  <2>2. UNCHANGED <<main, serving>>
    BY <1>9 DEF Put
  <2>3. CASE UNCHANGED light
    BY <1>2, <2>2, <2>3
  <2>4. CASE serving /\ \E ret \in {0, -1} : OnOff(nextstate[s], ret)
    BY <1>7, <2>1, <2>2, <2>4
  <2>. QED
    BY <1>9, <2>3, <2>4 DEF Put
<1>10. ASSUME NEW v \in BOOLEAN, OtherWrite(v) PROVE LightInv'
  BY <1>7, <1>10 DEF OtherWrite
<1>11. CASE UNCHANGED vars
  <2>1. UNCHANGED <<light, main, serving>>
    BY <1>11 DEF vars
  <2>. QED
    BY <1>2, <2>1
<1>. QED
  BY <1>3, <1>4, <1>5, <1>6, <1>8, <1>9, <1>10, <1>11 DEF Next, DeviceStep

LEMMA LightInit == Init => LightInv
  BY TypeInit DEF Init, LightInv, CacheIsLamp, AcknowledgedIsShown

(* An acknowledged write of the light is shown, whatever writes failed     *)
(* before it and however the pin is wired.                                 *)
THEOREM AcknowledgedAlwaysShown == Spec => []AcknowledgedIsShown
<1>1. LightInv => AcknowledgedIsShown
  BY DEF LightInv
<1>. QED
  BY <1>1, LightInit, LightStep, PTL DEF Spec

(* A script that saw the light as it still is asks for the opposite; while *)
(* nothing is served, none has seen it.                                    *)
ToggleInv ==
  /\ LightInv
  /\ \A s \in Script :
       seen[s] # None =>
         /\ serving /\ seen[s] = lamp
         /\ phase[s] = "put" => nextstate[s] = ~seen[s]

(* A write that leaves the light alone leaves what was seen; another one   *)
(* leaves nothing.                                                         *)
LEMMA SeenAfter ==
  ASSUME seen' = StillSeen, NEW s \in Script, seen'[s] # None
  PROVE  lamp' = lamp /\ seen' = seen
<1>1. CASE lamp' = lamp
  BY <1>1, Zenon DEF StillSeen
<1>2. CASE lamp' # lamp
  <2>1. seen' = [r \in Script |-> None]
    BY <1>2, Zenon DEF StillSeen, Unseen
  <2>2. seen'[s] = None
    BY <2>1, Zenon
  <2>. QED
    BY <2>2
<1>. QED
  BY <1>1, <1>2

LEMMA ToggleStep == ToggleInv /\ [Next]_vars => ToggleInv'
<1>. SUFFICES ASSUME ToggleInv, [Next]_vars PROVE ToggleInv'
  OBVIOUS
<1>1. LightInv' /\ TypeOK /\ TypeOK'
  BY LightStep DEF ToggleInv, LightInv
<1>2. ASSUME \A s \in Script : seen'[s] = None PROVE ToggleInv'
  BY <1>1, <1>2 DEF ToggleInv
<1>3. ASSUME UNCHANGED <<scripts, pin>>, serving => serving'
      PROVE  ToggleInv'
  <2>1. lamp' = lamp /\ UNCHANGED <<phase, nextstate, seen>>
    BY <1>3, Zenon DEF lamp, scripts
  <2>. QED
    BY <1>1, <1>3, <2>1, Zenon DEF ToggleInv
<1>4. CASE DeviceStep
  <2>1. CASE Reset
    BY <1>2, <2>1 DEF Reset, Unseen
  <2>2. CASE SelfTest
    <3>1. ~serving /\ seen' = seen
      BY <2>2 DEF SelfTest, ToggleInv, LightInv, scripts
    <3>. QED
      BY <1>2, <3>1 DEF ToggleInv
  <2>3. CASE Setup
    BY <1>3, <2>3 DEF Setup, light
  <2>4. CASE StartClient \/ InterfaceUpAgain \/ ReadTemperature
    BY <1>3, <2>4 DEF StartClient, InterfaceUpAgain, ReadTemperature, light
  <2>. QED
    BY <1>4, <2>1, <2>2, <2>3, <2>4 DEF DeviceStep
<1>5. ASSUME NEW s \in Script, Get(s) PROVE ToggleInv'
  <2>s. lamp' = lamp /\ serving' = serving
    BY <1>5, Zenon DEF Get, light, lamp
  <2>1. seen'[s] # None =>
          serving /\ seen'[s] = lamp /\ nextstate'[s] = ~seen'[s]
    <3>1. /\ phase \in [Script -> {"get", "put", "done", "failed"}]
          /\ nextstate \in [Script -> BOOLEAN]
          /\ seen \in [Script -> BOOLEAN \cup {None}]
      BY <1>1 DEF TypeOK
    <3>2. CASE /\ serving
               /\ nextstate' = [nextstate EXCEPT ![s] = ~value]
               /\ seen' = [seen EXCEPT ![s] = IF value = lamp THEN lamp
                                                              ELSE None]
      <4>1. /\ nextstate'[s] = ~value
            /\ seen'[s] = IF value = lamp THEN lamp ELSE None
        BY <3>1, <3>2, Zenon
      <4>2. CASE value = lamp
        <5>1. seen'[s] = value /\ seen'[s] = lamp
          BY <4>1, <4>2, Zenon
        <5>2. nextstate'[s] = ~seen'[s]
          BY <4>1, <5>1, Zenon
        <5>. QED
          BY <3>2, <5>1, <5>2
      <4>. QED
        BY <4>1, <4>2, Zenon
    <3>3. CASE seen' = [seen EXCEPT ![s] = None]
      BY <3>1, <3>3
    <3>. QED
      BY <1>5, <3>2, <3>3 DEF Get
  <2>2. \A r \in Script \ {s} : /\ nextstate'[r] = nextstate[r]
                                /\ seen'[r] = seen[r]
                                /\ phase'[r] = phase[r]
    <3>1. PICK n, q : /\ nextstate' = [nextstate EXCEPT ![s] = n]
                      /\ seen' = [seen EXCEPT ![s] = q]
                      /\ phase' = [phase EXCEPT ![s] = "put"]
      BY <1>5 DEF Get
    <3>2. /\ phase \in [Script -> {"get", "put", "done", "failed"}]
          /\ nextstate \in [Script -> BOOLEAN]
          /\ seen \in [Script -> BOOLEAN \cup {None}]
      BY <1>1 DEF TypeOK
    <3>. QED
      BY <3>1, <3>2, Zenon
  <2>. QED
    BY <1>1, <2>s, <2>1, <2>2, Zenon DEF ToggleInv
<1>w. ASSUME seen' = StillSeen, UNCHANGED <<nextstate, serving>>,
             \A r \in Script : phase'[r] = "put" => phase[r] = "put"
      PROVE  ToggleInv'
  <2>1. ASSUME NEW r \in Script, seen'[r] # None
        PROVE  /\ serving' /\ seen'[r] = lamp'
               /\ phase'[r] = "put" => nextstate'[r] = ~seen'[r]
    <3>1. lamp' = lamp /\ seen' = seen
      BY <1>w, <2>1, SeenAfter
    <3>. QED
      BY <1>w, <2>1, <3>1, Zenon DEF ToggleInv
  <2>. QED
    BY <1>1, <2>1 DEF ToggleInv
<1>6. ASSUME NEW s \in Script, Put(s) PROVE ToggleInv'
  <2>p. /\ UNCHANGED <<nextstate, serving>>
        /\ \A r \in Script : phase'[r] = "put" => phase[r] = "put"
    BY <1>1, <1>6 DEF Put, TypeOK
  <2>1. CASE seen' = StillSeen
    BY <1>w, <2>p, <2>1
  <2>2. CASE UNCHANGED <<light, seen>>
    <3>1. lamp' = lamp /\ seen' = seen
      BY <2>2, Zenon DEF lamp, light
    <3>. QED
      BY <1>1, <2>p, <3>1, Zenon DEF ToggleInv
  <2>. QED
    BY <1>6, <2>1, <2>2 DEF Put
<1>7. ASSUME NEW v \in BOOLEAN, OtherWrite(v) PROVE ToggleInv'
  BY <1>w, <1>7 DEF OtherWrite
<1>8. CASE UNCHANGED vars
  BY <1>3, <1>8 DEF vars, light
<1>. QED
  BY <1>4, <1>5, <1>6, <1>7, <1>8 DEF Next

(* For any number of scripts, a toggle that is answered changes the light, *)
(* unless the light changed after the script read it (toggle, on_off_cb).  *)
THEOREM TogglesInvert == Spec => ToggleInverts
<1>1. Init => ToggleInv
  BY LightInit DEF Init, ToggleInv
<1>2. ASSUME ToggleInv, [Next]_vars, NEW s \in Script,
             phase[s] = "put", phase'[s] = "done", seen[s] # None
      PROVE  lamp' = ~lamp
  <2>1. TypeOK /\ nextstate[s] = ~seen[s] /\ seen[s] = lamp
    BY <1>2 DEF ToggleInv, LightInv
  <2>2. Put(s)
    <3>1. phase' # phase
      BY <1>2
    <3>2. \A r \in Script : Get(r) => phase'[s] = phase[s] \/ phase'[s] = "put"
      BY <2>1 DEF Get, TypeOK
    <3>3. \A r \in Script : Put(r) => r = s \/ phase'[s] = phase[s]
      BY <2>1 DEF Put, TypeOK
    <3>4. ~DeviceStep /\ \A v \in BOOLEAN : ~OtherWrite(v)
      BY <3>1 DEF DeviceStep, SelfTest, init_light_control, Setup, StartClient,
         InterfaceUpAgain, Reset, ReadTemperature, OtherWrite, scripts
    <3>5. ~UNCHANGED vars
      BY <3>1 DEF vars, scripts
    <3>. QED
      BY <1>2, <3>2, <3>3, <3>4, <3>5 DEF Next
  <2>3. serving /\ OnOff(nextstate[s], 0)
    <3>1. phase' # [phase EXCEPT ![s] = "failed"]
      BY <1>2, <2>1 DEF TypeOK
    <3>2. PICK ret \in {0, -1} :
            /\ serving /\ OnOff(nextstate[s], ret)
            /\ phase' = [phase EXCEPT ![s] = IF ret = 0 THEN "done"
                                                       ELSE "failed"]
      BY <2>2, <3>1, Zenon DEF Put
    <3>3. ret = 0
      BY <3>1, <3>2
    <3>. QED
      BY <3>2, <3>3
  <2>4. led_current = lamp
    BY <1>2, <2>3 DEF ToggleInv, LightInv, CacheIsLamp
  <2>5. nextstate[s] \in BOOLEAN
    BY <2>1 DEF TypeOK
  <2>. QED
    BY <2>1, <2>3, <2>4, <2>5, OnOffFacts
<1>3. ToggleInv /\ [Next]_vars =>
        [\A s \in Script :
           phase[s] = "put" /\ phase'[s] = "done" /\ seen[s] # None =>
             lamp' = ~lamp]_vars
  BY <1>2
<1>. QED
  BY <1>1, <1>3, ToggleStep, PTL DEF Spec, ToggleInverts
=============================================================================
