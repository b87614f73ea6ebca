------------------------------ MODULE MCParts ------------------------------
(* Small instances of the modules that react to one input at a time: the   *)
(* parsers (Messages, Credit, Leases), what is concluded of frames         *)
(* (Gateway, RateGuards, Classification), the nightly work (Maintenance)   *)
(* and the settings (Configuration).  A behaviour is one of the chosen     *)
(* module, and the variables of the others stay as they are at the start.  *)
EXTENDS Gateway, RateGuards, Classification, Messages, Credit, Leases,
        Maintenance, Configuration

CONSTANTS router, host, guest, a1, a2, a3
-----------------------------------------------------------------------------
(* RateGuards: one analyzer at a time, they share nothing but the stimulus. *)

OneByOne == {{g} : g \in Guards}
-----------------------------------------------------------------------------
(* Classification: two media devices, a printer that becomes something     *)
(* else, a camera that is made of a known chip, and a desktop.             *)

\* The type and the system a value speaks for; what is not here speaks for none.
Speakers ==
  [airplay |-> <<"media_player", Unsaid>>, smb |-> <<"nas", Unsaid>>,
   camera |-> <<"camera", "Linux">>, itead |-> <<Unsaid, Unsaid>>,
   DESK |-> <<"computer", Unsaid>>, WORKGROUP |-> <<Unsaid, "Windows">>]

Spelled == [airplay |-> "mdns_service", smb |-> "mdns_service", camera |-> "vendor_class",
            itead |-> "vendor", DESK |-> "netbios", WORKGROUP |-> "workgroup"]

Evidence(v) == [kind |-> Spelled[v], value |-> v]
Requests(list) == [kind |-> "fingerprint", value |-> list]

FramesHeard ==
  {<<Evidence("airplay")>>, <<Evidence("airplay"), Evidence("smb")>>, <<Evidence("smb")>>,
   <<Requests(<<1, 3, 6>>), Evidence("camera")>>, <<Requests(<<1, 3, 6, 15>>)>>,
   <<Evidence("DESK"), Evidence("WORKGROUP")>>,
   <<Evidence("itead"), Evidence("camera")>>, <<Evidence("itead")>>}

TypesSpoken == [x \in {<<Spelled[v], v>> : v \in DOMAIN Spelled} |-> Speakers[x[2]][1]]
SystemsSpoken == [x \in DOMAIN TypesSpoken |-> Speakers[x[2]][2]]

Build == <<[lists |-> <<<<1, 3>>, <<1, 3, 6, 15, 44>>>>, type |-> "phone", os |-> "Android"],
           [lists |-> <<<<1, 3, 6>>>>, type |-> "printer", os |-> Unsaid]>>
Served == <<[lists |-> <<<<6, 15>>>>, type |-> "toaster", os |-> "Linux"],
            [lists |-> <<<<3, 6, 1>>, <<1, 3, 6>>>>, type |-> "tv", os |-> "tvOS"]>>
Fixtures == [v \in {"itead"} |-> TRUE]
Vocabulary ==
  {"media_player", "nas", "camera", "computer", "phone", "printer", "tv", "smart_home_device"}
-----------------------------------------------------------------------------
(* Claims: a television at one host, a disk and a share at two.            *)

Named(shape, label, service) == [shape |-> shape, label |-> label, service |-> service]
television == Named("instance", "TV", "_airplay")
disk == Named("instance", "Disk", "_smb")
share == Named("instance", "Share", "_smb")
hostA == Named("host", "a", Missing)
hostB == Named("host", "b", Missing)
airplay == Named("service", Missing, "_airplay")
services == Named("service", Missing, Missing)

Carries(type, n, target, address) ==
  [type |-> type, name |-> n, target |-> target, address |-> address, models |-> << >>]

MessageRecords ==
  {Carries("PTR", airplay, television, Missing), Carries("PTR", services, airplay, Missing),
   Carries("SRV", television, hostA, Missing), Carries("SRV", disk, hostB, Missing),
   Carries("SRV", share, hostA, Missing),
   [Carries("TXT", television, Missing, Missing) EXCEPT !.models = <<"AppleTV6">>],
   Carries("A", hostA, Missing, "ip1"), Carries("A", hostB, Missing, "ip2")}
AskedNames == {hostB, television, airplay}
-----------------------------------------------------------------------------
(* Leases: discover and ack, two host names, an empty one, a request list. *)

Option(c, v) == [code |-> c, value |-> v]
Sent == {Option(53, <<1>>), Option(53, <<5>>), Option(12, <<8>>), Option(12, <<8, 9>>),
         Option(12, << >>), Option(55, <<1, 3>>)}
Sound == Sent \ {Option(12, << >>)}
Acks == {<<5>>}
-----------------------------------------------------------------------------
(* Voices: a router and a host of two workgroups.                          *)

Memberships == [s \in {router, host} |-> IF s = router THEN "OFFICE" ELSE "HOME"]
-----------------------------------------------------------------------------
(* Configuration: what an operator may have written.                       *)

Units == "s" :> 1 @@ "m" :> 3 @@ "h" :> 6 @@ "d" :> 12
Files ==
  {"database.url" :> "ours" @@ "state.idle_timeout" :> [n |-> 1, unit |-> "m"]
     @@ "state.offline_timeout" :> [n |-> 1, unit |-> "h"],
   "database.url" :> "ours" @@ "state.router.offline_timeout" :> [n |-> 2, unit |-> "s"],
   "people" :> <<[name |-> "ada", written |-> "Ada", macs |-> {"m1"}],
                 [name |-> "ada", written |-> "ADA", macs |-> {"m2"}]>>,
   "people" :> <<[name |-> "ada", written |-> "Ada", macs |-> {"m1"}],
                 [name |-> "bob", written |-> "Bob", macs |-> {"m2"}]>>,
   "security.arp_scan.threshold" :> 0,
   "notify.quiet_hours" :> [start |-> Time(1, 2), end |-> Time(0, 1)],
   "notify.quiet_hour" :> [start |-> Time(0, 1), end |-> Time(1, 2)]}
Envs ==
  {<< >>, "state.idle_timeout" :> [n |-> 1, unit |-> "h"],
   "state.offline_timeout" :> [n |-> 6, unit |-> "d"]}
FlagSets ==
  {<< >>, "learning.duration" :> [n |-> 0, unit |-> "m"], "database.url" :> "other"}
-----------------------------------------------------------------------------
VARIABLE part

partsVars == <<part, gatewayVars, rateVars, classVars, messageVars, claimVars, leaseVars,
               voiceVars, maintenanceVars, configVars>>

Parts ==
  {"gateway", "rates", "class", "messages", "claims", "leases", "voices", "night", "settings"}

\* Of the parts that do not run there is one initial state each.
PartsInit ==
  /\ part \in Parts
  /\ GatewayInit /\ RateInit /\ ClassInit /\ MessagesInit /\ ClaimsInit /\ LeasesInit
  /\ VoicesInit /\ MaintenanceInit /\ ConfigInit
  /\ part # "rates" => enabled = {"arp_scan"}
  /\ part # "messages" => qdcount = 0 /\ total = 1
  /\ part # "claims" => response
  /\ part # "leases" => chaddr = frameSrc /\ chaddr = CHOOSE a \in Addresses \ GroupMacs : TRUE
  /\ part # "settings" => env = << >> /\ file = [path \in Directories |-> Absent]

PartsNext ==
  \/ /\ part = "gateway" /\ GatewayNext
     /\ UNCHANGED <<part, rateVars, classVars, messageVars, claimVars,
                    leaseVars, voiceVars, maintenanceVars, configVars>>
  \/ /\ part = "rates" /\ RateNext
     /\ UNCHANGED <<part, gatewayVars, classVars, messageVars, claimVars,
                    leaseVars, voiceVars, maintenanceVars, configVars>>
  \/ /\ part = "class" /\ ClassNext
     /\ UNCHANGED <<part, gatewayVars, rateVars, messageVars, claimVars,
                    leaseVars, voiceVars, maintenanceVars, configVars>>
  \/ /\ part = "messages" /\ MessagesNext
     /\ UNCHANGED <<part, gatewayVars, rateVars, classVars, claimVars,
                    leaseVars, voiceVars, maintenanceVars, configVars>>
  \/ /\ part = "claims" /\ ClaimsNext
     /\ UNCHANGED <<part, gatewayVars, rateVars, classVars, messageVars,
                    leaseVars, voiceVars, maintenanceVars, configVars>>
  \/ /\ part = "leases" /\ LeasesNext
     /\ UNCHANGED <<part, gatewayVars, rateVars, classVars, messageVars,
                    claimVars, voiceVars, maintenanceVars, configVars>>
  \/ /\ part = "voices" /\ VoicesNext
     /\ UNCHANGED <<part, gatewayVars, rateVars, classVars, messageVars,
                    claimVars, leaseVars, maintenanceVars, configVars>>
  \/ /\ part = "night" /\ MaintenanceNext
     /\ UNCHANGED <<part, gatewayVars, rateVars, classVars, messageVars,
                    claimVars, leaseVars, voiceVars, configVars>>
  \/ /\ part = "settings" /\ ConfigNext
     /\ UNCHANGED <<part, gatewayVars, rateVars, classVars, messageVars,
                    claimVars, leaseVars, voiceVars, maintenanceVars>>

PartsSpec == PartsInit /\ [][PartsNext]_partsVars

\* The types of the modules that have states of their own.
PartsTypesHold ==
  GatewayType /\ RateTypeOK /\ ClassTypeOK /\ MaintenanceTypeOK /\ ConfigTypeOK

=============================================================================
