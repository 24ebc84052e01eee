------------------------------ MODULE Registry ------------------------------
(***************************************************************************)
(* The message registry (src/codec.go): packages register the id and type  *)
(* of their messages; what is sent is looked up by type, what is received  *)
(* by id.  RegisterMessageInfo panics on a conflict, after the maps before *)
(* the conflicting one were written; a caller may recover and go on.       *)
(***************************************************************************)
EXTENDS Naturals, FiniteSets

CONSTANTS
    MessageTypes,  \* reflect types, none of them a pointer
    NameOf,        \* the name of a type without its package
    Ids            \* message ids, 0 among them

ASSUME RegistryAssumption == Ids \subseteq Nat /\ MessageTypes = DOMAIN NameOf

VARIABLES messageByID, messageByType, messageByName  \* sets of registered infos

registry == <<messageByID, messageByType, messageByName>>

RegistryInit == messageByID = {} /\ messageByType = {} /\ messageByName = {}

TakenID(id) == \E info \in messageByID : info.ID = id
TakenType(type) == \E info \in messageByType : info.Type = type
TakenName(type) == \E info \in messageByName : NameOf[info.Type] = NameOf[type]

\* Mutant: the maps are written the other way round.
BugRegisterMessageInfo(id, type) ==
    LET info == [ID |-> id, Type |-> type]
        Write(map, ok) == IF ok THEN map \cup {info} ELSE map
        byName == id # 0 /\ ~TakenName(type)
        byType == byName /\ ~TakenType(type)
        byID == byType /\ ~TakenID(id)
    IN  /\ messageByID' = Write(messageByID, byID)
        /\ messageByType' = Write(messageByType, byType)
        /\ messageByName' = Write(messageByName, byName)

\* Each map is written if nothing panicked before.
RegisterMessageInfo(id, type) ==
    LET info == [ID |-> id, Type |-> type]
        Write(map, ok) == IF ok THEN map \cup {info} ELSE map
        byID == id # 0 /\ ~TakenID(id)
        byType == byID /\ ~TakenType(type)
        byName == byType /\ ~TakenName(type)
    IN  /\ messageByID' = Write(messageByID, byID)
        /\ messageByType' = Write(messageByType, byType)
        /\ messageByName' = Write(messageByName, byName)

MessageInfoByID(id) == {info \in messageByID : info.ID = id}
MessageInfoByMsg(type) == {info \in messageByType : info.Type = type}
MessageInfoByName(name) == {info \in messageByName : NameOf[info.Type] = name}

RegistryNext == \E id \in Ids, type \in MessageTypes : RegisterMessageInfo(id, type)

RegistrySpec == RegistryInit /\ [][RegistryNext]_registry

-----------------------------------------------------------------------------
(* Properties.                                                              *)

\* Whatever conflicts were met on the way, no lookup is ambiguous, and a
\* message that can be sent is received as what it is: the id EncodeMessage
\* finds for a type is the one DecodeMessage makes that type from, and a name
\* leads to the same message.
SentIsReceived ==
    /\ \A id \in Ids : Cardinality(MessageInfoByID(id)) <= 1
    /\ \A type \in MessageTypes :
         /\ Cardinality(MessageInfoByMsg(type)) <= 1
         /\ \A info \in MessageInfoByMsg(type) :
              \A other \in MessageInfoByID(info.ID) : other.Type = type
         /\ \A info \in MessageInfoByMsg(type) : MessageInfoByID(info.ID) # {}
         /\ MessageInfoByName(NameOf[type]) \subseteq messageByType
         /\ Cardinality(MessageInfoByName(NameOf[type])) <= 1
=============================================================================
