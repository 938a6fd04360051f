---------------------------- MODULE RelayPlugin ----------------------------
(***************************************************************************)
(* The relay, Source/RelayPlugin.cpp: systems register under a name, send  *)
(* to each other by name, and meet in groups.                              *)
(*                                                                         *)
(* The plugin is single threaded and each handler is a step.  Inputs are   *)
(* open.  RakPeer may have lost a connection before the plugin is told, so *)
(* messages of a system are handled after its connection is gone.          *)
(***************************************************************************)
EXTENDS Integers, Sequences, SequencesExt

CONSTANTS
  Member,      \* RakNetGUIDs of the systems
  Name,        \* keys they ask for
  Group,       \* names of groups, none of them empty
  NoGroup,     \* the empty string
  Renaming     \* systems that are added again while they are in a group, each once

ASSUME NoGroupAssumption == NoGroup \notin Group

VARIABLES
  online,          \* systems RakPeer is connected to
  unheard,         \* systems whose loss RakPeer has not told the plugin yet
  strToGuidHash,   \* by name, the system that has it
  guidToStrHash,   \* by system, its entry
  chatRooms,       \* by group, usersInRoom
  relayed,         \* what the last step has sent on: by whom, in which group, to whom
  roster,          \* the names each system has been told are in its group
  renamed          \* systems that were added again while they were in a group

relayVars == <<online, unheard, strToGuidHash, guidToStrHash, chatRooms,
               relayed, roster, renamed>>

StrAndGuidAndRoom == [str : Name, currentRoom : Group \cup {NoGroup}]
StrAndGuid == [str : Name, guid : Member]

-----------------------------------------------------------------------------
(* Helpers *)

Registered == DOMAIN guidToStrHash
RoomOf(g) == guidToStrHash[g].currentRoom
InGroup(g) == g \in Registered /\ RoomOf(g) # NoGroup

UsersOf(room) == IF room \in DOMAIN chatRooms THEN chatRooms[room] ELSE <<>>

WithoutKeys(f, S) == [k \in DOMAIN f \ S |-> f[k]]
WithKey(f, key, value) == [k \in DOMAIN f \cup {key} |-> IF k = key THEN value ELSE f[k]]

\* A group without users is deleted.
WithUsers(rooms, room, users) ==
  IF users = <<>> THEN WithoutKeys(rooms, {room}) ELSE WithKey(rooms, room, users)

NotifyUsersInRoom(users, id, str) ==
  [i \in DOMAIN users |-> [to |-> users[i].guid, id |-> id, str |-> str]]

\* One turn of the loop of LeaveGroup: an entry of g is overwritten by the last
\* entry, and the index advanced.
Swept(list, n, g) ==
  IF n <= Len(list) /\ list[n].guid = g
  THEN [i \in 1 .. Len(list) - 1 |-> IF i = n THEN list[Len(list)] ELSE list[i]]
  ELSE list

RemoveUserEntries(users, g) ==
  LET sweep[n \in 0 .. Len(users)] == IF n = 0 THEN users ELSE Swept(sweep[n - 1], n, g)
  IN sweep[Len(users)]

\* What is left of the groups and whom it is told, when g leaves its group.
RoomsAfterLeaving(g) ==
  IF RoomOf(g) \in DOMAIN chatRooms
  THEN WithUsers(chatRooms, RoomOf(g), RemoveUserEntries(UsersOf(RoomOf(g)), g))
  ELSE chatRooms

LeavingNotices(g) ==
  NotifyUsersInRoom(RemoveUserEntries(UsersOf(RoomOf(g)), g),
                    "RPE_USER_LEFT_ROOM", guidToStrHash[g].str)

\* What system g knows of its group when it has read a message.
Heard(g, names, m) ==
  IF m.to # g THEN names
  ELSE IF m.id = "RPE_USER_ENTERED_ROOM" THEN names \cup {m.str}
  ELSE IF m.id = "RPE_USER_LEFT_ROOM" THEN names \ {m.str}
  ELSE IF m.id = "RPE_JOIN_GROUP_SUCCESS" THEN ToSet(m.users)
  ELSE names

\* The same, of the messages of a step, in their order.
RosterAfter(g, old, ms) ==
  LET heard[n \in 0 .. Len(ms)] == IF n = 0 THEN old ELSE Heard(g, heard[n - 1], ms[n])
  IN heard[Len(ms)]

NothingRelayed == [from |-> {}, group |-> NoGroup, to |-> <<>>]

Tell(ms) ==
  /\ roster' = [g \in Member |-> RosterAfter(g, roster[g], ms)]
  /\ relayed' = NothingRelayed

\* The same, by a step with which system g is in no group, and knows it.
TellOthers(g, ms) ==
  /\ roster' = [h \in Member |-> IF h = g THEN {} ELSE RosterAfter(h, roster[h], ms)]
  /\ relayed' = NothingRelayed

\* targets are in the order of their places; what is sent to a system that is not
\* connected is dropped.
RelayTo(g, group, targets) ==
  /\ relayed' = [from |-> {g}, group |-> group,
                 to |-> Restrict(targets, {i \in DOMAIN targets : targets[i] \in online})]
  /\ UNCHANGED roster

-----------------------------------------------------------------------------
(* Connections *)

RelayConnect(g) ==
  /\ g \notin online \cup unheard
  /\ online' = online \cup {g}
  /\ Tell(<<>>)
  /\ UNCHANGED <<unheard, strToGuidHash, guidToStrHash, chatRooms, renamed>>

RelayLoses(g) ==
  /\ g \in online
  /\ online' = online \ {g}
  /\ unheard' = unheard \cup {g}
  /\ TellOthers(g, <<>>)
  /\ UNCHANGED <<strToGuidHash, guidToStrHash, chatRooms, renamed>>

\* Mutant: the group is not left.
RemoveWithoutLeaving(g) ==
  /\ guidToStrHash' = WithoutKeys(guidToStrHash, {g})
  /\ strToGuidHash' = IF g \in Registered
                      THEN WithoutKeys(strToGuidHash, {guidToStrHash[g].str})
                      ELSE strToGuidHash
  /\ Tell(<<>>)
  /\ UNCHANGED chatRooms

RemoveParticipantOnServer(g) ==
  IF g \in Registered
  THEN /\ chatRooms' = RoomsAfterLeaving(g)
       /\ guidToStrHash' = WithoutKeys(guidToStrHash, {g})
       /\ strToGuidHash' = WithoutKeys(strToGuidHash, {guidToStrHash[g].str})
       /\ TellOthers(g, LeavingNotices(g))
  ELSE /\ Tell(<<>>)
       /\ UNCHANGED <<chatRooms, guidToStrHash, strToGuidHash>>

RelayClosedConnection(g) ==
  /\ g \in unheard
  /\ unheard' = unheard \ {g}
  /\ RemoveParticipantOnServer(g)
  /\ UNCHANGED <<online, renamed>>

-----------------------------------------------------------------------------
(* Participants *)

\* A system that has a name already loses it; its group is not looked at.
IndicesAfterAdding(g, key) ==
  WithKey(IF g \in Registered
          THEN WithoutKeys(strToGuidHash, {guidToStrHash[g].str})
          ELSE strToGuidHash, key, g)

AddResults == {"RPE_ADD_CLIENT_TARGET_NOT_CONNECTED", "RPE_ADD_CLIENT_NAME_ALREADY_IN_USE",
               "RPE_ADD_CLIENT_SUCCESS"}

AddParticipantOnServer(key, g, result) ==
  \/ /\ result = "RPE_ADD_CLIENT_TARGET_NOT_CONNECTED"
     /\ g \notin online
     /\ UNCHANGED <<strToGuidHash, guidToStrHash, renamed>>
  \/ /\ result = "RPE_ADD_CLIENT_NAME_ALREADY_IN_USE"
     /\ g \in online
     /\ key \in DOMAIN strToGuidHash
     /\ UNCHANGED <<strToGuidHash, guidToStrHash, renamed>>
  \/ /\ result = "RPE_ADD_CLIENT_SUCCESS"
     /\ g \in online
     /\ key \notin DOMAIN strToGuidHash
     /\ strToGuidHash' = IndicesAfterAdding(g, key)
     /\ guidToStrHash' = WithKey(guidToStrHash, g, [str |-> key, currentRoom |-> NoGroup])
     /\ InGroup(g) => g \in Renaming \ renamed
     /\ renamed' = renamed \cup (IF InGroup(g) THEN {g} ELSE {})

\* A client asks, or the server's application adds it by itself.
OnAddParticipantRequest(key, g) ==
  /\ g \in online \cup unheard
  /\ \E result \in AddResults :
       /\ AddParticipantOnServer(key, g, result)
       /\ Tell(<<[to |-> g, id |-> result]>>)
  /\ UNCHANGED <<online, unheard, chatRooms>>

ApplicationAdds(key, g) ==
  /\ \E result \in AddResults : AddParticipantOnServer(key, g, result)
  /\ Tell(<<>>)
  /\ UNCHANGED <<online, unheard, chatRooms>>

\* acceptAddParticipantRequests is not set.
RefuseParticipant(g) ==
  /\ g \in online \cup unheard
  /\ Tell(<<[to |-> g, id |-> "RPE_ADD_CLIENT_NOT_ALLOWED"]>>)
  /\ UNCHANGED <<online, unheard, strToGuidHash, guidToStrHash, chatRooms, renamed>>

OnRemoveParticipantRequest(g) ==
  /\ g \in online \cup unheard
  /\ RemoveParticipantOnServer(g)
  /\ UNCHANGED <<online, unheard, renamed>>

ApplicationRemoves(g) ==
  /\ RemoveParticipantOnServer(g)
  /\ UNCHANGED <<online, unheard, renamed>>

-----------------------------------------------------------------------------
(* Groups *)

\* Mutant: the users of the group are told after the new one is among them.
EnterNotices(users, new) ==
  NotifyUsersInRoom(Append(users, new), "RPE_USER_LEFT_ROOM", new.str)

EnteringNotices(users, new) ==
  NotifyUsersInRoom(users, "RPE_USER_ENTERED_ROOM", new.str)

\* g leaves the group it is in and enters room, which is created if need be.
JoinGroup(g, room) ==
  LET left == RoomsAfterLeaving(g)
      users == IF room \in DOMAIN left THEN left[room] ELSE <<>>
      new == [str |-> guidToStrHash[g].str, guid |-> g]
      all == Append(users, new)
  IN /\ chatRooms' = WithKey(left, room, all)
     /\ guidToStrHash' = [guidToStrHash EXCEPT ![g].currentRoom = room]
     /\ Tell((IF RoomOf(g) = NoGroup THEN <<>> ELSE LeavingNotices(g))
             \o EnteringNotices(users, new)
             \o <<[to |-> g, id |-> "RPE_JOIN_GROUP_SUCCESS",
                   users |-> [i \in DOMAIN all |-> all[i].str]]>>)

OnJoinGroupRequest(g, room) ==
  /\ g \in online \cup unheard
  /\ IF g \in Registered /\ room # NoGroup /\ RoomOf(g) # room
     THEN JoinGroup(g, room)
     ELSE /\ Tell(<<[to |-> g, id |-> "RPE_JOIN_GROUP_FAILURE"]>>)
          /\ UNCHANGED <<chatRooms, guidToStrHash>>
  /\ UNCHANGED <<online, unheard, strToGuidHash, renamed>>

OnLeaveGroupRequest(g) ==
  /\ g \in online \cup unheard
  /\ g \in Registered
  /\ RoomOf(g) \in DOMAIN chatRooms
  /\ chatRooms' = RoomsAfterLeaving(g)
  /\ guidToStrHash' = [guidToStrHash EXCEPT ![g].currentRoom = NoGroup]
  /\ TellOthers(g, LeavingNotices(g))
  /\ UNCHANGED <<online, unheard, strToGuidHash, renamed>>

-----------------------------------------------------------------------------
(* Messages *)

OthersInGroup(g) ==
  LET users == UsersOf(RoomOf(g))
  IN [i \in {j \in DOMAIN users : users[j].guid # g} |-> users[i].guid]

OnGroupMessage(g) ==
  /\ g \in online \cup unheard
  /\ g \in Registered
  /\ RelayTo(g, RoomOf(g), OthersInGroup(g))
  /\ UNCHANGED <<online, unheard, strToGuidHash, guidToStrHash, chatRooms, renamed>>

OnMessageToServer(g, key) ==
  /\ g \in online \cup unheard
  /\ g \in Registered
  /\ key \in DOMAIN strToGuidHash
  /\ RelayTo(g, NoGroup, <<strToGuidHash[key]>>)
  /\ UNCHANGED <<online, unheard, strToGuidHash, guidToStrHash, chatRooms, renamed>>

-----------------------------------------------------------------------------
(* Specification *)

RelayInit ==
  /\ online = {} /\ unheard = {}
  /\ strToGuidHash = [k \in {} |-> 0]
  /\ guidToStrHash = [g \in {} |-> 0]
  /\ chatRooms = [r \in {} |-> <<>>]
  /\ relayed = NothingRelayed
  /\ roster = [g \in Member |-> {}]
  /\ renamed = {}

RelayNext ==
  \/ \E g \in Member :
       \/ RelayConnect(g) \/ RelayLoses(g) \/ RelayClosedConnection(g)
       \/ RefuseParticipant(g) \/ OnRemoveParticipantRequest(g) \/ ApplicationRemoves(g)
       \/ OnLeaveGroupRequest(g) \/ OnGroupMessage(g)
  \/ \E g \in Member, key \in Name :
       OnAddParticipantRequest(key, g) \/ ApplicationAdds(key, g) \/ OnMessageToServer(g, key)
  \/ \E g \in Member, room \in Group \cup {NoGroup} : OnJoinGroupRequest(g, room)

RelaySpec == RelayInit /\ [][RelayNext]_relayVars

-----------------------------------------------------------------------------
(* Properties *)

RelayTypeOK ==
  /\ online \subseteq Member /\ unheard \subseteq Member \ online
  /\ DOMAIN strToGuidHash \subseteq Name
  /\ \A k \in DOMAIN strToGuidHash : strToGuidHash[k] \in Member
  /\ Registered \subseteq Member
  /\ \A g \in Registered : guidToStrHash[g] \in StrAndGuidAndRoom
  /\ DOMAIN chatRooms \subseteq Group
  /\ \A r \in DOMAIN chatRooms : chatRooms[r] \in Seq(StrAndGuid) \ {<<>>}
  /\ relayed.from \subseteq Member /\ relayed.group \in Group \cup {NoGroup}
  /\ ToSet(relayed.to) \subseteq Member
  /\ roster \in [Member -> SUBSET Name]
  /\ renamed \subseteq Member

\* The two hashes hold the same entries, through names that are taken over,
\* given up and refused: neither is left with a pointer to a deleted entry.
IndicesAgree ==
  /\ \A k \in DOMAIN strToGuidHash :
       strToGuidHash[k] \in Registered /\ guidToStrHash[strToGuidHash[k]].str = k
  /\ \A g \in Registered :
       LET k == guidToStrHash[g].str IN k \in DOMAIN strToGuidHash /\ strToGuidHash[k] = g

\* "If this system disconnects, it is removed from the internal hash"
\* (AddParticipantOnServer): an entry outlives its connection only until the
\* plugin is told, whoever adds it and when.
ParticipantsWereConnected == Registered \subseteq online \cup unheard

\* "Remove a chat participant": who is in a group is registered under that name
\* and has that group, once.  It is not so for a system that was added again
\* while it was in a group, which the group keeps under its old name.
UsersAreParticipants ==
  \A r \in DOMAIN chatRooms : \A i \in DOMAIN chatRooms[r] :
    LET u == chatRooms[r][i]
    IN u.guid \notin renamed =>
         /\ u.guid \in Registered
         /\ guidToStrHash[u.guid] = [str |-> u.str, currentRoom |-> r]
         /\ \A j \in DOMAIN chatRooms[r] : chatRooms[r][j].guid = u.guid => i = j

\* A participant is one thing in the two hashes, in the rooms and in its
\* connection, whatever order names, groups and connections come and go in.
RelayEntriesAgree == IndicesAgree /\ ParticipantsWereConnected /\ UsersAreParticipants

\* What a system is told of its group, by the answer to its own request and by
\* the notices that follow, is who is in it, as long as nobody is renamed in a
\* group.
RostersAgree ==
  \A g \in Registered \cap online :
    LET users == UsersOf(RoomOf(g))
    IN users # <<>> /\ renamed = {} => roster[g] = {users[i].str : i \in DOMAIN users}

\* A message to a group reaches each other connected system of the group of its
\* sender, once, and nobody else, unless a system was renamed in a group.
MessagesReachTheGroup ==
  \A g \in relayed.from : relayed.group # NoGroup /\ renamed = {} =>
    /\ ToSet(relayed.to) = {h \in (Registered \cap online) \ {g} : RoomOf(h) = relayed.group}
    /\ IsInjective(relayed.to)

\* A member that is in a group knows who is with it, and reaches them.
GroupsAreWhole == RostersAgree /\ MessagesReachTheGroup

-----------------------------------------------------------------------------
(* The inductive invariant: what RelayEntriesAgree rests on.                 *)

EntriesTyped ==
  /\ online \subseteq Member /\ unheard \subseteq Member
  /\ strToGuidHash \in [DOMAIN strToGuidHash -> Member] /\ DOMAIN strToGuidHash \subseteq Name
  /\ guidToStrHash \in [Registered -> StrAndGuidAndRoom]
  /\ chatRooms \in [DOMAIN chatRooms -> Seq(StrAndGuid)] /\ DOMAIN chatRooms \subseteq Group

RelayIInv == EntriesTyped /\ RelayEntriesAgree

\* And what GroupsAreWhole rests on: the converse of UsersAreParticipants.
ParticipantsAreUsers ==
  renamed = {} => \A g \in Registered : RoomOf(g) # NoGroup =>
    \E i \in DOMAIN UsersOf(RoomOf(g)) : UsersOf(RoomOf(g))[i].guid = g

GroupsIInv == RelayIInv /\ ParticipantsAreUsers /\ GroupsAreWhole

=============================================================================
