------------------------------ MODULE Api_proofs ------------------------------
(***************************************************************************)
(* What the generated client, the router, the generated server and the     *)
(* handlers make of one call, whatever its names and ids are: which        *)
(* request it is sent as, which operation that request reaches, with which *)
(* values, and which answers can be given to it.  No state is involved;    *)
(* Exchange_proofs uses these facts at the steps of a call.                *)
(*                                                                         *)
(* The words of the patterns that are between braces stay behind the name  *)
(* Wildcards wherever arithmetic is needed: the SMT translation does not   *)
(* take braces in a string.                                                *)
(***************************************************************************)
EXTENDS ApiClient, Outcomes, FiniteSetTheorems, TLAPS

-------------------------------------------------------------------------------
(* The tables of api/api.gen.go, section by section *)

\* What Joined does when no key is in two sections.
LEMMA JoinedIs ==
  ASSUME NEW S, \A s, t \in S : DOMAIN s \cap DOMAIN t # {} => s = t
  PROVE  /\ DOMAIN Joined(S) = UNION {DOMAIN s : s \in S}
         /\ \A s \in S : \A key \in DOMAIN s : Joined(S)[key] = s[key]
<1>1. DOMAIN Joined(S) = UNION {DOMAIN s : s \in S}
  BY DEF Joined
<1>2. ASSUME NEW s \in S, NEW key \in DOMAIN s
      PROVE  Joined(S)[key] = s[key]
  <2>1. PICK t \in S : key \in DOMAIN t /\ t = CHOOSE u \in S : key \in DOMAIN u
    OBVIOUS
  <2>2. t = s
    BY <2>1
  <2>3. key \in UNION {DOMAIN u : u \in S}
    OBVIOUS
  <2> QED BY <2>1, <2>2, <2>3 DEF Joined
<1> QED BY <1>1, <1>2

\* The statuses an operation has a Visit method for are those of its section.
LEMMA VisitorsJoin ==
  /\ DOMAIN Visitors =
        DOMAIN ApplicationResponses \cup DOMAIN AuthorizationResponses \cup
        DOMAIN BindingResponses \cup DOMAIN GroupResponses \cup DOMAIN MemberResponses \cup
        DOMAIN HealthResponses \cup DOMAIN LegacyResponses \cup
        DOMAIN MachineResponses \cup DOMAIN PermissionResponses \cup
        DOMAIN ResourceResponses \cup DOMAIN OneResourceResponses \cup
        DOMAIN RoleResponses \cup DOMAIN RoleUpdateResponses \cup DOMAIN UnitResponses \cup
        DOMAIN UserResponses
  /\ \A key \in DOMAIN ApplicationResponses : Visitors[key] = ApplicationResponses[key]
  /\ \A key \in DOMAIN AuthorizationResponses : Visitors[key] = AuthorizationResponses[key]
  /\ \A key \in DOMAIN BindingResponses : Visitors[key] = BindingResponses[key]
  /\ \A key \in DOMAIN GroupResponses : Visitors[key] = GroupResponses[key]
  /\ \A key \in DOMAIN MemberResponses : Visitors[key] = MemberResponses[key]
  /\ \A key \in DOMAIN HealthResponses : Visitors[key] = HealthResponses[key]
  /\ \A key \in DOMAIN LegacyResponses : Visitors[key] = LegacyResponses[key]
  /\ \A key \in DOMAIN MachineResponses : Visitors[key] = MachineResponses[key]
  /\ \A key \in DOMAIN PermissionResponses : Visitors[key] = PermissionResponses[key]
  /\ \A key \in DOMAIN ResourceResponses : Visitors[key] = ResourceResponses[key]
  /\ \A key \in DOMAIN OneResourceResponses : Visitors[key] = OneResourceResponses[key]
  /\ \A key \in DOMAIN RoleResponses : Visitors[key] = RoleResponses[key]
  /\ \A key \in DOMAIN RoleUpdateResponses : Visitors[key] = RoleUpdateResponses[key]
  /\ \A key \in DOMAIN UnitResponses : Visitors[key] = UnitResponses[key]
  /\ \A key \in DOMAIN UserResponses : Visitors[key] = UserResponses[key]
<1> DEFINE S == {ApplicationResponses, AuthorizationResponses, BindingResponses,
                 GroupResponses, MemberResponses, HealthResponses, LegacyResponses,
                 MachineResponses, PermissionResponses, ResourceResponses,
                 OneResourceResponses, RoleResponses, RoleUpdateResponses, UnitResponses,
                 UserResponses}
<1>1. /\ DOMAIN ApplicationResponses = {"GetApplicationConfig", "UpdateApplicationConfig"}
      /\ DOMAIN AuthorizationResponses = {"CheckAuthorization", "CheckAuthorizationBatch"}
      /\ DOMAIN BindingResponses = {"ListBindings", "CreateBinding", "DeleteBinding"}
      /\ DOMAIN GroupResponses = {"ListGroups", "CreateGroup"}
      /\ DOMAIN MemberResponses = {"RemoveGroupMember", "AddGroupMember"}
      /\ DOMAIN HealthResponses = {"GetHealth"}
      /\ DOMAIN LegacyResponses = {"GrantLegacyAccess", "RevokeLegacyAccess"}
      /\ DOMAIN MachineResponses = {"SSHMachine"}
      /\ DOMAIN PermissionResponses = {"ListPermissions"}
      /\ DOMAIN ResourceResponses = {"ListResources", "CreateResource"}
      /\ DOMAIN OneResourceResponses = {"DeleteResource", "GetResource"}
      /\ DOMAIN RoleResponses = {"ListRoles", "CreateRole", "GetRole"}
      /\ DOMAIN RoleUpdateResponses = {"UpdateRole", "PreviewRoleUpdate"}
      /\ DOMAIN UnitResponses = {"SSHUnit"}
      /\ DOMAIN UserResponses = {"ListUsers", "CreateUser"}
  BY DEF ApplicationResponses, AuthorizationResponses, BindingResponses, GroupResponses,
         MemberResponses, HealthResponses, LegacyResponses, MachineResponses,
         PermissionResponses, ResourceResponses, OneResourceResponses, RoleResponses,
         RoleUpdateResponses, UnitResponses, UserResponses
<1>2. \A s, t \in S : DOMAIN s \cap DOMAIN t # {} => s = t
  BY <1>1
<1>3. Visitors = Joined(S)
  BY DEF Visitors
<1> HIDE DEF S
<1>4. \A s \in S : \A key \in DOMAIN s : Visitors[key] = s[key]
  BY <1>2, <1>3, JoinedIs
<1>5. DOMAIN Visitors = UNION {DOMAIN s : s \in S}
  BY <1>2, <1>3, JoinedIs
<1> QED BY <1>4, <1>5 DEF S

\* The statuses the client has a case for are those of the operation's section.
LEMMA ParsersJoin ==
  /\ DOMAIN Parsers =
        DOMAIN ApplicationReplies \cup DOMAIN AuthorizationReplies \cup
        DOMAIN BindingReplies \cup DOMAIN GroupReplies \cup DOMAIN MemberReplies \cup
        DOMAIN HealthReplies \cup DOMAIN LegacyReplies \cup DOMAIN MachineReplies \cup
        DOMAIN PermissionReplies \cup DOMAIN ResourceReplies \cup
        DOMAIN OneResourceReplies \cup DOMAIN RoleReplies \cup
        DOMAIN RoleUpdateReplies \cup DOMAIN UnitReplies \cup DOMAIN UserReplies
  /\ \A key \in DOMAIN ApplicationReplies : Parsers[key] = ApplicationReplies[key]
  /\ \A key \in DOMAIN AuthorizationReplies : Parsers[key] = AuthorizationReplies[key]
  /\ \A key \in DOMAIN BindingReplies : Parsers[key] = BindingReplies[key]
  /\ \A key \in DOMAIN GroupReplies : Parsers[key] = GroupReplies[key]
  /\ \A key \in DOMAIN MemberReplies : Parsers[key] = MemberReplies[key]
  /\ \A key \in DOMAIN HealthReplies : Parsers[key] = HealthReplies[key]
  /\ \A key \in DOMAIN LegacyReplies : Parsers[key] = LegacyReplies[key]
  /\ \A key \in DOMAIN MachineReplies : Parsers[key] = MachineReplies[key]
  /\ \A key \in DOMAIN PermissionReplies : Parsers[key] = PermissionReplies[key]
  /\ \A key \in DOMAIN ResourceReplies : Parsers[key] = ResourceReplies[key]
  /\ \A key \in DOMAIN OneResourceReplies : Parsers[key] = OneResourceReplies[key]
  /\ \A key \in DOMAIN RoleReplies : Parsers[key] = RoleReplies[key]
  /\ \A key \in DOMAIN RoleUpdateReplies : Parsers[key] = RoleUpdateReplies[key]
  /\ \A key \in DOMAIN UnitReplies : Parsers[key] = UnitReplies[key]
  /\ \A key \in DOMAIN UserReplies : Parsers[key] = UserReplies[key]
<1> DEFINE S == {ApplicationReplies, AuthorizationReplies, BindingReplies, GroupReplies,
                 MemberReplies, HealthReplies, LegacyReplies, MachineReplies,
                 PermissionReplies, ResourceReplies, OneResourceReplies, RoleReplies,
                 RoleUpdateReplies, UnitReplies, UserReplies}
<1>1. /\ DOMAIN ApplicationReplies = {"GetApplicationConfig", "UpdateApplicationConfig"}
      /\ DOMAIN AuthorizationReplies = {"CheckAuthorization", "CheckAuthorizationBatch"}
      /\ DOMAIN BindingReplies = {"ListBindings", "CreateBinding", "DeleteBinding"}
      /\ DOMAIN GroupReplies = {"ListGroups", "CreateGroup"}
      /\ DOMAIN MemberReplies = {"RemoveGroupMember", "AddGroupMember"}
      /\ DOMAIN HealthReplies = {"GetHealth"}
      /\ DOMAIN LegacyReplies = {"GrantLegacyAccess", "RevokeLegacyAccess"}
      /\ DOMAIN MachineReplies = {"SSHMachine"}
      /\ DOMAIN PermissionReplies = {"ListPermissions"}
      /\ DOMAIN ResourceReplies = {"ListResources", "CreateResource"}
      /\ DOMAIN OneResourceReplies = {"DeleteResource", "GetResource"}
      /\ DOMAIN RoleReplies = {"ListRoles", "CreateRole", "GetRole"}
      /\ DOMAIN RoleUpdateReplies = {"UpdateRole", "PreviewRoleUpdate"}
      /\ DOMAIN UnitReplies = {"SSHUnit"}
      /\ DOMAIN UserReplies = {"ListUsers", "CreateUser"}
  BY DEF ApplicationReplies, AuthorizationReplies, BindingReplies, GroupReplies,
         MemberReplies, HealthReplies, LegacyReplies, MachineReplies, PermissionReplies,
         ResourceReplies, OneResourceReplies, RoleReplies, RoleUpdateReplies, UnitReplies,
         UserReplies
<1>2. \A s, t \in S : DOMAIN s \cap DOMAIN t # {} => s = t
  BY <1>1
<1>3. Parsers = Joined(S)
  BY DEF Parsers
<1> HIDE DEF S
<1>4. \A s \in S : \A key \in DOMAIN s : Parsers[key] = s[key]
  BY <1>2, <1>3, JoinedIs
<1>5. DOMAIN Parsers = UNION {DOMAIN s : s \in S}
  BY <1>2, <1>3, JoinedIs
<1> QED BY <1>4, <1>5 DEF S

\* The path values that a wrapper binds are those of the operation's section.
LEMMA ParametersJoin ==
  /\ DOMAIN Parameters =
        DOMAIN ApplicationParameters \cup DOMAIN AuthorizationParameters \cup
        DOMAIN BindingParameters \cup DOMAIN GroupParameters \cup
        DOMAIN MemberParameters \cup DOMAIN HealthParameters \cup
        DOMAIN LegacyParameters \cup DOMAIN MachineParameters \cup
        DOMAIN PermissionParameters \cup DOMAIN ResourceParameters \cup
        DOMAIN OneResourceParameters \cup DOMAIN RoleParameters \cup
        DOMAIN RoleUpdateParameters \cup DOMAIN UnitParameters \cup DOMAIN UserParameters
  /\ \A key \in DOMAIN ApplicationParameters : Parameters[key] = ApplicationParameters[key]
  /\ \A key \in DOMAIN AuthorizationParameters : Parameters[key] = AuthorizationParameters[key]
  /\ \A key \in DOMAIN BindingParameters : Parameters[key] = BindingParameters[key]
  /\ \A key \in DOMAIN GroupParameters : Parameters[key] = GroupParameters[key]
  /\ \A key \in DOMAIN MemberParameters : Parameters[key] = MemberParameters[key]
  /\ \A key \in DOMAIN HealthParameters : Parameters[key] = HealthParameters[key]
  /\ \A key \in DOMAIN LegacyParameters : Parameters[key] = LegacyParameters[key]
  /\ \A key \in DOMAIN MachineParameters : Parameters[key] = MachineParameters[key]
  /\ \A key \in DOMAIN PermissionParameters : Parameters[key] = PermissionParameters[key]
  /\ \A key \in DOMAIN ResourceParameters : Parameters[key] = ResourceParameters[key]
  /\ \A key \in DOMAIN OneResourceParameters : Parameters[key] = OneResourceParameters[key]
  /\ \A key \in DOMAIN RoleParameters : Parameters[key] = RoleParameters[key]
  /\ \A key \in DOMAIN RoleUpdateParameters : Parameters[key] = RoleUpdateParameters[key]
  /\ \A key \in DOMAIN UnitParameters : Parameters[key] = UnitParameters[key]
  /\ \A key \in DOMAIN UserParameters : Parameters[key] = UserParameters[key]
<1> DEFINE S == {ApplicationParameters, AuthorizationParameters, BindingParameters,
                 GroupParameters, MemberParameters, HealthParameters, LegacyParameters,
                 MachineParameters, PermissionParameters, ResourceParameters,
                 OneResourceParameters, RoleParameters, RoleUpdateParameters,
                 UnitParameters, UserParameters}
<1>1. /\ DOMAIN ApplicationParameters = {"GetApplicationConfig", "UpdateApplicationConfig"}
      /\ DOMAIN AuthorizationParameters = {"CheckAuthorization", "CheckAuthorizationBatch"}
      /\ DOMAIN BindingParameters = {"ListBindings", "CreateBinding", "DeleteBinding"}
      /\ DOMAIN GroupParameters = {"ListGroups", "CreateGroup"}
      /\ DOMAIN MemberParameters = {"RemoveGroupMember", "AddGroupMember"}
      /\ DOMAIN HealthParameters = {"GetHealth"}
      /\ DOMAIN LegacyParameters = {"GrantLegacyAccess", "RevokeLegacyAccess"}
      /\ DOMAIN MachineParameters = {"SSHMachine"}
      /\ DOMAIN PermissionParameters = {"ListPermissions"}
      /\ DOMAIN ResourceParameters = {"ListResources", "CreateResource"}
      /\ DOMAIN OneResourceParameters = {"DeleteResource", "GetResource"}
      /\ DOMAIN RoleParameters = {"ListRoles", "CreateRole", "GetRole"}
      /\ DOMAIN RoleUpdateParameters = {"UpdateRole", "PreviewRoleUpdate"}
      /\ DOMAIN UnitParameters = {"SSHUnit"}
      /\ DOMAIN UserParameters = {"ListUsers", "CreateUser"}
  BY DEF ApplicationParameters, AuthorizationParameters, BindingParameters,
         GroupParameters, MemberParameters, HealthParameters, LegacyParameters,
         MachineParameters, PermissionParameters, ResourceParameters,
         OneResourceParameters, RoleParameters, RoleUpdateParameters, UnitParameters,
         UserParameters
<1>2. \A s, t \in S : DOMAIN s \cap DOMAIN t # {} => s = t
  BY <1>1
<1>3. Parameters = Joined(S)
  BY DEF Parameters
<1> HIDE DEF S
<1>4. \A s \in S : \A key \in DOMAIN s : Parameters[key] = s[key]
  BY <1>2, <1>3, JoinedIs
<1>5. DOMAIN Parameters = UNION {DOMAIN s : s \in S}
  BY <1>2, <1>3, JoinedIs
<1> QED BY <1>4, <1>5 DEF S

\* The request that the client makes is that of the operation's section.
LEMMA BuildersJoin ==
  /\ DOMAIN Builders =
        DOMAIN ApplicationRequests \cup DOMAIN AuthorizationRequests \cup
        DOMAIN BindingRequests \cup DOMAIN GroupRequests \cup DOMAIN MemberRequests \cup
        DOMAIN HealthRequests \cup DOMAIN LegacyRequests \cup DOMAIN MachineRequests \cup
        DOMAIN PermissionRequests \cup DOMAIN ResourceRequests \cup
        DOMAIN OneResourceRequests \cup DOMAIN RoleRequests \cup
        DOMAIN RoleUpdateRequests \cup DOMAIN UnitRequests \cup DOMAIN UserRequests
  /\ \A key \in DOMAIN ApplicationRequests : Builders[key] = ApplicationRequests[key]
  /\ \A key \in DOMAIN AuthorizationRequests : Builders[key] = AuthorizationRequests[key]
  /\ \A key \in DOMAIN BindingRequests : Builders[key] = BindingRequests[key]
  /\ \A key \in DOMAIN GroupRequests : Builders[key] = GroupRequests[key]
  /\ \A key \in DOMAIN MemberRequests : Builders[key] = MemberRequests[key]
  /\ \A key \in DOMAIN HealthRequests : Builders[key] = HealthRequests[key]
  /\ \A key \in DOMAIN LegacyRequests : Builders[key] = LegacyRequests[key]
  /\ \A key \in DOMAIN MachineRequests : Builders[key] = MachineRequests[key]
  /\ \A key \in DOMAIN PermissionRequests : Builders[key] = PermissionRequests[key]
  /\ \A key \in DOMAIN ResourceRequests : Builders[key] = ResourceRequests[key]
  /\ \A key \in DOMAIN OneResourceRequests : Builders[key] = OneResourceRequests[key]
  /\ \A key \in DOMAIN RoleRequests : Builders[key] = RoleRequests[key]
  /\ \A key \in DOMAIN RoleUpdateRequests : Builders[key] = RoleUpdateRequests[key]
  /\ \A key \in DOMAIN UnitRequests : Builders[key] = UnitRequests[key]
  /\ \A key \in DOMAIN UserRequests : Builders[key] = UserRequests[key]
<1> DEFINE S == {ApplicationRequests, AuthorizationRequests, BindingRequests,
                 GroupRequests, MemberRequests, HealthRequests, LegacyRequests,
                 MachineRequests, PermissionRequests, ResourceRequests,
                 OneResourceRequests, RoleRequests, RoleUpdateRequests, UnitRequests,
                 UserRequests}
<1>1. /\ DOMAIN ApplicationRequests = {"GetApplicationConfig", "UpdateApplicationConfig"}
      /\ DOMAIN AuthorizationRequests = {"CheckAuthorization", "CheckAuthorizationBatch"}
      /\ DOMAIN BindingRequests = {"ListBindings", "CreateBinding", "DeleteBinding"}
      /\ DOMAIN GroupRequests = {"ListGroups", "CreateGroup"}
      /\ DOMAIN MemberRequests = {"RemoveGroupMember", "AddGroupMember"}
      /\ DOMAIN HealthRequests = {"GetHealth"}
      /\ DOMAIN LegacyRequests = {"GrantLegacyAccess", "RevokeLegacyAccess"}
      /\ DOMAIN MachineRequests = {"SSHMachine"}
      /\ DOMAIN PermissionRequests = {"ListPermissions"}
      /\ DOMAIN ResourceRequests = {"ListResources", "CreateResource"}
      /\ DOMAIN OneResourceRequests = {"DeleteResource", "GetResource"}
      /\ DOMAIN RoleRequests = {"ListRoles", "CreateRole", "GetRole"}
      /\ DOMAIN RoleUpdateRequests = {"UpdateRole", "PreviewRoleUpdate"}
      /\ DOMAIN UnitRequests = {"SSHUnit"}
      /\ DOMAIN UserRequests = {"ListUsers", "CreateUser"}
  BY DEF ApplicationRequests, AuthorizationRequests, BindingRequests, GroupRequests,
         MemberRequests, HealthRequests, LegacyRequests, MachineRequests,
         PermissionRequests, ResourceRequests, OneResourceRequests, RoleRequests,
         RoleUpdateRequests, UnitRequests, UserRequests
<1>2. \A s, t \in S : DOMAIN s \cap DOMAIN t # {} => s = t
  BY <1>1
<1>3. Builders = Joined(S)
  BY DEF Builders
<1> HIDE DEF S
<1>4. \A s \in S : \A key \in DOMAIN s : Builders[key] = s[key]
  BY <1>2, <1>3, JoinedIs
<1>5. DOMAIN Builders = UNION {DOMAIN s : s \in S}
  BY <1>2, <1>3, JoinedIs
<1> QED BY <1>4, <1>5 DEF S

\* The operations of the client, spelt out.
LEMMA OpsAre ==
  Ops = {"GetApplicationConfig", "UpdateApplicationConfig", "CheckAuthorization",
         "CheckAuthorizationBatch", "ListBindings", "CreateBinding", "DeleteBinding",
         "ListGroups", "CreateGroup", "RemoveGroupMember", "AddGroupMember", "GetHealth",
         "GrantLegacyAccess", "RevokeLegacyAccess", "SSHMachine", "ListPermissions",
         "ListResources", "CreateResource", "DeleteResource", "GetResource", "ListRoles",
         "CreateRole", "GetRole", "UpdateRole", "PreviewRoleUpdate", "SSHUnit",
         "ListUsers", "CreateUser"}
BY BuildersJoin DEF Ops, ApplicationRequests, AuthorizationRequests, BindingRequests,
       GroupRequests, MemberRequests, HealthRequests, LegacyRequests, MachineRequests,
       PermissionRequests, ResourceRequests, OneResourceRequests, RoleRequests,
       RoleUpdateRequests, UnitRequests, UserRequests

\* The client and the server are generated from the same operations.
LEMMA RoutesAre == DOMAIN Routes = Ops
BY OpsAre DEF Routes

\* Every operation but GetHealth has a case in unauthorized.
LEMMA RoutesRefusable == DOMAIN Routes \subseteq Refusable \cup {"GetHealth"}
BY DEF Routes, Refusable

\* The operations that may change something, spelt out.
LEMMA MutationsAre ==
  Mutations \subseteq
    {"CreateUser", "CreateGroup", "AddGroupMember", "RemoveGroupMember", "CreateRole",
     "UpdateRole", "CreateBinding", "DeleteBinding", "GrantLegacyAccess",
     "RevokeLegacyAccess", "CreateResource", "DeleteResource", "UpdateApplicationConfig"}
BY DEF Mutations, Service, Reads, Writes, CheckOutcomes, UserOutcomes, GroupOutcomes,
       RoleOutcomes, BindingOutcomes, LegacyOutcomes, ResourceOutcomes, ApplicationOutcomes,
       CatalogOutcomes

-------------------------------------------------------------------------------
(* Answers *)

\* The statuses of all the responses there are.
Statuses == {200, 201, 204, 400, 401, 403, 404, 409, 503}

\* What the handler of an operation returns is of the operation's own type, with
\* a status that has a Visit method or nil, and the client has a case for it.
Understands(op) ==
  LET handler == Implementation[op]
  IN  /\ handler.success \in Visitors[op]
      /\ \A r \in Errors : handler.failure[r] \in Visitors[op] \cup {0}
      /\ Visitors[op] \subseteq Parsers[op] \cap Statuses

\* Every handler answers in its own operation's responses, and the client reads them all.
LEMMA AllUnderstand == \A op \in Ops : Understands(op)
<1> USE VisitorsJoin, ParsersJoin DEF Understands, Implementation, Handler, Switch, Always,
        Errors, Statuses
<1>1. Understands("GetApplicationConfig") /\ Understands("UpdateApplicationConfig")
  BY DEF ApplicationResponses, ApplicationReplies, GetApplicationConfig,
         UpdateApplicationConfig, getConfigError, updateConfigError
<1>2. Understands("CheckAuthorization") /\ Understands("CheckAuthorizationBatch")
  BY DEF AuthorizationResponses, AuthorizationReplies, CheckAuthorization,
         CheckAuthorizationBatch
<1>3. Understands("ListBindings") /\ Understands("CreateBinding") /\ Understands("DeleteBinding")
  BY DEF BindingResponses, BindingReplies, ListBindings, CreateBinding, DeleteBinding,
         listBindingsError, createBindingError, deleteBindingError
<1>4. Understands("ListGroups") /\ Understands("CreateGroup")
  BY DEF GroupResponses, GroupReplies, ListGroups, CreateGroup, listGroupsError,
         createGroupError
<1>5. Understands("RemoveGroupMember") /\ Understands("AddGroupMember")
  BY DEF MemberResponses, MemberReplies, RemoveGroupMember, AddGroupMember,
         removeGroupMemberError, addGroupMemberError
<1>6. Understands("GetHealth")
  BY DEF HealthResponses, HealthReplies, GetHealth
<1>7. Understands("GrantLegacyAccess") /\ Understands("RevokeLegacyAccess")
  BY DEF LegacyResponses, LegacyReplies, GrantLegacyAccess, RevokeLegacyAccess,
         grantLegacyError, revokeLegacyError
<1>8. Understands("SSHMachine")
  BY DEF MachineResponses, MachineReplies, SSHMachine, sshMachineError
<1>9. Understands("ListPermissions")
  BY DEF PermissionResponses, PermissionReplies, ListPermissions
<1>10. Understands("ListResources") /\ Understands("CreateResource")
  BY DEF ResourceResponses, ResourceReplies, ListResources, CreateResource,
         createResourceError
<1>11. Understands("DeleteResource") /\ Understands("GetResource")
  BY DEF OneResourceResponses, OneResourceReplies, DeleteResource, GetResource,
         deleteResourceError, getResourceError
<1>12. Understands("ListRoles") /\ Understands("CreateRole") /\ Understands("GetRole")
  BY DEF RoleResponses, RoleReplies, ListRoles, CreateRole, GetRole, listRolesError,
         createRoleError, getRoleError
<1>13. Understands("UpdateRole") /\ Understands("PreviewRoleUpdate")
  BY DEF RoleUpdateResponses, RoleUpdateReplies, UpdateRole, PreviewRoleUpdate,
         updateRoleError, previewRoleError
<1>14. Understands("SSHUnit")
  BY DEF UnitResponses, UnitReplies, SSHUnit, sshUnitError
<1>15. Understands("ListUsers") /\ Understands("CreateUser")
  BY DEF UserResponses, UserReplies, ListUsers, CreateUser, listUsersError, createUserError
<1> HIDE DEF Understands
<1> QED BY OpsAre, <1>1, <1>2, <1>3, <1>4, <1>5, <1>6, <1>7, <1>8, <1>9, <1>10, <1>11,
           <1>12, <1>13, <1>14, <1>15

\* The errors of the service are errors that the handlers know.
LEMMA ServiceErrors ==
  \A op \in Ops : Service[op].before \cup Service[op].after \subseteq Errors
<1> USE DEF Service, Reads, Writes, Denied, DeniedOn, SyncFails, Errors
<1>1. \A op \in {"GetApplicationConfig", "UpdateApplicationConfig"} :
        Service[op].before \cup Service[op].after \subseteq Errors
  BY DEF ApplicationOutcomes
<1>2. \A op \in {"CheckAuthorization", "CheckAuthorizationBatch"} :
        Service[op].before \cup Service[op].after \subseteq Errors
  BY DEF CheckOutcomes
<1>3. \A op \in {"ListBindings", "CreateBinding", "DeleteBinding"} :
        Service[op].before \cup Service[op].after \subseteq Errors
  BY DEF BindingOutcomes
<1>4. \A op \in {"ListGroups", "CreateGroup"} :
        Service[op].before \cup Service[op].after \subseteq Errors
  BY DEF GroupOutcomes
<1>5. \A op \in {"RemoveGroupMember", "AddGroupMember"} :
        Service[op].before \cup Service[op].after \subseteq Errors
  BY DEF GroupOutcomes
<1>6. \A op \in {"GetHealth"} :
        Service[op].before \cup Service[op].after \subseteq Errors
  BY DEF CheckOutcomes
<1>7. \A op \in {"GrantLegacyAccess", "RevokeLegacyAccess"} :
        Service[op].before \cup Service[op].after \subseteq Errors
  BY DEF LegacyOutcomes
<1>8. \A op \in {"SSHMachine"} :
        Service[op].before \cup Service[op].after \subseteq Errors
  BY DEF ApplicationOutcomes
<1>9. \A op \in {"ListPermissions"} :
        Service[op].before \cup Service[op].after \subseteq Errors
  BY DEF CatalogOutcomes
<1>10. \A op \in {"ListResources", "CreateResource"} :
        Service[op].before \cup Service[op].after \subseteq Errors
  BY DEF ResourceOutcomes
<1>11. \A op \in {"DeleteResource", "GetResource"} :
        Service[op].before \cup Service[op].after \subseteq Errors
  BY DEF ResourceOutcomes
<1>12. \A op \in {"ListRoles", "CreateRole", "GetRole"} :
        Service[op].before \cup Service[op].after \subseteq Errors
  BY DEF RoleOutcomes
<1>13. \A op \in {"UpdateRole", "PreviewRoleUpdate"} :
        Service[op].before \cup Service[op].after \subseteq Errors
  BY DEF RoleOutcomes
<1>14. \A op \in {"SSHUnit"} :
        Service[op].before \cup Service[op].after \subseteq Errors
  BY DEF ApplicationOutcomes
<1>15. \A op \in {"ListUsers", "CreateUser"} :
        Service[op].before \cup Service[op].after \subseteq Errors
  BY DEF UserOutcomes
<1> QED BY OpsAre, <1>1, <1>2, <1>3, <1>4, <1>5, <1>6, <1>7, <1>8, <1>9, <1>10, <1>11, <1>12,
           <1>13, <1>14, <1>15

\* What is written of a handler's response: never an internal error, and, when
\* it has a body, a status that the client decodes for the operation.
LEMMA WrittenUnderstood ==
  ASSUME NEW op \in Ops, NEW r \in Errors \cup {"ok"}
  PROVE  LET a == Written(op, Handled(op, r))
         IN  /\ a.status \in Statuses
             /\ a.body \in {"none", "json"}
             /\ a.body = "json" => Decoded(op, a)
<1> DEFINE status == IF r = "ok" THEN Implementation[op].success
                                ELSE Implementation[op].failure[r]
<1>1. Understands(op)
  BY AllUnderstand
<1>2. /\ Visitors[op] \subseteq Parsers[op] \cap Statuses
      /\ status \in Visitors[op] \cup {0}
  BY <1>1 DEF Understands
<1>3. Handled(op, r) = IF status = 0 THEN Nil ELSE Response(op, status)
  BY DEF Handled
<1> HIDE DEF status
<1>4. CASE status = 0
  <2>1. Written(op, Handled(op, r)) = Answer(200, "none")
    BY <1>3, <1>4 DEF Written
  <2> QED BY <2>1 DEF Answer, Statuses
<1>5. CASE status # 0
  <2>1. status \in Parsers[op] /\ status \in Statuses
    BY <1>2, <1>5
  <2>2. Response(op, status) # Nil
    BY <1>5 DEF Response, Nil
  <2>3. Written(op, Handled(op, r)) = Answer(status, IF status = 204 THEN "none" ELSE "json")
    BY <1>2, <1>3, <1>5, <2>2 DEF Written, Response
  <2> QED BY <2>1, <2>3 DEF Answer, Decoded
<1> QED BY <1>4, <1>5

\* A refusal for want of an identity is an answer of a known kind.
LEMMA WrittenUnauthorized ==
  ASSUME NEW op
  PROVE  LET a == Written(op, unauthorized(op))
         IN  a.status \in {200, 401, 500} /\ a.body \in {"none", "text", "json"}
BY DEF Written, unauthorized, Response, Nil, Answer, Text

\* An answer that a handler may give when something was changed: a success, or a
\* failure that refuses nothing.
Told == {200, 201, 204, 400, 404}

\* Of every operation that writes: its handler's success and what its mapper
\* makes of the errors that may follow the write.
LEMMA AfterWrite ==
  ASSUME NEW op \in Mutations
  PROVE  /\ Implementation[op].success \in Told
         /\ \A r \in Service[op].after : Implementation[op].failure[r] \in Told
<1> USE DEF Told, SyncFails, Switch, Writes, Handler
<1>1. CASE op = "CreateUser"
  <2>1. Service[op].after \subseteq SyncFails
    BY <1>1 DEF Service, UserOutcomes
  <2> QED BY <1>1, <2>1 DEF Implementation, CreateUser, createUserError
<1>2. CASE op = "CreateGroup"
  <2>1. Service[op].after \subseteq SyncFails
    BY <1>2 DEF Service, GroupOutcomes
  <2> QED BY <1>2, <2>1 DEF Implementation, CreateGroup, createGroupError
<1>3. CASE op = "AddGroupMember"
  <2>1. Service[op].after \subseteq SyncFails
    BY <1>3 DEF Service, GroupOutcomes
  <2> QED BY <1>3, <2>1 DEF Implementation, AddGroupMember, addGroupMemberError
<1>4. CASE op = "RemoveGroupMember"
  <2>1. Service[op].after \subseteq SyncFails
    BY <1>4 DEF Service, GroupOutcomes
  <2> QED BY <1>4, <2>1 DEF Implementation, RemoveGroupMember, removeGroupMemberError
<1>5. CASE op = "CreateRole"
  <2>1. Service[op].after \subseteq SyncFails
    BY <1>5 DEF Service, RoleOutcomes
  <2> QED BY <1>5, <2>1 DEF Implementation, CreateRole, createRoleError
<1>6. CASE op = "UpdateRole"
  <2>1. Service[op].after \subseteq SyncFails
    BY <1>6 DEF Service, RoleOutcomes
  <2> QED BY <1>6, <2>1 DEF Implementation, UpdateRole, updateRoleError
<1>7. CASE op = "CreateBinding"
  <2>1. Service[op].after \subseteq SyncFails
    BY <1>7 DEF Service, BindingOutcomes
  <2> QED BY <1>7, <2>1 DEF Implementation, CreateBinding, createBindingError
<1>8. CASE op = "DeleteBinding"
  <2>1. Service[op].after \subseteq SyncFails
    BY <1>8 DEF Service, BindingOutcomes
  <2> QED BY <1>8, <2>1 DEF Implementation, DeleteBinding, deleteBindingError
<1>9. CASE op = "GrantLegacyAccess"
  <2>1. Service[op].after \subseteq SyncFails
    BY <1>9 DEF Service, LegacyOutcomes
  <2> QED BY <1>9, <2>1 DEF Implementation, GrantLegacyAccess, grantLegacyError
<1>10. CASE op = "RevokeLegacyAccess"
  <2>1. Service[op].after \subseteq SyncFails
    BY <1>10 DEF Service, LegacyOutcomes
  <2> QED BY <1>10, <2>1 DEF Implementation, RevokeLegacyAccess, revokeLegacyError
<1>11. CASE op = "CreateResource"
  <2>1. Service[op].after \subseteq SyncFails
    BY <1>11 DEF Service, ResourceOutcomes
  <2> QED BY <1>11, <2>1 DEF Implementation, CreateResource, createResourceError
<1>12. CASE op = "DeleteResource"
  <2>1. Service[op].after \subseteq SyncFails
    BY <1>12 DEF Service, ResourceOutcomes
  <2> QED BY <1>12, <2>1 DEF Implementation, DeleteResource, deleteResourceError
<1>13. CASE op = "UpdateApplicationConfig"
  <2>1. Service[op].after \subseteq SyncFails
    BY <1>13 DEF Service, ApplicationOutcomes
  <2> QED BY <1>13, <2>1 DEF Implementation, UpdateApplicationConfig, updateConfigError
<1> QED BY MutationsAre, <1>1, <1>2, <1>3, <1>4, <1>5, <1>6, <1>7, <1>8, <1>9, <1>10,
           <1>11, <1>12, <1>13

\* The status of what is written for it.
LEMMA WrittenTold ==
  ASSUME NEW op \in Mutations, NEW r \in Service[op].after \cup {"ok"}
  PROVE  Written(op, Handled(op, r)).status \in Told \cup {500}
<1> DEFINE status == IF r = "ok" THEN Implementation[op].success
                                ELSE Implementation[op].failure[r]
<1>1. status \in Told
  BY AfterWrite
<1>2. Handled(op, r) \in {Nil, Response(op, status)}
  BY DEF Handled
<1>3. Written(op, Nil).status = 200
  BY DEF Written, Answer
<1>4. Written(op, Response(op, status)).status \in {200, status, 500}
  BY DEF Written, Answer, Text, Response
<1> QED BY <1>1, <1>2, <1>3, <1>4 DEF Told

\* A refusal without an identity is told as an error.
LEMMA UnauthorizedTold ==
  ASSUME NEW op \in DOMAIN Routes, op # "GetHealth"
  PROVE  Written(op, unauthorized(op)).status \in {401, 500}
<1>1. unauthorized(op) = Response(op, 401)
  BY RoutesRefusable DEF unauthorized
<1>2. Response(op, 401) # Nil
  BY DEF Response, Nil
<1>3. Response(op, 401).status = 401
  BY DEF Response
<1> QED BY <1>1, <1>2, <1>3 DEF Written, Answer, Text

\* No mapper of an operation that writes makes a success of a failure.
LEMMA FailureOfWrite ==
  ASSUME NEW op \in Mutations
  PROVE  /\ Service[op].before \cup Service[op].after \subseteq Errors
         /\ \A r \in Errors : Implementation[op].failure[r] \in {400, 403, 404, 409}
<1>0. op \in Ops
  BY MutationsAre, OpsAre
<1> USE DEF Errors, Switch, Handler, Implementation
<1>1. op = "CreateUser" =>
        \A r \in Errors : Implementation[op].failure[r] \in {400, 403, 404, 409}
  BY DEF CreateUser, createUserError
<1>2. op = "CreateGroup" =>
        \A r \in Errors : Implementation[op].failure[r] \in {400, 403, 404, 409}
  BY DEF CreateGroup, createGroupError
<1>3. op = "AddGroupMember" =>
        \A r \in Errors : Implementation[op].failure[r] \in {400, 403, 404, 409}
  BY DEF AddGroupMember, addGroupMemberError
<1>4. op = "RemoveGroupMember" =>
        \A r \in Errors : Implementation[op].failure[r] \in {400, 403, 404, 409}
  BY DEF RemoveGroupMember, removeGroupMemberError
<1>5. op = "CreateRole" =>
        \A r \in Errors : Implementation[op].failure[r] \in {400, 403, 404, 409}
  BY DEF CreateRole, createRoleError
<1>6. op = "UpdateRole" =>
        \A r \in Errors : Implementation[op].failure[r] \in {400, 403, 404, 409}
  BY DEF UpdateRole, updateRoleError
<1>7. op = "CreateBinding" =>
        \A r \in Errors : Implementation[op].failure[r] \in {400, 403, 404, 409}
  BY DEF CreateBinding, createBindingError
<1>8. op = "DeleteBinding" =>
        \A r \in Errors : Implementation[op].failure[r] \in {400, 403, 404, 409}
  BY DEF DeleteBinding, deleteBindingError
<1>9. op = "GrantLegacyAccess" =>
        \A r \in Errors : Implementation[op].failure[r] \in {400, 403, 404, 409}
  BY DEF GrantLegacyAccess, grantLegacyError
<1>10. op = "RevokeLegacyAccess" =>
        \A r \in Errors : Implementation[op].failure[r] \in {400, 403, 404, 409}
  BY DEF RevokeLegacyAccess, revokeLegacyError
<1>11. op = "CreateResource" =>
        \A r \in Errors : Implementation[op].failure[r] \in {400, 403, 404, 409}
  BY DEF CreateResource, createResourceError
<1>12. op = "DeleteResource" =>
        \A r \in Errors : Implementation[op].failure[r] \in {400, 403, 404, 409}
  BY DEF DeleteResource, deleteResourceError
<1>13. op = "UpdateApplicationConfig" =>
        \A r \in Errors : Implementation[op].failure[r] \in {400, 403, 404, 409}
  BY DEF UpdateApplicationConfig, updateConfigError
<1> HIDE DEF Errors, Switch, Handler, Implementation
<1> QED BY MutationsAre, ServiceErrors, <1>0, <1>1, <1>2, <1>3, <1>4, <1>5, <1>6, <1>7,
           <1>8, <1>9, <1>10, <1>11, <1>12, <1>13

\* The status of what is written when an operation that writes has failed.
LEMMA WrittenFailure ==
  ASSUME NEW op \in Mutations, NEW r \in Errors
  PROVE  Written(op, Handled(op, r)).status \in {400, 403, 404, 409, 500}
<1> DEFINE status == Implementation[op].failure[r]
<1>1. status \in {400, 403, 404, 409}
  BY FailureOfWrite
<1>2. r # "ok"
  BY DEF Errors
<1>3. Handled(op, r) = Response(op, status)
  BY <1>1, <1>2 DEF Handled
<1>4. Response(op, status) # Nil /\ Response(op, status).status = status
  BY <1>1 DEF Response, Nil
<1> QED BY <1>1, <1>3, <1>4 DEF Written, Answer, Text

-------------------------------------------------------------------------------
(* The tables of the client and of the router, side by side *)

\* A short sequence, segment by segment.
LEMMA Spelt ==
  ASSUME NEW S, NEW s \in Seq(S)
  PROVE  /\ Len(s) = 0 => s = <<>>
         /\ Len(s) = 1 => s = <<s[1]>>
         /\ Len(s) = 2 => s = <<s[1], s[2]>>
         /\ Len(s) = 3 => s = <<s[1], s[2], s[3]>>
         /\ Len(s) = 4 => s = <<s[1], s[2], s[3], s[4]>>
<1>1. s = [i \in 1..Len(s) |-> s[i]]
  OBVIOUS
<1> QED BY <1>1

\* What a pattern is below the base URL.
LEMMA Under ==
  /\ \A a : <<"v1">> \o <<a>> = <<"v1", a>>
  /\ \A a, b : <<"v1">> \o <<a, b>> = <<"v1", a, b>>
  /\ \A a, b, c : <<"v1">> \o <<a, b, c>> = <<"v1", a, b, c>>
<1>1. ASSUME NEW a PROVE <<"v1">> \o <<a>> = <<"v1", a>>
  <2> DEFINE s == <<"v1">> \o <<a>>
  <2>1. s \in Seq({"v1", a}) /\ Len(s) = 2 /\ s[1] = "v1" /\ s[2] = a
    OBVIOUS
  <2> QED BY <2>1, Spelt
<1>2. ASSUME NEW a, NEW b PROVE <<"v1">> \o <<a, b>> = <<"v1", a, b>>
  <2> DEFINE s == <<"v1">> \o <<a, b>>
  <2>1. s \in Seq({"v1", a, b}) /\ Len(s) = 3 /\ s[1] = "v1" /\ s[2] = a /\ s[3] = b
    OBVIOUS
  <2> QED BY <2>1, Spelt
<1>3. ASSUME NEW a, NEW b, NEW c PROVE <<"v1">> \o <<a, b, c>> = <<"v1", a, b, c>>
  <2> DEFINE s == <<"v1">> \o <<a, b, c>>
  <2>1. /\ s \in Seq({"v1", a, b, c}) /\ Len(s) = 4
        /\ s[1] = "v1" /\ s[2] = a /\ s[3] = b /\ s[4] = c
    OBVIOUS
  <2> QED BY <2>1, Spelt
<1> QED BY <1>1, <1>2, <1>3

\* What is a route's method and what is its path.
LEMMA Parts ==
  /\ \A m, a : Tail(<<m, a>>) = <<a>> /\ Head(<<m, a>>) = m
  /\ \A m, a, b : Tail(<<m, a, b>>) = <<a, b>> /\ Head(<<m, a, b>>) = m
  /\ \A m, a, b, c : Tail(<<m, a, b, c>>) = <<a, b, c>> /\ Head(<<m, a, b, c>>) = m
OBVIOUS

\* The pattern of a route, for each length that a route has.
LEMMA PatternIs ==
  ASSUME NEW op
  PROVE  /\ \A m, a : Routes[op] = <<m, a>> => Pattern(op) = <<"v1", a>> /\ Head(Routes[op]) = m
         /\ \A m, a, b : Routes[op] = <<m, a, b>> =>
              Pattern(op) = <<"v1", a, b>> /\ Head(Routes[op]) = m
         /\ \A m, a, b, c : Routes[op] = <<m, a, b, c>> =>
              Pattern(op) = <<"v1", a, b, c>> /\ Head(Routes[op]) = m
<1> DEFINE r == Routes[op]
<1>0. Pattern(op) = <<"v1">> \o Tail(r)
  BY DEF Pattern
<1> HIDE DEF r
<1>1. ASSUME NEW m, NEW a, r = <<m, a>>
      PROVE  Pattern(op) = <<"v1", a>> /\ Head(r) = m
  <2>1. Tail(r) = <<a>> /\ Head(r) = m
    BY <1>1, Parts
  <2> QED BY <1>0, <2>1, Under
<1>2. ASSUME NEW m, NEW a, NEW b, r = <<m, a, b>>
      PROVE  Pattern(op) = <<"v1", a, b>> /\ Head(r) = m
  <2>1. Tail(r) = <<a, b>> /\ Head(r) = m
    BY <1>2, Parts
  <2> QED BY <1>0, <2>1, Under
<1>3. ASSUME NEW m, NEW a, NEW b, NEW c, r = <<m, a, b, c>>
      PROVE  Pattern(op) = <<"v1", a, b, c>> /\ Head(r) = m
  <2>1. Tail(r) = <<a, b, c>> /\ Head(r) = m
    BY <1>3, Parts
  <2> QED BY <1>0, <2>1, Under
<1> QED BY <1>1, <1>2, <1>3 DEF r

\* What the client and the server have of an operation: the method on both
\* sides, the template, the pattern, and the values that the wrapper binds.
Entry(op, method, path, pattern, parameters) ==
  /\ Builders[op].method = method /\ Head(Routes[op]) = method
  /\ Builders[op].path = path /\ Pattern(op) = pattern
  /\ Parameters[op] = parameters

\* Every operation of api/api.gen.go: the builder, the route and the wrapper.
LEMMA Entries ==
  /\ Entry("GetApplicationConfig", "GET", <<"applications", "%s", "config">>,
           <<"v1", "applications", "{applicationId}", "config">>, <<"{applicationId}">>)
  /\ Entry("UpdateApplicationConfig", "PUT", <<"applications", "%s", "config">>,
           <<"v1", "applications", "{applicationId}", "config">>, <<"{applicationId}">>)
  /\ Entry("CheckAuthorization", "POST", <<"authorize">>, <<"v1", "authorize">>, <<>>)
  /\ Entry("CheckAuthorizationBatch", "POST", <<"authorize", "batch">>,
           <<"v1", "authorize", "batch">>, <<>>)
  /\ Entry("ListBindings", "GET", <<"bindings">>, <<"v1", "bindings">>, <<>>)
  /\ Entry("CreateBinding", "POST", <<"bindings">>, <<"v1", "bindings">>, <<>>)
  /\ Entry("DeleteBinding", "DELETE", <<"bindings", "%s">>,
           <<"v1", "bindings", "{bindingId}">>, <<"{bindingId}">>)
  /\ Entry("ListGroups", "GET", <<"groups">>, <<"v1", "groups">>, <<>>)
  /\ Entry("CreateGroup", "POST", <<"groups">>, <<"v1", "groups">>, <<>>)
  /\ Entry("RemoveGroupMember", "DELETE", <<"groups", "%s", "members">>,
           <<"v1", "groups", "{groupId}", "members">>, <<"{groupId}">>)
  /\ Entry("AddGroupMember", "POST", <<"groups", "%s", "members">>,
           <<"v1", "groups", "{groupId}", "members">>, <<"{groupId}">>)
  /\ Entry("GetHealth", "GET", <<"health">>, <<"v1", "health">>, <<>>)
  /\ Entry("GrantLegacyAccess", "POST", <<"legacy", "grants">>,
           <<"v1", "legacy", "grants">>, <<>>)
  /\ Entry("RevokeLegacyAccess", "POST", <<"legacy", "revokes">>,
           <<"v1", "legacy", "revokes">>, <<>>)
  /\ Entry("SSHMachine", "POST", <<"machines", "%s", "ssh">>,
           <<"v1", "machines", "{machineId}", "ssh">>, <<"{machineId}">>)
  /\ Entry("ListPermissions", "GET", <<"permissions">>, <<"v1", "permissions">>, <<>>)
  /\ Entry("ListResources", "GET", <<"resources">>, <<"v1", "resources">>, <<>>)
  /\ Entry("CreateResource", "POST", <<"resources">>, <<"v1", "resources">>, <<>>)
  /\ Entry("DeleteResource", "DELETE", <<"resources", "%s", "%s">>,
           <<"v1", "resources", "{resourceType}", "{resourceId}">>,
           <<"{resourceType}", "{resourceId}">>)
  /\ Entry("GetResource", "GET", <<"resources", "%s", "%s">>,
           <<"v1", "resources", "{resourceType}", "{resourceId}">>,
           <<"{resourceType}", "{resourceId}">>)
  /\ Entry("ListRoles", "GET", <<"roles">>, <<"v1", "roles">>, <<>>)
  /\ Entry("CreateRole", "POST", <<"roles">>, <<"v1", "roles">>, <<>>)
  /\ Entry("GetRole", "GET", <<"roles", "%s">>, <<"v1", "roles", "{roleId}">>, <<"{roleId}">>)
  /\ Entry("UpdateRole", "PUT", <<"roles", "%s">>,
           <<"v1", "roles", "{roleId}">>, <<"{roleId}">>)
  /\ Entry("PreviewRoleUpdate", "POST", <<"roles", "%s", "preview">>,
           <<"v1", "roles", "{roleId}", "preview">>, <<"{roleId}">>)
  /\ Entry("SSHUnit", "POST", <<"units", "%s", "ssh">>,
           <<"v1", "units", "{unitId}", "ssh">>, <<"{unitId}">>)
  /\ Entry("ListUsers", "GET", <<"users">>, <<"v1", "users">>, <<>>)
  /\ Entry("CreateUser", "POST", <<"users">>, <<"v1", "users">>, <<>>)
<1> USE DEF Entry, Bare, WithBody, Conditional
<1>1. /\ Entry("GetApplicationConfig", "GET", <<"applications", "%s", "config">>,
               <<"v1", "applications", "{applicationId}", "config">>, <<"{applicationId}">>)
      /\ Entry("UpdateApplicationConfig", "PUT", <<"applications", "%s", "config">>,
               <<"v1", "applications", "{applicationId}", "config">>, <<"{applicationId}">>)
  <2>1. /\ Pattern("GetApplicationConfig") = <<"v1", "applications", "{applicationId}", "config">>
        /\ Head(Routes["GetApplicationConfig"]) = "GET"
    <3>1. Routes["GetApplicationConfig"] = <<"GET", "applications", "{applicationId}", "config">>
      BY DEF Routes
    <3> QED BY <3>1, PatternIs
  <2>2. /\ Pattern("UpdateApplicationConfig") = <<"v1", "applications", "{applicationId}", "config">>
        /\ Head(Routes["UpdateApplicationConfig"]) = "PUT"
    <3>1. Routes["UpdateApplicationConfig"] = <<"PUT", "applications", "{applicationId}", "config">>
      BY DEF Routes
    <3> QED BY <3>1, PatternIs
  <2>3. /\ Builders["GetApplicationConfig"].method = "GET"
        /\ Builders["GetApplicationConfig"].path = <<"applications", "%s", "config">>
    BY BuildersJoin DEF ApplicationRequests
  <2>4. Parameters["GetApplicationConfig"] = <<"{applicationId}">>
    BY ParametersJoin DEF ApplicationParameters
  <2>5. /\ Builders["UpdateApplicationConfig"].method = "PUT"
        /\ Builders["UpdateApplicationConfig"].path = <<"applications", "%s", "config">>
    BY BuildersJoin DEF ApplicationRequests
  <2>6. Parameters["UpdateApplicationConfig"] = <<"{applicationId}">>
    BY ParametersJoin DEF ApplicationParameters
  <2> QED BY <2>1, <2>2, <2>3, <2>4, <2>5, <2>6
<1>2. /\ Entry("CheckAuthorization", "POST", <<"authorize">>, <<"v1", "authorize">>, <<>>)
      /\ Entry("CheckAuthorizationBatch", "POST", <<"authorize", "batch">>,
               <<"v1", "authorize", "batch">>, <<>>)
  <2>1. /\ Pattern("CheckAuthorization") = <<"v1", "authorize">>
        /\ Head(Routes["CheckAuthorization"]) = "POST"
    <3>1. Routes["CheckAuthorization"] = <<"POST", "authorize">>
      BY DEF Routes
    <3> QED BY <3>1, PatternIs
  <2>2. /\ Pattern("CheckAuthorizationBatch") = <<"v1", "authorize", "batch">>
        /\ Head(Routes["CheckAuthorizationBatch"]) = "POST"
    <3>1. Routes["CheckAuthorizationBatch"] = <<"POST", "authorize", "batch">>
      BY DEF Routes
    <3> QED BY <3>1, PatternIs
  <2>3. /\ Builders["CheckAuthorization"].method = "POST"
        /\ Builders["CheckAuthorization"].path = <<"authorize">>
    BY BuildersJoin DEF AuthorizationRequests
  <2>4. Parameters["CheckAuthorization"] = <<>>
    BY ParametersJoin DEF AuthorizationParameters
  <2>5. /\ Builders["CheckAuthorizationBatch"].method = "POST"
        /\ Builders["CheckAuthorizationBatch"].path = <<"authorize", "batch">>
    BY BuildersJoin DEF AuthorizationRequests
  <2>6. Parameters["CheckAuthorizationBatch"] = <<>>
    BY ParametersJoin DEF AuthorizationParameters
  <2> QED BY <2>1, <2>2, <2>3, <2>4, <2>5, <2>6
<1>3. /\ Entry("ListBindings", "GET", <<"bindings">>, <<"v1", "bindings">>, <<>>)
      /\ Entry("CreateBinding", "POST", <<"bindings">>, <<"v1", "bindings">>, <<>>)
      /\ Entry("DeleteBinding", "DELETE", <<"bindings", "%s">>,
               <<"v1", "bindings", "{bindingId}">>, <<"{bindingId}">>)
  <2>1. /\ Pattern("ListBindings") = <<"v1", "bindings">>
        /\ Head(Routes["ListBindings"]) = "GET"
    <3>1. Routes["ListBindings"] = <<"GET", "bindings">>
      BY DEF Routes
    <3> QED BY <3>1, PatternIs
  <2>2. /\ Pattern("CreateBinding") = <<"v1", "bindings">>
        /\ Head(Routes["CreateBinding"]) = "POST"
    <3>1. Routes["CreateBinding"] = <<"POST", "bindings">>
      BY DEF Routes
    <3> QED BY <3>1, PatternIs
  <2>3. /\ Pattern("DeleteBinding") = <<"v1", "bindings", "{bindingId}">>
        /\ Head(Routes["DeleteBinding"]) = "DELETE"
    <3>1. Routes["DeleteBinding"] = <<"DELETE", "bindings", "{bindingId}">>
      BY DEF Routes
    <3> QED BY <3>1, PatternIs
  <2>4. /\ Builders["ListBindings"].method = "GET"
        /\ Builders["ListBindings"].path = <<"bindings">>
    BY BuildersJoin DEF BindingRequests
  <2>5. Parameters["ListBindings"] = <<>>
    BY ParametersJoin DEF BindingParameters
  <2>6. /\ Builders["CreateBinding"].method = "POST"
        /\ Builders["CreateBinding"].path = <<"bindings">>
    BY BuildersJoin DEF BindingRequests
  <2>7. Parameters["CreateBinding"] = <<>>
    BY ParametersJoin DEF BindingParameters
  <2>8. /\ Builders["DeleteBinding"].method = "DELETE"
        /\ Builders["DeleteBinding"].path = <<"bindings", "%s">>
    BY BuildersJoin DEF BindingRequests
  <2>9. Parameters["DeleteBinding"] = <<"{bindingId}">>
    BY ParametersJoin DEF BindingParameters
  <2> QED BY <2>1, <2>2, <2>3, <2>4, <2>5, <2>6, <2>7, <2>8, <2>9
<1>4. /\ Entry("ListGroups", "GET", <<"groups">>, <<"v1", "groups">>, <<>>)
      /\ Entry("CreateGroup", "POST", <<"groups">>, <<"v1", "groups">>, <<>>)
  <2>1. /\ Pattern("ListGroups") = <<"v1", "groups">>
        /\ Head(Routes["ListGroups"]) = "GET"
    <3>1. Routes["ListGroups"] = <<"GET", "groups">>
      BY DEF Routes
    <3> QED BY <3>1, PatternIs
  <2>2. /\ Pattern("CreateGroup") = <<"v1", "groups">>
        /\ Head(Routes["CreateGroup"]) = "POST"
    <3>1. Routes["CreateGroup"] = <<"POST", "groups">>
      BY DEF Routes
    <3> QED BY <3>1, PatternIs
  <2>3. /\ Builders["ListGroups"].method = "GET"
        /\ Builders["ListGroups"].path = <<"groups">>
    BY BuildersJoin DEF GroupRequests
  <2>4. Parameters["ListGroups"] = <<>>
    BY ParametersJoin DEF GroupParameters
  <2>5. /\ Builders["CreateGroup"].method = "POST"
        /\ Builders["CreateGroup"].path = <<"groups">>
    BY BuildersJoin DEF GroupRequests
  <2>6. Parameters["CreateGroup"] = <<>>
    BY ParametersJoin DEF GroupParameters
  <2> QED BY <2>1, <2>2, <2>3, <2>4, <2>5, <2>6
<1>5. /\ Entry("RemoveGroupMember", "DELETE", <<"groups", "%s", "members">>,
               <<"v1", "groups", "{groupId}", "members">>, <<"{groupId}">>)
      /\ Entry("AddGroupMember", "POST", <<"groups", "%s", "members">>,
               <<"v1", "groups", "{groupId}", "members">>, <<"{groupId}">>)
  <2>1. /\ Pattern("RemoveGroupMember") = <<"v1", "groups", "{groupId}", "members">>
        /\ Head(Routes["RemoveGroupMember"]) = "DELETE"
    <3>1. Routes["RemoveGroupMember"] = <<"DELETE", "groups", "{groupId}", "members">>
      BY DEF Routes
    <3> QED BY <3>1, PatternIs
  <2>2. /\ Pattern("AddGroupMember") = <<"v1", "groups", "{groupId}", "members">>
        /\ Head(Routes["AddGroupMember"]) = "POST"
    <3>1. Routes["AddGroupMember"] = <<"POST", "groups", "{groupId}", "members">>
      BY DEF Routes
    <3> QED BY <3>1, PatternIs
  <2>3. /\ Builders["RemoveGroupMember"].method = "DELETE"
        /\ Builders["RemoveGroupMember"].path = <<"groups", "%s", "members">>
    BY BuildersJoin DEF MemberRequests
  <2>4. Parameters["RemoveGroupMember"] = <<"{groupId}">>
    BY ParametersJoin DEF MemberParameters
  <2>5. /\ Builders["AddGroupMember"].method = "POST"
        /\ Builders["AddGroupMember"].path = <<"groups", "%s", "members">>
    BY BuildersJoin DEF MemberRequests
  <2>6. Parameters["AddGroupMember"] = <<"{groupId}">>
    BY ParametersJoin DEF MemberParameters
  <2> QED BY <2>1, <2>2, <2>3, <2>4, <2>5, <2>6
<1>6. /\ Entry("GetHealth", "GET", <<"health">>, <<"v1", "health">>, <<>>)
  <2>1. /\ Pattern("GetHealth") = <<"v1", "health">>
        /\ Head(Routes["GetHealth"]) = "GET"
    <3>1. Routes["GetHealth"] = <<"GET", "health">>
      BY DEF Routes
    <3> QED BY <3>1, PatternIs
  <2>2. /\ Builders["GetHealth"].method = "GET"
        /\ Builders["GetHealth"].path = <<"health">>
    BY BuildersJoin DEF HealthRequests
  <2>3. Parameters["GetHealth"] = <<>>
    BY ParametersJoin DEF HealthParameters
  <2> QED BY <2>1, <2>2, <2>3
<1>7. /\ Entry("GrantLegacyAccess", "POST", <<"legacy", "grants">>,
               <<"v1", "legacy", "grants">>, <<>>)
      /\ Entry("RevokeLegacyAccess", "POST", <<"legacy", "revokes">>,
               <<"v1", "legacy", "revokes">>, <<>>)
  <2>1. /\ Pattern("GrantLegacyAccess") = <<"v1", "legacy", "grants">>
        /\ Head(Routes["GrantLegacyAccess"]) = "POST"
    <3>1. Routes["GrantLegacyAccess"] = <<"POST", "legacy", "grants">>
      BY DEF Routes
    <3> QED BY <3>1, PatternIs
  <2>2. /\ Pattern("RevokeLegacyAccess") = <<"v1", "legacy", "revokes">>
        /\ Head(Routes["RevokeLegacyAccess"]) = "POST"
    <3>1. Routes["RevokeLegacyAccess"] = <<"POST", "legacy", "revokes">>
      BY DEF Routes
    <3> QED BY <3>1, PatternIs
  <2>3. /\ Builders["GrantLegacyAccess"].method = "POST"
        /\ Builders["GrantLegacyAccess"].path = <<"legacy", "grants">>
    BY BuildersJoin DEF LegacyRequests
  <2>4. Parameters["GrantLegacyAccess"] = <<>>
    BY ParametersJoin DEF LegacyParameters
  <2>5. /\ Builders["RevokeLegacyAccess"].method = "POST"
        /\ Builders["RevokeLegacyAccess"].path = <<"legacy", "revokes">>
    BY BuildersJoin DEF LegacyRequests
  <2>6. Parameters["RevokeLegacyAccess"] = <<>>
    BY ParametersJoin DEF LegacyParameters
  <2> QED BY <2>1, <2>2, <2>3, <2>4, <2>5, <2>6
<1>8. /\ Entry("SSHMachine", "POST", <<"machines", "%s", "ssh">>,
               <<"v1", "machines", "{machineId}", "ssh">>, <<"{machineId}">>)
  <2>1. /\ Pattern("SSHMachine") = <<"v1", "machines", "{machineId}", "ssh">>
        /\ Head(Routes["SSHMachine"]) = "POST"
    <3>1. Routes["SSHMachine"] = <<"POST", "machines", "{machineId}", "ssh">>
      BY DEF Routes
    <3> QED BY <3>1, PatternIs
  <2>2. /\ Builders["SSHMachine"].method = "POST"
        /\ Builders["SSHMachine"].path = <<"machines", "%s", "ssh">>
    BY BuildersJoin DEF MachineRequests
  <2>3. Parameters["SSHMachine"] = <<"{machineId}">>
    BY ParametersJoin DEF MachineParameters
  <2> QED BY <2>1, <2>2, <2>3
<1>9. /\ Entry("ListPermissions", "GET", <<"permissions">>, <<"v1", "permissions">>, <<>>)
  <2>1. /\ Pattern("ListPermissions") = <<"v1", "permissions">>
        /\ Head(Routes["ListPermissions"]) = "GET"
    <3>1. Routes["ListPermissions"] = <<"GET", "permissions">>
      BY DEF Routes
    <3> QED BY <3>1, PatternIs
  <2>2. /\ Builders["ListPermissions"].method = "GET"
        /\ Builders["ListPermissions"].path = <<"permissions">>
    BY BuildersJoin DEF PermissionRequests
  <2>3. Parameters["ListPermissions"] = <<>>
    BY ParametersJoin DEF PermissionParameters
  <2> QED BY <2>1, <2>2, <2>3
<1>10. /\ Entry("ListResources", "GET", <<"resources">>, <<"v1", "resources">>, <<>>)
       /\ Entry("CreateResource", "POST", <<"resources">>, <<"v1", "resources">>, <<>>)
  <2>1. /\ Pattern("ListResources") = <<"v1", "resources">>
        /\ Head(Routes["ListResources"]) = "GET"
    <3>1. Routes["ListResources"] = <<"GET", "resources">>
      BY DEF Routes
    <3> QED BY <3>1, PatternIs
  <2>2. /\ Pattern("CreateResource") = <<"v1", "resources">>
        /\ Head(Routes["CreateResource"]) = "POST"
    <3>1. Routes["CreateResource"] = <<"POST", "resources">>
      BY DEF Routes
    <3> QED BY <3>1, PatternIs
  <2>3. /\ Builders["ListResources"].method = "GET"
        /\ Builders["ListResources"].path = <<"resources">>
    BY BuildersJoin DEF ResourceRequests
  <2>4. Parameters["ListResources"] = <<>>
    BY ParametersJoin DEF ResourceParameters
  <2>5. /\ Builders["CreateResource"].method = "POST"
        /\ Builders["CreateResource"].path = <<"resources">>
    BY BuildersJoin DEF ResourceRequests
  <2>6. Parameters["CreateResource"] = <<>>
    BY ParametersJoin DEF ResourceParameters
  <2> QED BY <2>1, <2>2, <2>3, <2>4, <2>5, <2>6
<1>11. /\ Entry("DeleteResource", "DELETE", <<"resources", "%s", "%s">>,
                <<"v1", "resources", "{resourceType}", "{resourceId}">>,
                <<"{resourceType}", "{resourceId}">>)
       /\ Entry("GetResource", "GET", <<"resources", "%s", "%s">>,
                <<"v1", "resources", "{resourceType}", "{resourceId}">>,
                <<"{resourceType}", "{resourceId}">>)
  <2>1. /\ Pattern("DeleteResource") = <<"v1", "resources", "{resourceType}", "{resourceId}">>
        /\ Head(Routes["DeleteResource"]) = "DELETE"
    <3>1. Routes["DeleteResource"] = <<"DELETE", "resources", "{resourceType}", "{resourceId}">>
      BY DEF Routes
    <3> QED BY <3>1, PatternIs
  <2>2. /\ Pattern("GetResource") = <<"v1", "resources", "{resourceType}", "{resourceId}">>
        /\ Head(Routes["GetResource"]) = "GET"
    <3>1. Routes["GetResource"] = <<"GET", "resources", "{resourceType}", "{resourceId}">>
      BY DEF Routes
    <3> QED BY <3>1, PatternIs
  <2>3. /\ Builders["DeleteResource"].method = "DELETE"
        /\ Builders["DeleteResource"].path = <<"resources", "%s", "%s">>
    BY BuildersJoin DEF OneResourceRequests
  <2>4. Parameters["DeleteResource"] = <<"{resourceType}", "{resourceId}">>
    BY ParametersJoin DEF OneResourceParameters
  <2>5. /\ Builders["GetResource"].method = "GET"
        /\ Builders["GetResource"].path = <<"resources", "%s", "%s">>
    BY BuildersJoin DEF OneResourceRequests
  <2>6. Parameters["GetResource"] = <<"{resourceType}", "{resourceId}">>
    BY ParametersJoin DEF OneResourceParameters
  <2> QED BY <2>1, <2>2, <2>3, <2>4, <2>5, <2>6
<1>12. /\ Entry("ListRoles", "GET", <<"roles">>, <<"v1", "roles">>, <<>>)
       /\ Entry("CreateRole", "POST", <<"roles">>, <<"v1", "roles">>, <<>>)
       /\ Entry("GetRole", "GET", <<"roles", "%s">>,
                <<"v1", "roles", "{roleId}">>, <<"{roleId}">>)
  <2>1. /\ Pattern("ListRoles") = <<"v1", "roles">>
        /\ Head(Routes["ListRoles"]) = "GET"
    <3>1. Routes["ListRoles"] = <<"GET", "roles">>
      BY DEF Routes
    <3> QED BY <3>1, PatternIs
  <2>2. /\ Pattern("CreateRole") = <<"v1", "roles">>
        /\ Head(Routes["CreateRole"]) = "POST"
    <3>1. Routes["CreateRole"] = <<"POST", "roles">>
      BY DEF Routes
    <3> QED BY <3>1, PatternIs
  <2>3. /\ Pattern("GetRole") = <<"v1", "roles", "{roleId}">>
        /\ Head(Routes["GetRole"]) = "GET"
    <3>1. Routes["GetRole"] = <<"GET", "roles", "{roleId}">>
      BY DEF Routes
    <3> QED BY <3>1, PatternIs
  <2>4. /\ Builders["ListRoles"].method = "GET"
        /\ Builders["ListRoles"].path = <<"roles">>
    BY BuildersJoin DEF RoleRequests
  <2>5. Parameters["ListRoles"] = <<>>
    BY ParametersJoin DEF RoleParameters
  <2>6. /\ Builders["CreateRole"].method = "POST"
        /\ Builders["CreateRole"].path = <<"roles">>
    BY BuildersJoin DEF RoleRequests
  <2>7. Parameters["CreateRole"] = <<>>
    BY ParametersJoin DEF RoleParameters
  <2>8. /\ Builders["GetRole"].method = "GET"
        /\ Builders["GetRole"].path = <<"roles", "%s">>
    BY BuildersJoin DEF RoleRequests
  <2>9. Parameters["GetRole"] = <<"{roleId}">>
    BY ParametersJoin DEF RoleParameters
  <2> QED BY <2>1, <2>2, <2>3, <2>4, <2>5, <2>6, <2>7, <2>8, <2>9
<1>13. /\ Entry("UpdateRole", "PUT", <<"roles", "%s">>,
                <<"v1", "roles", "{roleId}">>, <<"{roleId}">>)
       /\ Entry("PreviewRoleUpdate", "POST", <<"roles", "%s", "preview">>,
                <<"v1", "roles", "{roleId}", "preview">>, <<"{roleId}">>)
  <2>1. /\ Pattern("UpdateRole") = <<"v1", "roles", "{roleId}">>
        /\ Head(Routes["UpdateRole"]) = "PUT"
    <3>1. Routes["UpdateRole"] = <<"PUT", "roles", "{roleId}">>
      BY DEF Routes
    <3> QED BY <3>1, PatternIs
  <2>2. /\ Pattern("PreviewRoleUpdate") = <<"v1", "roles", "{roleId}", "preview">>
        /\ Head(Routes["PreviewRoleUpdate"]) = "POST"
    <3>1. Routes["PreviewRoleUpdate"] = <<"POST", "roles", "{roleId}", "preview">>
      BY DEF Routes
    <3> QED BY <3>1, PatternIs
  <2>3. /\ Builders["UpdateRole"].method = "PUT"
        /\ Builders["UpdateRole"].path = <<"roles", "%s">>
    BY BuildersJoin DEF RoleUpdateRequests
  <2>4. Parameters["UpdateRole"] = <<"{roleId}">>
    BY ParametersJoin DEF RoleUpdateParameters
  <2>5. /\ Builders["PreviewRoleUpdate"].method = "POST"
        /\ Builders["PreviewRoleUpdate"].path = <<"roles", "%s", "preview">>
    BY BuildersJoin DEF RoleUpdateRequests
  <2>6. Parameters["PreviewRoleUpdate"] = <<"{roleId}">>
    BY ParametersJoin DEF RoleUpdateParameters
  <2> QED BY <2>1, <2>2, <2>3, <2>4, <2>5, <2>6
<1>14. /\ Entry("SSHUnit", "POST", <<"units", "%s", "ssh">>,
                <<"v1", "units", "{unitId}", "ssh">>, <<"{unitId}">>)
  <2>1. /\ Pattern("SSHUnit") = <<"v1", "units", "{unitId}", "ssh">>
        /\ Head(Routes["SSHUnit"]) = "POST"
    <3>1. Routes["SSHUnit"] = <<"POST", "units", "{unitId}", "ssh">>
      BY DEF Routes
    <3> QED BY <3>1, PatternIs
  <2>2. /\ Builders["SSHUnit"].method = "POST"
        /\ Builders["SSHUnit"].path = <<"units", "%s", "ssh">>
    BY BuildersJoin DEF UnitRequests
  <2>3. Parameters["SSHUnit"] = <<"{unitId}">>
    BY ParametersJoin DEF UnitParameters
  <2> QED BY <2>1, <2>2, <2>3
<1>15. /\ Entry("ListUsers", "GET", <<"users">>, <<"v1", "users">>, <<>>)
       /\ Entry("CreateUser", "POST", <<"users">>, <<"v1", "users">>, <<>>)
  <2>1. /\ Pattern("ListUsers") = <<"v1", "users">>
        /\ Head(Routes["ListUsers"]) = "GET"
    <3>1. Routes["ListUsers"] = <<"GET", "users">>
      BY DEF Routes
    <3> QED BY <3>1, PatternIs
  <2>2. /\ Pattern("CreateUser") = <<"v1", "users">>
        /\ Head(Routes["CreateUser"]) = "POST"
    <3>1. Routes["CreateUser"] = <<"POST", "users">>
      BY DEF Routes
    <3> QED BY <3>1, PatternIs
  <2>3. /\ Builders["ListUsers"].method = "GET"
        /\ Builders["ListUsers"].path = <<"users">>
    BY BuildersJoin DEF UserRequests
  <2>4. Parameters["ListUsers"] = <<>>
    BY ParametersJoin DEF UserParameters
  <2>5. /\ Builders["CreateUser"].method = "POST"
        /\ Builders["CreateUser"].path = <<"users">>
    BY BuildersJoin DEF UserRequests
  <2>6. Parameters["CreateUser"] = <<>>
    BY ParametersJoin DEF UserParameters
  <2> QED BY <2>1, <2>2, <2>3, <2>4, <2>5, <2>6
<1> HIDE DEF Entry
<1> QED BY <1>1, <1>2, <1>3, <1>4, <1>5, <1>6, <1>7, <1>8, <1>9, <1>10, <1>11, <1>12,
           <1>13, <1>14, <1>15

-------------------------------------------------------------------------------
(* The paths that the client sends: fmt.Sprintf and url.Parse *)

\* A segment that a path keeps as it is.
Ordinary(x) == x \notin {"", ".", ".."}

\* The size of a set of one.
LEMMA OneOf == \A x : Cardinality({x}) = 1
BY FS_Singleton

\* The size of a set of two.
LEMMA TwoOf == \A x, y : x # y => Cardinality({x, y}) = 2
<1> TAKE x, y
<1> HAVE x # y
<1>1. IsFiniteSet({x}) /\ Cardinality({x}) = 1
  BY FS_Singleton
<1>2. Cardinality({x} \cup {y}) = 2
  BY <1>1, FS_AddElement
<1>3. {x} \cup {y} = {x, y}
  OBVIOUS
<1> QED BY <1>2, <1>3

\* A template without a value is the path itself.
LEMMA PlainPath ==
  ASSUME NEW a, NEW b, a # "%s", b # "%s", NEW args
  PROVE  /\ OperationPath(<<a>>, args) = <<a>>
         /\ OperationPath(<<a, b>>, args) = <<a, b>>
<1>1. OperationPath(<<a>>, args) = [i \in 1..1 |-> <<a>>[i]]
  BY DEF OperationPath
<1>2. OperationPath(<<a, b>>, args) = [i \in 1..2 |-> <<a, b>>[i]]
  BY DEF OperationPath
<1> QED BY <1>1, <1>2

\* A template with one value at its end.
LEMMA EndPath ==
  ASSUME NEW a, a # "%s", NEW args
  PROVE  OperationPath(<<a, "%s">>, args) = <<a, args[1]>>
<1> DEFINE t == <<a, "%s">>
           p == OperationPath(t, args)
<1>1. {j \in 1..2 : t[j] = "%s"} = {2}
  OBVIOUS
<1>2. p = [i \in 1..2 |->
                IF t[i] = "%s" THEN args[Cardinality({j \in 1..i : t[j] = "%s"})] ELSE t[i]]
  BY DEF OperationPath
<1>3. p[1] = a /\ p[2] = args[1]
  BY <1>1, <1>2, OneOf
<1> QED BY <1>2, <1>3

\* A template with one value before its last word.
LEMMA InnerPath ==
  ASSUME NEW a, NEW b, a # "%s", b # "%s", NEW args
  PROVE  OperationPath(<<a, "%s", b>>, args) = <<a, args[1], b>>
<1> DEFINE t == <<a, "%s", b>>
           p == OperationPath(t, args)
<1>1. {j \in 1..2 : t[j] = "%s"} = {2}
  OBVIOUS
<1>2. p = [i \in 1..3 |->
                IF t[i] = "%s" THEN args[Cardinality({j \in 1..i : t[j] = "%s"})] ELSE t[i]]
  BY DEF OperationPath
<1>3. p[1] = a /\ p[2] = args[1] /\ p[3] = b
  BY <1>1, <1>2, OneOf
<1> QED BY <1>2, <1>3

\* A template with two values at its end.
LEMMA DoublePath ==
  ASSUME NEW a, a # "%s", NEW args
  PROVE  OperationPath(<<a, "%s", "%s">>, args) = <<a, args[1], args[2]>>
<1> DEFINE t == <<a, "%s", "%s">>
           p == OperationPath(t, args)
<1>1. {j \in 1..2 : t[j] = "%s"} = {2} /\ {j \in 1..3 : t[j] = "%s"} = {2, 3}
  OBVIOUS
<1>2. p = [i \in 1..3 |->
                IF t[i] = "%s" THEN args[Cardinality({j \in 1..i : t[j] = "%s"})] ELSE t[i]]
  BY DEF OperationPath
<1>3. Cardinality({2}) = 1 /\ Cardinality({2, 3}) = 2
  <2>1. 2 # 3
    OBVIOUS
  <2> QED BY <2>1, OneOf, TwoOf, Zenon
<1>4. p[1] = a /\ p[2] = args[1] /\ p[3] = args[2]
  BY <1>1, <1>2, <1>3
<1> QED BY <1>2, <1>4

\* What is entered segment by segment, for paths as short as those of the client.
LEMMA DirectoriesAre ==
  ASSUME NEW path, Len(path) \in 1..3
  PROVE  LET dir == Directories(path)
         IN  /\ dir[1] = Enter(<<"v1">>, path[1])
             /\ Len(path) >= 2 => dir[2] = Enter(Enter(<<"v1">>, path[1]), path[2])
             /\ Len(path) = 3 => dir[3] = Enter(Enter(Enter(<<"v1">>, path[1]), path[2]),
                path[3])
<1> DEFINE d0 == <<"v1">>
           d1 == Enter(d0, path[1])
           d2 == Enter(d1, path[2])
           d3 == Enter(d2, path[3])
           dirs == [i \in 0..Len(path) |->
                      IF i = 0 THEN d0 ELSE IF i = 1 THEN d1 ELSE IF i = 2 THEN d2 ELSE d3]
<1>1. dirs = [i \in 0..Len(path) |->
                IF i = 0 THEN <<"v1">> ELSE Enter(dirs[i - 1], path[i])]
  OBVIOUS
<1>2. Directories(path) = [i \in 0..Len(path) |->
         IF i = 0 THEN <<"v1">> ELSE Enter(Directories(path)[i - 1], path[i])]
  BY <1>1 DEF Directories
<1> QED BY <1>2

\* One more segment, for the paths there are.
LEMMA Longer ==
  ASSUME NEW x
  PROVE  /\ Append(<<>>, x) = <<x>>
         /\ \A a : Append(<<a>>, x) = <<a, x>>
         /\ \A a, b : Append(<<a, b>>, x) = <<a, b, x>>
         /\ \A a, b, c : Append(<<a, b, c>>, x) = <<a, b, c, x>>
<1>1. Append(<<>>, x) = <<x>>
  OBVIOUS
<1>2. ASSUME NEW a PROVE Append(<<a>>, x) = <<a, x>>
  <2> DEFINE s == Append(<<a>>, x)
  <2>1. s \in Seq({a, x}) /\ Len(s) = 2 /\ s[1] = a /\ s[2] = x
    OBVIOUS
  <2> QED BY <2>1, Spelt
<1>3. ASSUME NEW a, NEW b PROVE Append(<<a, b>>, x) = <<a, b, x>>
  <2> DEFINE s == Append(<<a, b>>, x)
  <2>1. s \in Seq({a, b, x}) /\ Len(s) = 3 /\ s[1] = a /\ s[2] = b /\ s[3] = x
    OBVIOUS
  <2> QED BY <2>1, Spelt
<1>4. ASSUME NEW a, NEW b, NEW c PROVE Append(<<a, b, c>>, x) = <<a, b, c, x>>
  <2> DEFINE s == Append(<<a, b, c>>, x)
  <2>1. /\ s \in Seq({a, b, c, x}) /\ Len(s) = 4
        /\ s[1] = a /\ s[2] = b /\ s[3] = c /\ s[4] = x
    OBVIOUS
  <2> QED BY <2>1, Spelt
<1> QED BY <1>1, <1>2, <1>3, <1>4

\* One segment less, for the paths there are.
LEMMA Shorter ==
  /\ \A a : Front(<<a>>) = <<>>
  /\ \A a, b : Front(<<a, b>>) = <<a>>
  /\ \A a, b, c : Front(<<a, b, c>>) = <<a, b>>
<1>1. ASSUME NEW a PROVE Front(<<a>>) = <<>>
  BY DEF Front
<1>2. ASSUME NEW a, NEW b PROVE Front(<<a, b>>) = <<a>>
  <2> DEFINE s == Front(<<a, b>>)
  <2>1. s \in Seq({a, b}) /\ Len(s) = 1 /\ s[1] = a
    BY DEF Front
  <2> QED BY <2>1, Spelt
<1>3. ASSUME NEW a, NEW b, NEW c PROVE Front(<<a, b, c>>) = <<a, b>>
  <2> DEFINE s == Front(<<a, b, c>>)
  <2>1. s \in Seq({a, b, c}) /\ Len(s) = 2 /\ s[1] = a /\ s[2] = b
    BY DEF Front
  <2> QED BY <2>1, Spelt
<1> QED BY <1>1, <1>2, <1>3

\* url.Parse goes down into a segment, an empty one too.
LEMMA Entered ==
  ASSUME NEW x, Ordinary(x) \/ x = ""
  PROVE  /\ Enter(<<>>, x) = <<x>>
         /\ Enter(<<"v1">>, x) = <<"v1", x>>
         /\ \A a : Enter(<<"v1", a>>, x) = <<"v1", a, x>>
         /\ \A a, b : Enter(<<"v1", a, b>>, x) = <<"v1", a, b, x>>
<1>1. \A dir : Enter(dir, x) = Append(dir, x)
  BY DEF Enter, Ordinary
<1>2. Enter(<<>>, x) = <<x>> /\ Enter(<<"v1">>, x) = <<"v1", x>>
  BY <1>1, Longer
<1>3. ASSUME NEW a PROVE Enter(<<"v1", a>>, x) = <<"v1", a, x>>
  BY <1>1, Longer
<1>4. ASSUME NEW a, NEW b PROVE Enter(<<"v1", a, b>>, x) = <<"v1", a, b, x>>
  BY <1>1, Longer
<1> QED BY <1>2, <1>3, <1>4

\* url.Parse drops "." and goes up at "..".
LEMMA Left ==
  /\ \A dir : Enter(dir, ".") = dir
  /\ Enter(<<>>, "..") = <<>>
  /\ Enter(<<"v1">>, "..") = <<>>
  /\ \A a : Enter(<<"v1", a>>, "..") = <<"v1">>
  /\ \A a, b : Enter(<<"v1", a, b>>, "..") = <<"v1", a>>
<1>1. \A dir : Enter(dir, ".") = dir
  BY DEF Enter
<1>2. \A dir : Enter(dir, "..") = IF dir = <<>> THEN dir ELSE Front(dir)
  BY DEF Enter
<1>3. Enter(<<>>, "..") = <<>> /\ Enter(<<"v1">>, "..") = <<>>
  BY <1>2, Shorter
<1>4. ASSUME NEW a PROVE Enter(<<"v1", a>>, "..") = <<"v1">>
  <2>1. <<"v1", a>> # <<>>
    OBVIOUS
  <2> QED BY <1>2, <2>1, Shorter
<1>5. ASSUME NEW a, NEW b PROVE Enter(<<"v1", a, b>>, "..") = <<"v1", a>>
  <2>1. <<"v1", a, b>> # <<>>
    OBVIOUS
  <2> QED BY <1>2, <2>1, Shorter
<1> QED BY <1>1, <1>3, <1>4, <1>5

\* A path that ends in "/": no pattern does.
DeadEnd(p) ==
  \/ p = <<"">>
  \/ \E a : p = <<a, "">>
  \/ \E a, b : p = <<a, b, "">>
  \/ \E a, b, c : p = <<a, b, c, "">>

\* The last segment, for the paths there are.
LEMMA LastIs ==
  /\ \A a : Last(<<a>>) = a
  /\ \A a, b : Last(<<a, b>>) = b
  /\ \A a, b, c : Last(<<a, b, c>>) = c
  /\ \A a, b, c, d : Last(<<a, b, c, d>>) = d
BY DEF Last

\* A path of one word is sent below the base URL.
LEMMA ResolvedOne ==
  ASSUME NEW a, Ordinary(a)
  PROVE  Resolve(<<a>>) = <<"v1", a>>
<1>1. Directories(<<a>>)[Len(<<a>>)] = Enter(<<"v1">>, a)
  BY DirectoriesAre
<1>2. Last(<<a>>) \notin {".", ".."}
  BY LastIs DEF Ordinary
<1> QED BY <1>1, <1>2, Entered DEF Resolve

\* So is a path of two; a name at its end that is no segment leads nowhere.
LEMMA ResolvedTwo ==
  ASSUME NEW a, NEW b, Ordinary(a)
  PROVE  /\ Ordinary(b) => Resolve(<<a, b>>) = <<"v1", a, b>>
         /\ ~Ordinary(b) => DeadEnd(Resolve(<<a, b>>))
<1> DEFINE path == <<a, b>>
<1>1. Directories(path)[Len(path)] = Enter(<<"v1", a>>, b)
  <2>1. Directories(path)[2] = Enter(Enter(<<"v1">>, a), b)
    BY DirectoriesAre
  <2>2. Enter(<<"v1">>, a) = <<"v1", a>>
    BY Entered
  <2> QED BY <2>1, <2>2
<1>2. Last(path) = b
  BY LastIs
<1>3. Resolve(path) = LET dir == Enter(<<"v1", a>>, b)
                      IN  IF b \in {".", ".."} THEN Append(dir, "") ELSE dir
  BY <1>1, <1>2 DEF Resolve
<1> HIDE DEF path
<1>4. CASE Ordinary(b)
  <2>1. Resolve(path) = <<"v1", a, b>>
    BY <1>3, <1>4, Entered DEF Ordinary
  <2> QED BY <1>4, <2>1 DEF path
<1>5. CASE b = ""
  <2>1. Resolve(path) = <<"v1", a, "">>
    BY <1>3, <1>5, Entered
  <2> QED BY <1>5, <2>1 DEF DeadEnd, Ordinary, path
<1>6. CASE b = "."
  <2>1. Resolve(path) = <<"v1", a, "">>
    BY <1>3, <1>6, Left, Longer
  <2> QED BY <1>6, <2>1 DEF DeadEnd, Ordinary, path
<1>7. CASE b = ".."
  <2>1. Resolve(path) = <<"v1", "">>
    BY <1>3, <1>7, Left, Longer
  <2> QED BY <1>7, <2>1 DEF DeadEnd, Ordinary, path
<1> QED BY <1>4, <1>5, <1>6, <1>7 DEF path, Ordinary

\* A special segment before an ordinary one is lost with, or without, another.
LEMMA ResolvedThree ==
  ASSUME NEW a, NEW x, NEW b, Ordinary(a), Ordinary(b)
  PROVE  Resolve(<<a, x, b>>) = IF x = "." THEN <<"v1", a, b>>
                                ELSE IF x = ".." THEN <<"v1", b>>
                                ELSE <<"v1", a, x, b>>
<1> DEFINE path == <<a, x, b>>
<1>1. Directories(path)[Len(path)] = Enter(Enter(<<"v1", a>>, x), b)
  <2>1. Directories(path)[3] = Enter(Enter(Enter(<<"v1">>, a), x), b)
    BY DirectoriesAre
  <2>2. Enter(<<"v1">>, a) = <<"v1", a>>
    BY Entered
  <2> QED BY <2>1, <2>2
<1>2. Last(path) \notin {".", ".."}
  <2>1. Last(path) = b
    BY LastIs
  <2> QED BY <2>1 DEF Ordinary
<1>3. Resolve(path) = Enter(Enter(<<"v1", a>>, x), b)
  BY <1>1, <1>2 DEF Resolve
<1> HIDE DEF path
<1>4. CASE x = "."
  BY <1>3, <1>4, Left, Entered DEF path
<1>5. CASE x = ".."
  BY <1>3, <1>5, Left, Entered DEF path
<1>6. CASE x \notin {".", ".."}
  <2>1. Enter(<<"v1", a>>, x) = <<"v1", a, x>>
    BY <1>6, Entered DEF Ordinary
  <2>2. Enter(<<"v1", a, x>>, b) = <<"v1", a, x, b>>
    BY Entered
  <2> QED BY <1>3, <1>6, <2>1, <2>2 DEF path
<1> QED BY <1>4, <1>5, <1>6

\* A name at the end of three that is no segment leads nowhere.
LEMMA ResolvedLost ==
  ASSUME NEW a, NEW x, NEW b, Ordinary(a), ~Ordinary(b)
  PROVE  DeadEnd(Resolve(<<a, x, b>>))
<1> DEFINE path == <<a, x, b>>
           dir == Enter(<<"v1", a>>, x)
<1>1. Directories(path)[Len(path)] = Enter(dir, b)
  <2>1. Directories(path)[3] = Enter(Enter(Enter(<<"v1">>, a), x), b)
    BY DirectoriesAre
  <2>2. Enter(<<"v1">>, a) = <<"v1", a>>
    BY Entered
  <2> QED BY <2>1, <2>2
<1>2. Last(path) = b
  BY LastIs
<1>3. Resolve(path) = IF b \in {".", ".."} THEN Append(Enter(dir, b), "") ELSE Enter(dir, b)
  BY <1>1, <1>2 DEF Resolve
<1>4. dir \in {<<"v1", a, x>>, <<"v1", a>>, <<"v1">>}
  <2>1. CASE x = "." \/ x = ".."
    BY <2>1, Left
  <2>2. CASE x \notin {".", ".."}
    BY <2>2, Entered DEF Ordinary
  <2> QED BY <2>1, <2>2
<1> HIDE DEF path, dir
<1>5. CASE b = ""
  <2>1. Enter(dir, "") \in {<<"v1", a, x, "">>, <<"v1", a, "">>, <<"v1", "">>}
    BY <1>4, Entered
  <2> QED BY <1>3, <1>5, <2>1 DEF DeadEnd, path
<1>6. CASE b = "."
  <2>1. Enter(dir, ".") = dir
    BY Left
  <2>2. Append(dir, "") \in {<<"v1", a, x, "">>, <<"v1", a, "">>, <<"v1", "">>}
    BY <1>4, Longer
  <2> QED BY <1>3, <1>6, <2>1, <2>2 DEF DeadEnd, path
<1>7. CASE b = ".."
  <2>1. Enter(dir, "..") \in {<<"v1", a>>, <<"v1">>, <<>>}
    BY <1>4, Left
  <2>2. Append(Enter(dir, ".."), "") \in {<<"v1", a, "">>, <<"v1", "">>, <<"">>}
    BY <2>1, Longer
  <2> QED BY <1>3, <1>7, <2>2 DEF DeadEnd, path
<1> QED BY <1>5, <1>6, <1>7 DEF path, Ordinary

-------------------------------------------------------------------------------
(* The paths that the mux takes: path.Clean *)

\* path.Clean leaves out the empty segments.
Skip(named, segment) == IF segment = "" THEN named ELSE Append(named, segment)

\* What is kept segment by segment, for paths as short as those of the client.
LEMMA NamedAre ==
  ASSUME NEW path
  PROVE  LET n1 == Skip(<<>>, path[1])
             n2 == Skip(n1, path[2])
             n3 == Skip(n2, path[3])
         IN  /\ Len(path) = 1 => Named(path)[1] = n1
             /\ Len(path) = 2 => Named(path)[2] = n2
             /\ Len(path) = 3 => Named(path)[3] = n3
             /\ Len(path) = 4 => Named(path)[4] = Skip(n3, path[4])
<1> SUFFICES ASSUME Len(path) \in {1, 2, 3, 4}
             PROVE  LET n1 == Skip(<<>>, path[1])
                        n2 == Skip(n1, path[2])
                        n3 == Skip(n2, path[3])
                    IN  /\ Len(path) = 1 => Named(path)[1] = n1
                        /\ Len(path) = 2 => Named(path)[2] = n2
                        /\ Len(path) = 3 => Named(path)[3] = n3
                        /\ Len(path) = 4 => Named(path)[4] = Skip(n3, path[4])
  OBVIOUS
<1> DEFINE n1 == Skip(<<>>, path[1])
           n2 == Skip(n1, path[2])
           n3 == Skip(n2, path[3])
           n4 == Skip(n3, path[4])
           all == [i \in 0..Len(path) |->
                     IF i = 0 THEN <<>> ELSE IF i = 1 THEN n1 ELSE IF i = 2 THEN n2
                     ELSE IF i = 3 THEN n3 ELSE n4]
<1>1. all = [i \in 0..Len(path) |-> IF i = 0 THEN <<>> ELSE Skip(all[i - 1], path[i])]
  OBVIOUS
<1>2. Named(path) = [i \in 0..Len(path) |->
                       IF i = 0 THEN <<>> ELSE Skip(Named(path)[i - 1], path[i])]
  BY <1>1 DEF Named, Skip
<1> QED BY <1>2

\* A path cleaned, segment by segment: its last "/" stays.
LEMMA CleanIs ==
  ASSUME NEW path
  PROVE  LET n1 == Skip(<<>>, path[1])
             n2 == Skip(n1, path[2])
             n3 == Skip(n2, path[3])
             n4 == Skip(n3, path[4])
         IN  /\ Len(path) = 1 => Clean(path) = IF path[1] = "" THEN Append(n1, "") ELSE n1
             /\ Len(path) = 2 => Clean(path) = IF path[2] = "" THEN Append(n2, "") ELSE n2
             /\ Len(path) = 3 => Clean(path) = IF path[3] = "" THEN Append(n3, "") ELSE n3
             /\ Len(path) = 4 => Clean(path) = IF path[4] = "" THEN Append(n4, "") ELSE n4
<1> DEFINE named == Named(path)[Len(path)]
<1>1. Clean(path) = IF path[Len(path)] = "" THEN Append(named, "") ELSE named
  BY DEF Clean, Last
<1> QED BY <1>1, NamedAre

\* A segment with a name is kept.
LEMMA Kept ==
  ASSUME NEW x, x # ""
  PROVE  /\ Skip(<<>>, x) = <<x>>
         /\ \A a : Skip(<<a>>, x) = <<a, x>>
         /\ \A a, b : Skip(<<a, b>>, x) = <<a, b, x>>
         /\ \A a, b, c : Skip(<<a, b, c>>, x) = <<a, b, c, x>>
BY Longer DEF Skip

\* A path without empty segments is clean; an empty one before the last is dropped.
LEMMA CleanKeeps ==
  ASSUME NEW a, NEW b, a # "", b # ""
  PROVE  /\ Clean(<<a, b>>) = <<a, b>>
         /\ \A c : c # "" => Clean(<<a, b, c>>) = <<a, b, c>>
         /\ \A c, d : c # "" /\ d # "" => Clean(<<a, b, c, d>>) = <<a, b, c, d>>
         /\ \A d : d # "" => Clean(<<a, b, "", d>>) = <<a, b, d>>
<1>0. Skip(Skip(<<>>, a), b) = <<a, b>>
  BY Kept
<1>1. Clean(<<a, b>>) = <<a, b>>
  <2> DEFINE path == <<a, b>>
  <2>1. Len(path) = 2 /\ path[1] = a /\ path[2] = b
    OBVIOUS
  <2> HIDE DEF path
  <2>2. Clean(path) = Skip(Skip(<<>>, a), b)
    BY <2>1, CleanIs
  <2> QED BY <1>0, <2>2 DEF path
<1>2. ASSUME NEW c, c # "" PROVE Clean(<<a, b, c>>) = <<a, b, c>>
  <2> DEFINE path == <<a, b, c>>
  <2>1. Len(path) = 3 /\ path[1] = a /\ path[2] = b /\ path[3] = c
    OBVIOUS
  <2>2. Skip(<<a, b>>, c) = <<a, b, c>>
    BY <1>2, Kept
  <2> HIDE DEF path
  <2>3. Clean(path) = Skip(Skip(Skip(<<>>, a), b), c)
    BY <1>2, <2>1, CleanIs
  <2> QED BY <1>0, <2>2, <2>3 DEF path
<1>3. ASSUME NEW c, NEW d, d # ""
      PROVE  /\ c # "" => Clean(<<a, b, c, d>>) = <<a, b, c, d>>
             /\ c = "" => Clean(<<a, b, c, d>>) = <<a, b, d>>
  <2> DEFINE path == <<a, b, c, d>>
  <2>1. Len(path) = 4 /\ path[1] = a /\ path[2] = b /\ path[3] = c /\ path[4] = d
    OBVIOUS
  <2> HIDE DEF path
  <2>2. Clean(path) = Skip(Skip(Skip(Skip(<<>>, a), b), c), d)
    BY <1>3, <2>1, CleanIs
  <2>3. Clean(path) = Skip(Skip(<<a, b>>, c), d)
    BY <1>0, <2>2
  <2>4. CASE c # ""
    <3>1. Skip(<<a, b>>, c) = <<a, b, c>> /\ Skip(<<a, b, c>>, d) = <<a, b, c, d>>
      BY <1>3, <2>4, Kept
    <3> QED BY <2>3, <2>4, <3>1 DEF path
  <2>5. CASE c = ""
    <3>1. Skip(<<a, b>>, c) = <<a, b>> /\ Skip(<<a, b>>, d) = <<a, b, d>>
      BY <1>3, <2>5, Kept DEF Skip
    <3> QED BY <2>3, <2>5, <3>1 DEF path
  <2> QED BY <2>4, <2>5
<1> QED BY <1>1, <1>2, <1>3

\* A path that ends in "/" still does when it is clean.
LEMMA CleanDeadEnd ==
  ASSUME NEW p, DeadEnd(p)
  PROVE  DeadEnd(Clean(p))
<1>0. \A named : Skip(named, "") = named
  BY DEF Skip
<1>1. \A a : Skip(<<>>, a) \in {<<>>, <<a>>}
  BY Longer DEF Skip
<1>2. \A a, b : Skip(Skip(<<>>, a), b) \in {<<>>, <<a>>, <<b>>, <<a, b>>}
  BY <1>1, Longer DEF Skip
<1>3. \A a, b, c : Skip(Skip(Skip(<<>>, a), b), c) \in
        {<<>>, <<a>>, <<b>>, <<c>>, <<a, b>>, <<a, c>>, <<b, c>>, <<a, b, c>>}
  <2> TAKE a, b, c
  <2> DEFINE s == Skip(Skip(<<>>, a), b)
  <2>1. s \in {<<>>, <<a>>, <<b>>, <<a, b>>}
    BY <1>2
  <2> HIDE DEF s
  <2>2. Skip(s, c) \in {s, Append(s, c)}
    BY DEF Skip
  <2>3. Append(s, c) \in {<<c>>, <<a, c>>, <<b, c>>, <<a, b, c>>}
    BY <2>1, Longer
  <2> QED BY <2>1, <2>2, <2>3 DEF s
<1>4. /\ Append(<<>>, "") = <<"">>
      /\ \A a : Append(<<a>>, "") = <<a, "">>
      /\ \A a, b : Append(<<a, b>>, "") = <<a, b, "">>
      /\ \A a, b, c : Append(<<a, b, c>>, "") = <<a, b, c, "">>
  BY Longer
<1>5. CASE p = <<"">>
  <2>1. Len(p) = 1 /\ p[1] = ""
    BY <1>5
  <2>2. Clean(p) = Append(<<>>, "")
    BY <1>0, <2>1, CleanIs
  <2> QED BY <1>4, <2>2 DEF DeadEnd
<1>6. CASE \E a : p = <<a, "">>
  <2>1. PICK a : p = <<a, "">>
    BY <1>6
  <2>2. Len(p) = 2 /\ p[1] = a /\ p[2] = ""
    BY <2>1
  <2>3. Clean(p) = Append(Skip(<<>>, a), "")
    BY <1>0, <2>2, CleanIs
  <2>4. Clean(p) \in {<<"">>, <<a, "">>}
    BY <2>3, <1>1, <1>4
  <2> QED BY <2>4 DEF DeadEnd
<1>7. CASE \E a, b : p = <<a, b, "">>
  <2>1. PICK a, b : p = <<a, b, "">>
    BY <1>7
  <2>2. Len(p) = 3 /\ p[1] = a /\ p[2] = b /\ p[3] = ""
    BY <2>1
  <2> DEFINE s == Skip(Skip(<<>>, a), b)
  <2>3. Clean(p) = Append(s, "")
    BY <1>0, <2>2, CleanIs
  <2>4. s \in {<<>>, <<a>>, <<b>>, <<a, b>>}
    BY <1>2
  <2> HIDE DEF s
  <2>5. Clean(p) \in {<<"">>, <<a, "">>, <<b, "">>, <<a, b, "">>}
    BY <2>3, <2>4, <1>4
  <2> QED BY <2>5 DEF DeadEnd
<1>8. CASE \E a, b, c : p = <<a, b, c, "">>
  <2>1. PICK a, b, c : p = <<a, b, c, "">>
    BY <1>8
  <2>2. Len(p) = 4 /\ p[1] = a /\ p[2] = b /\ p[3] = c /\ p[4] = ""
    BY <2>1
  <2> DEFINE s == Skip(Skip(Skip(<<>>, a), b), c)
  <2>3. Clean(p) = Append(s, "")
    BY <1>0, <2>2, CleanIs
  <2>4. s \in {<<>>, <<a>>, <<b>>, <<c>>, <<a, b>>, <<a, c>>, <<b, c>>, <<a, b, c>>}
    BY <1>3
  <2> HIDE DEF s
  <2>5. Clean(p) \in
          {<<"">>, <<a, "">>, <<b, "">>, <<c, "">>, <<a, b, "">>, <<a, c, "">>,
           <<b, c, "">>, <<a, b, c, "">>}
    BY <2>3, <2>4, <1>4
  <2> QED BY <2>5 DEF DeadEnd
<1> QED BY <1>5, <1>6, <1>7, <1>8 DEF DeadEnd

-------------------------------------------------------------------------------
(* Routing *)

\* What the router can tell an operation by: its method, the length of its
\* pattern, and the first and the last part of it below the base URL.
MethodOf(op) == Head(Routes[op])
LengthOf(op) == Len(Pattern(op))
FirstOf(op) == Pattern(op)[2]
LastOf(op) == Pattern(op)[LengthOf(op)]

\* What is known of an operation by the table of the routes.
Known(op, name, method, length, first, lasts) ==
  /\ op = name /\ MethodOf(op) = method
  /\ LengthOf(op) = length /\ FirstOf(op) = first /\ LastOf(op) \in lasts

\* What its entry says of that.
LEMMA EntryKnown ==
  ASSUME NEW op, NEW method, NEW template, NEW a, NEW parameters, NEW lasts
  PROVE  /\ Entry(op, method, template, <<"v1", a>>, parameters) /\ a \in lasts =>
              Known(op, op, method, 2, a, lasts)
         /\ \A b : Entry(op, method, template, <<"v1", a, b>>, parameters) /\ b \in lasts =>
                     Known(op, op, method, 3, a, lasts)
         /\ \A b, c : Entry(op, method, template, <<"v1", a, b, c>>,
            parameters) /\ c \in lasts =>
                        Known(op, op, method, 4, a, lasts)
<1>1. ASSUME Pattern(op) = <<"v1", a>>
      PROVE  LengthOf(op) = 2 /\ FirstOf(op) = a /\ LastOf(op) = a
  BY <1>1 DEF LengthOf, FirstOf, LastOf
<1>2. ASSUME NEW b, Pattern(op) = <<"v1", a, b>>
      PROVE  LengthOf(op) = 3 /\ FirstOf(op) = a /\ LastOf(op) = b
  BY <1>2 DEF LengthOf, FirstOf, LastOf
<1>3. ASSUME NEW b, NEW c, Pattern(op) = <<"v1", a, b, c>>
      PROVE  LengthOf(op) = 4 /\ FirstOf(op) = a /\ LastOf(op) = c
  BY <1>3 DEF LengthOf, FirstOf, LastOf
<1> QED BY <1>1, <1>2, <1>3, Zenon DEF Entry, Known, MethodOf

\* The operations, as the router can tell them apart.
LEMMA Signatures ==
  ASSUME NEW op \in Ops
  PROVE
    \/ Known(op, "GetApplicationConfig", "GET", 4, "applications", {"config"})
    \/ Known(op, "UpdateApplicationConfig", "PUT", 4, "applications", {"config"})
    \/ Known(op, "CheckAuthorization", "POST", 2, "authorize", {"authorize"})
    \/ Known(op, "CheckAuthorizationBatch", "POST", 3, "authorize", {"batch"})
    \/ Known(op, "ListBindings", "GET", 2, "bindings", {"bindings"})
    \/ Known(op, "CreateBinding", "POST", 2, "bindings", {"bindings"})
    \/ Known(op, "DeleteBinding", "DELETE", 3, "bindings", Wildcards)
    \/ Known(op, "ListGroups", "GET", 2, "groups", {"groups"})
    \/ Known(op, "CreateGroup", "POST", 2, "groups", {"groups"})
    \/ Known(op, "RemoveGroupMember", "DELETE", 4, "groups", {"members"})
    \/ Known(op, "AddGroupMember", "POST", 4, "groups", {"members"})
    \/ Known(op, "GetHealth", "GET", 2, "health", {"health"})
    \/ Known(op, "GrantLegacyAccess", "POST", 3, "legacy", {"grants"})
    \/ Known(op, "RevokeLegacyAccess", "POST", 3, "legacy", {"revokes"})
    \/ Known(op, "SSHMachine", "POST", 4, "machines", {"ssh"})
    \/ Known(op, "ListPermissions", "GET", 2, "permissions", {"permissions"})
    \/ Known(op, "ListResources", "GET", 2, "resources", {"resources"})
    \/ Known(op, "CreateResource", "POST", 2, "resources", {"resources"})
    \/ Known(op, "DeleteResource", "DELETE", 4, "resources", Wildcards)
    \/ Known(op, "GetResource", "GET", 4, "resources", Wildcards)
    \/ Known(op, "ListRoles", "GET", 2, "roles", {"roles"})
    \/ Known(op, "CreateRole", "POST", 2, "roles", {"roles"})
    \/ Known(op, "GetRole", "GET", 3, "roles", Wildcards)
    \/ Known(op, "UpdateRole", "PUT", 3, "roles", Wildcards)
    \/ Known(op, "PreviewRoleUpdate", "POST", 4, "roles", {"preview"})
    \/ Known(op, "SSHUnit", "POST", 4, "units", {"ssh"})
    \/ Known(op, "ListUsers", "GET", 2, "users", {"users"})
    \/ Known(op, "CreateUser", "POST", 2, "users", {"users"})
<1>1. op = "GetApplicationConfig" =>
        Known(op, "GetApplicationConfig", "GET", 4, "applications", {"config"})
  BY Entries, EntryKnown, Zenon
<1>2. op = "UpdateApplicationConfig" =>
        Known(op, "UpdateApplicationConfig", "PUT", 4, "applications", {"config"})
  BY Entries, EntryKnown, Zenon
<1>3. op = "CheckAuthorization" =>
        Known(op, "CheckAuthorization", "POST", 2, "authorize", {"authorize"})
  BY Entries, EntryKnown, Zenon
<1>4. op = "CheckAuthorizationBatch" =>
        Known(op, "CheckAuthorizationBatch", "POST", 3, "authorize", {"batch"})
  BY Entries, EntryKnown, Zenon
<1>5. op = "ListBindings" =>
        Known(op, "ListBindings", "GET", 2, "bindings", {"bindings"})
  BY Entries, EntryKnown, Zenon
<1>6. op = "CreateBinding" =>
        Known(op, "CreateBinding", "POST", 2, "bindings", {"bindings"})
  BY Entries, EntryKnown, Zenon
<1>7. op = "DeleteBinding" =>
        Known(op, "DeleteBinding", "DELETE", 3, "bindings", Wildcards)
  BY Entries, EntryKnown, Zenon DEF Wildcards
<1>8. op = "ListGroups" =>
        Known(op, "ListGroups", "GET", 2, "groups", {"groups"})
  BY Entries, EntryKnown, Zenon
<1>9. op = "CreateGroup" =>
        Known(op, "CreateGroup", "POST", 2, "groups", {"groups"})
  BY Entries, EntryKnown, Zenon
<1>10. op = "RemoveGroupMember" =>
        Known(op, "RemoveGroupMember", "DELETE", 4, "groups", {"members"})
  BY Entries, EntryKnown, Zenon
<1>11. op = "AddGroupMember" =>
        Known(op, "AddGroupMember", "POST", 4, "groups", {"members"})
  BY Entries, EntryKnown, Zenon
<1>12. op = "GetHealth" =>
        Known(op, "GetHealth", "GET", 2, "health", {"health"})
  BY Entries, EntryKnown, Zenon
<1>13. op = "GrantLegacyAccess" =>
        Known(op, "GrantLegacyAccess", "POST", 3, "legacy", {"grants"})
  BY Entries, EntryKnown, Zenon
<1>14. op = "RevokeLegacyAccess" =>
        Known(op, "RevokeLegacyAccess", "POST", 3, "legacy", {"revokes"})
  BY Entries, EntryKnown, Zenon
<1>15. op = "SSHMachine" =>
        Known(op, "SSHMachine", "POST", 4, "machines", {"ssh"})
  BY Entries, EntryKnown, Zenon
<1>16. op = "ListPermissions" =>
        Known(op, "ListPermissions", "GET", 2, "permissions", {"permissions"})
  BY Entries, EntryKnown, Zenon
<1>17. op = "ListResources" =>
        Known(op, "ListResources", "GET", 2, "resources", {"resources"})
  BY Entries, EntryKnown, Zenon
<1>18. op = "CreateResource" =>
        Known(op, "CreateResource", "POST", 2, "resources", {"resources"})
  BY Entries, EntryKnown, Zenon
<1>19. op = "DeleteResource" =>
        Known(op, "DeleteResource", "DELETE", 4, "resources", Wildcards)
  BY Entries, EntryKnown, Zenon DEF Wildcards
<1>20. op = "GetResource" =>
        Known(op, "GetResource", "GET", 4, "resources", Wildcards)
  BY Entries, EntryKnown, Zenon DEF Wildcards
<1>21. op = "ListRoles" =>
        Known(op, "ListRoles", "GET", 2, "roles", {"roles"})
  BY Entries, EntryKnown, Zenon
<1>22. op = "CreateRole" =>
        Known(op, "CreateRole", "POST", 2, "roles", {"roles"})
  BY Entries, EntryKnown, Zenon
<1>23. op = "GetRole" =>
        Known(op, "GetRole", "GET", 3, "roles", Wildcards)
  BY Entries, EntryKnown, Zenon DEF Wildcards
<1>24. op = "UpdateRole" =>
        Known(op, "UpdateRole", "PUT", 3, "roles", Wildcards)
  BY Entries, EntryKnown, Zenon DEF Wildcards
<1>25. op = "PreviewRoleUpdate" =>
        Known(op, "PreviewRoleUpdate", "POST", 4, "roles", {"preview"})
  BY Entries, EntryKnown, Zenon
<1>26. op = "SSHUnit" =>
        Known(op, "SSHUnit", "POST", 4, "units", {"ssh"})
  BY Entries, EntryKnown, Zenon
<1>27. op = "ListUsers" =>
        Known(op, "ListUsers", "GET", 2, "users", {"users"})
  BY Entries, EntryKnown, Zenon
<1>28. op = "CreateUser" =>
        Known(op, "CreateUser", "POST", 2, "users", {"users"})
  BY Entries, EntryKnown, Zenon
<1> QED BY OpsAre, <1>1, <1>2, <1>3, <1>4, <1>5, <1>6, <1>7, <1>8, <1>9, <1>10, <1>11,
           <1>12, <1>13, <1>14, <1>15, <1>16, <1>17, <1>18, <1>19, <1>20, <1>21, <1>22,
           <1>23, <1>24, <1>25, <1>26, <1>27, <1>28

\* No pattern begins with a wildcard or ends in an empty segment.
LEMMA PatternWords ==
  ASSUME NEW op \in Ops
  PROVE  /\ LengthOf(op) \in {2, 3, 4}
         /\ FirstOf(op) \notin Wildcards \cup {""}
         /\ LastOf(op) # ""
<1>1. LengthOf(op) \in {2, 3, 4}
  BY Signatures DEF Known
<1>2. FirstOf(op) \in {"health", "permissions", "users", "groups", "roles", "bindings",
                      "authorize", "legacy", "resources", "applications", "units", "machines"}
  BY Signatures DEF Known
<1>3. LastOf(op) \in Wildcards \/ LastOf(op) # ""
  BY Signatures DEF Known
<1>4. FirstOf(op) \notin Wildcards \cup {""}
  BY <1>2, Zenon DEF Wildcards
<1> QED BY <1>1, <1>3, <1>4, Zenon DEF Wildcards

\* No route leads to a path that ends in "/".
LEMMA DeadEndUnrouted ==
  ASSUME NEW p, DeadEnd(p)
  PROVE  OnPath(p) = {}
<1> SUFFICES ASSUME NEW op \in Ops, Matches(Pattern(op), p) PROVE FALSE
  BY RoutesAre DEF OnPath
<1>0. ASSUME NEW n \in DOMAIN p, Len(p) = n, p[n] = ""
      PROVE  FALSE
  <2>1. LengthOf(op) = n /\ LastOf(op) = ""
    BY <1>0 DEF Matches, LengthOf, LastOf
  <2> QED BY <2>1, PatternWords
<1>1. CASE p = <<"">>
  <2>1. 1 \in DOMAIN <<"">> /\ Len(<<"">>) = 1 /\ <<"">>[1] = ""
    OBVIOUS
  <2> QED BY <1>0, <1>1, <2>1
<1>2. CASE \E a : p = <<a, "">>
  <2>1. PICK a : p = <<a, "">>
    BY <1>2
  <2>2. 2 \in DOMAIN <<a, "">> /\ Len(<<a, "">>) = 2 /\ <<a, "">>[2] = ""
    OBVIOUS
  <2> QED BY <1>0, <2>1, <2>2
<1>3. CASE \E a, b : p = <<a, b, "">>
  <2>1. PICK a, b : p = <<a, b, "">>
    BY <1>3
  <2>2. 3 \in DOMAIN <<a, b, "">> /\ Len(<<a, b, "">>) = 3 /\ <<a, b, "">>[3] = ""
    OBVIOUS
  <2> QED BY <1>0, <2>1, <2>2
<1>4. CASE \E a, b, c : p = <<a, b, c, "">>
  <2>1. PICK a, b, c : p = <<a, b, c, "">>
    BY <1>4
  <2>2. /\ 4 \in DOMAIN <<a, b, c, "">> /\ Len(<<a, b, c, "">>) = 4
        /\ <<a, b, c, "">>[4] = ""
    OBVIOUS
  <2> QED BY <1>0, <2>1, <2>2
<1> QED BY <1>1, <1>2, <1>3, <1>4 DEF DeadEnd

\* What a pattern says of a path that it matches: its length, its first word,
\* and its last one unless that is a wildcard.
LEMMA MatchedWords ==
  ASSUME NEW op \in Ops, NEW p, Matches(Pattern(op), p), 2 \in DOMAIN p, Len(p) \in DOMAIN p
  PROVE  /\ LengthOf(op) = Len(p)
         /\ p[2] = FirstOf(op)
         /\ p[Len(p)] = LastOf(op) \/ LastOf(op) \in Wildcards
<1>1. LengthOf(op) = Len(p)
  BY DEF Matches, LengthOf
<1>3. p[2] = FirstOf(op)
  BY PatternWords DEF Matches, FirstOf
<1> QED BY <1>1, <1>3 DEF Matches, LastOf

\* A request that has the method, the length and the words of one operation
\* reaches no other.
LEMMA RoutedOnce ==
  ASSUME NEW op \in Ops, NEW other \in Ops, NEW p,
         Matches(Pattern(other), p), 2 \in DOMAIN p, Len(p) \in DOMAIN p,
         MethodOf(other) = MethodOf(op),
         Len(p) = LengthOf(op), p[2] = FirstOf(op),
         p[Len(p)] = LastOf(op) \/ LastOf(op) \in Wildcards
  PROVE  other = op
<1>1. /\ LengthOf(other) = LengthOf(op) /\ FirstOf(other) = FirstOf(op)
      /\ p[Len(p)] = LastOf(other) \/ LastOf(other) \in Wildcards
  BY MatchedWords
<1>2. other = op \/ (op \in LegacyBodies /\ other \in LegacyBodies)
  BY <1>1, Signatures DEF Known, LegacyBodies
<1>3. \A x \in Ops : /\ x = "GrantLegacyAccess" => LastOf(x) = "grants"
                     /\ x = "RevokeLegacyAccess" => LastOf(x) = "revokes"
  BY Signatures DEF Known
<1>4. "grants" \notin Wildcards /\ "revokes" \notin Wildcards
  BY DEF Wildcards
<1> QED BY <1>1, <1>2, <1>3, <1>4 DEF LegacyBodies

-------------------------------------------------------------------------------
(* Requests: what is asked for by a call, and what is found *)

\* A call of the client with values for its template (Exchange: the Calls).
WellMade(c, names) == c.op \in Ops /\ c.args \in Seq(names) /\ Len(c.args) = Arity(c.op)

\* The request that the client makes of a call.
LEMMA ArgsOf ==
  ASSUME NEW names, NEW c, WellMade(c, names)
  PROVE  /\ c.op \in Ops /\ c.args \in Seq(names) /\ Len(c.args) = Arity(c.op)
         /\ NewRequest(c).method = Builders[c.op].method
         /\ NewRequest(c).path = Resolve(OperationPath(Builders[c.op].path, c.args))
BY DEF WellMade, NewRequest

\* How many values a template of each shape takes.
LEMMA Arities ==
  ASSUME NEW op
  PROVE  /\ \A a : a # "%s" /\ Builders[op].path = <<a>> => Arity(op) = 0
         /\ \A a, b : a # "%s" /\ b # "%s" /\ Builders[op].path = <<a, b>> => Arity(op) = 0
         /\ \A a : a # "%s" /\ Builders[op].path = <<a, "%s">> => Arity(op) = 1
         /\ \A a, b : a # "%s" /\ b # "%s" /\ Builders[op].path = <<a, "%s",
            b>> => Arity(op) = 1
         /\ \A a : a # "%s" /\ Builders[op].path = <<a, "%s", "%s">> => Arity(op) = 2
<1> DEFINE Holes(t) == {i \in DOMAIN t : t[i] = "%s"}
<1>0. Cardinality({}) = 0 /\ Cardinality({2}) = 1 /\ Cardinality({2, 3}) = 2
  <2>1. 2 # 3
    OBVIOUS
  <2>2. Cardinality({2, 3}) = 2
    BY <2>1, TwoOf, Zenon
  <2> QED BY <2>2, OneOf, FS_EmptySet
<1>1. ASSUME NEW a, a # "%s" PROVE Holes(<<a>>) = {}
  BY <1>1
<1>2. ASSUME NEW a, NEW b, a # "%s", b # "%s" PROVE Holes(<<a, b>>) = {}
  BY <1>2
<1>3. ASSUME NEW a, a # "%s" PROVE Holes(<<a, "%s">>) = {2}
  BY <1>3
<1>4. ASSUME NEW a, NEW b, a # "%s", b # "%s" PROVE Holes(<<a, "%s", b>>) = {2}
  BY <1>4
<1>5. ASSUME NEW a, a # "%s" PROVE Holes(<<a, "%s", "%s">>) = {2, 3}
  BY <1>5
<1>6. Arity(op) = Cardinality(Holes(Builders[op].path))
  BY DEF Arity
<1> HIDE DEF Holes
<1>7. ASSUME NEW a, a # "%s", Builders[op].path = <<a>> PROVE Arity(op) = 0
  BY <1>0, <1>1, <1>6, <1>7
<1>8. ASSUME NEW a, NEW b, a # "%s", b # "%s", Builders[op].path = <<a, b>> PROVE Arity(op) = 0
  BY <1>0, <1>2, <1>6, <1>8
<1>9. ASSUME NEW a, a # "%s", Builders[op].path = <<a, "%s">> PROVE Arity(op) = 1
  BY <1>0, <1>3, <1>6, <1>9
<1>10. ASSUME NEW a, NEW b, a # "%s", b # "%s", Builders[op].path = <<a, "%s", b>>
       PROVE  Arity(op) = 1
  BY <1>0, <1>4, <1>6, <1>10
<1>11. ASSUME NEW a, a # "%s", Builders[op].path = <<a, "%s", "%s">> PROVE Arity(op) = 2
  BY <1>0, <1>5, <1>6, <1>11
<1> QED BY <1>7, <1>8, <1>9, <1>10, <1>11

\* The values that a wrapper finds in a path: none,
LEMMA ValuesOfNone ==
  ASSUME NEW op, NEW path, Parameters[op] = <<>>
  PROVE  PathValues(op, path) = <<>>
BY DEF PathValues

\* one at the end,
LEMMA ValuesOfEnd ==
  ASSUME NEW op, NEW a, NEW w, NEW x, w # "v1", w # a,
         Pattern(op) = <<"v1", a, w>>, Parameters[op] = <<w>>
  PROVE  PathValues(op, <<"v1", a, x>>) = <<x>>
<1>1. (CHOOSE i \in {1, 2, 3} : <<"v1", a, w>>[i] = w) = 3
  OBVIOUS
<1>2. DOMAIN <<"v1", a, x>> = {1, 2, 3} /\ DOMAIN <<w>> = {1} /\ <<w>>[1] = w
  OBVIOUS
<1>3. PathValues(op, <<"v1", a, x>>) = [k \in {1} |-> <<"v1", a, x>>[3]]
  BY <1>1, <1>2 DEF PathValues
<1> QED BY <1>3

\* one before the last word,
LEMMA ValuesOfInner ==
  ASSUME NEW op, NEW a, NEW w, NEW b, NEW x, w # "v1", w # a, w # b,
         Pattern(op) = <<"v1", a, w, b>>, Parameters[op] = <<w>>
  PROVE  PathValues(op, <<"v1", a, x, b>>) = <<x>>
<1>1. (CHOOSE i \in {1, 2, 3, 4} : <<"v1", a, w, b>>[i] = w) = 3
  OBVIOUS
<1>2. DOMAIN <<"v1", a, x, b>> = {1, 2, 3, 4} /\ DOMAIN <<w>> = {1} /\ <<w>>[1] = w
  OBVIOUS
<1>3. PathValues(op, <<"v1", a, x, b>>) = [k \in {1} |-> <<"v1", a, x, b>>[3]]
  BY <1>1, <1>2 DEF PathValues
<1> QED BY <1>3

\* and two.
LEMMA ValuesOfDouble ==
  ASSUME NEW op, NEW a, NEW w, NEW v, NEW x, NEW y, w # "v1", w # a, v # "v1", v # a, v # w,
         Pattern(op) = <<"v1", a, w, v>>, Parameters[op] = <<w, v>>
  PROVE  PathValues(op, <<"v1", a, x, y>>) = <<x, y>>
<1>1. /\ (CHOOSE i \in {1, 2, 3, 4} : <<"v1", a, w, v>>[i] = w) = 3
      /\ (CHOOSE i \in {1, 2, 3, 4} : <<"v1", a, w, v>>[i] = v) = 4
  OBVIOUS
<1>2. /\ DOMAIN <<"v1", a, x, y>> = {1, 2, 3, 4} /\ DOMAIN <<w, v>> = {1, 2}
      /\ <<w, v>>[1] = w /\ <<w, v>>[2] = v
  OBVIOUS
<1>3. PathValues(op, <<"v1", a, x, y>>) =
        [k \in {1, 2} |-> <<"v1", a, x, y>>[IF k = 1 THEN 3 ELSE 4]]
  BY <1>1, <1>2 DEF PathValues
<1> QED BY <1>3

\* Names that are segments like any other.
Usual(c) == \A i \in DOMAIN c.args : Ordinary(c.args[i])

\* A path that the mux does not redirect, that has the words of op's pattern,
\* and from which its wrapper binds args.
Direct(op, path, args) ==
  /\ Clean(path) = path
  /\ 2 \in DOMAIN path /\ Len(path) \in DOMAIN path
  /\ Len(path) = LengthOf(op) /\ path[2] = FirstOf(op)
  /\ path[Len(path)] = LastOf(op) \/ LastOf(op) \in Wildcards
  /\ PathValues(op, path) = args

\* Where a call with another name in front of an ordinary word goes: with an
\* empty segment, without that name, or without the one before either.
Astray(op, method, path) ==
  \E last : /\ Ordinary(last) /\ LengthOf(op) = 4
            /\ LastOf(op) \notin Wildcards => last = LastOf(op)
            /\ \/ /\ path \in {<<"v1", FirstOf(op), "", last>>, <<"v1", FirstOf(op), last>>}
                  /\ method \in {MethodOf(op), "GET"}
               \/ path = <<"v1", last>> /\ method = MethodOf(op)

\* What the request of a call asks for.
Stated(c) ==
  LET q == NewRequest(c)
  IN  /\ q.method = MethodOf(c.op)
      /\ IF Usual(c) THEN Direct(c.op, q.path, c.args)
                     ELSE DeadEnd(q.path) \/ Astray(c.op, q.method, q.path)

\* A word of a template that stands for itself.
Literal(a) == a \notin Wildcards \cup {"%s", "", ".", ".."}

\* Such a word goes through url.Parse, path.Clean and the router as it is.
LEMMA LiteralIs ==
  ASSUME NEW a, Literal(a)
  PROVE  Ordinary(a) /\ a # "%s" /\ a \notin Wildcards /\ a # ""
BY DEF Literal, Ordinary

\* What an entry says, part by part.
LEMMA EntrySays ==
  ASSUME NEW op, NEW m, NEW template, NEW pattern, NEW parameters,
         Entry(op, m, template, pattern, parameters)
  PROVE  /\ Builders[op].method = m /\ MethodOf(op) = m /\ Builders[op].path = template
         /\ Pattern(op) = pattern /\ Parameters[op] = parameters
         /\ \A a : pattern = <<"v1", a>> =>
              LengthOf(op) = 2 /\ FirstOf(op) = a /\ LastOf(op) = a
         /\ \A a, b : pattern = <<"v1", a, b>> =>
              LengthOf(op) = 3 /\ FirstOf(op) = a /\ LastOf(op) = b
         /\ \A a, b, c : pattern = <<"v1", a, b, c>> =>
              LengthOf(op) = 4 /\ FirstOf(op) = a /\ LastOf(op) = c
<1>1. Builders[op].method = m /\ Head(Routes[op]) = m /\ Builders[op].path = template
  BY DEF Entry
<1>2. Pattern(op) = pattern /\ Parameters[op] = parameters
  BY DEF Entry
<1>3. ASSUME NEW a, pattern = <<"v1", a>>
      PROVE  LengthOf(op) = 2 /\ FirstOf(op) = a /\ LastOf(op) = a
  BY <1>2, <1>3 DEF LengthOf, FirstOf, LastOf
<1>4. ASSUME NEW a, NEW b, pattern = <<"v1", a, b>>
      PROVE  LengthOf(op) = 3 /\ FirstOf(op) = a /\ LastOf(op) = b
  BY <1>2, <1>4 DEF LengthOf, FirstOf, LastOf
<1>5. ASSUME NEW a, NEW b, NEW c, pattern = <<"v1", a, b, c>>
      PROVE  LengthOf(op) = 4 /\ FirstOf(op) = a /\ LastOf(op) = c
  BY <1>2, <1>5 DEF LengthOf, FirstOf, LastOf
<1> QED BY <1>1, <1>2, <1>3, <1>4, <1>5 DEF MethodOf

\* A call without values, as "users" or "roles".
LEMMA PlainOneStated ==
  ASSUME NEW names, NEW c, WellMade(c, names), NEW m, NEW a, Literal(a),
         Entry(c.op, m, <<a>>, <<"v1", a>>, <<>>)
  PROVE  Stated(c)
<1>1. /\ Builders[c.op].method = m /\ MethodOf(c.op) = m /\ Builders[c.op].path = <<a>>
      /\ LengthOf(c.op) = 2 /\ FirstOf(c.op) = a /\ LastOf(c.op) = a
      /\ Pattern(c.op) = <<"v1", a>> /\ Parameters[c.op] = <<>>
  BY EntrySays
<1>2. c.args = <<>>
  <2>1. Len(c.args) = 0
    BY <1>1, ArgsOf, Arities, LiteralIs
  <2> QED BY <2>1, ArgsOf, Spelt
<1>3. NewRequest(c).path = <<"v1", a>>
  <2>1. OperationPath(<<a>>, c.args) = <<a>>
    BY LiteralIs, PlainPath
  <2>2. Resolve(<<a>>) = <<"v1", a>>
    BY LiteralIs, ResolvedOne
  <2> QED BY <1>1, <2>1, <2>2, ArgsOf
<1>4. Direct(c.op, <<"v1", a>>, <<>>)
  <2>1. Clean(<<"v1", a>>) = <<"v1", a>>
    BY LiteralIs, CleanKeeps
  <2>2. PathValues(c.op, <<"v1", a>>) = <<>>
    BY <1>1, ValuesOfNone
  <2> QED BY <1>1, <2>1, <2>2 DEF Direct
<1>5. Usual(c)
  BY <1>2 DEF Usual
<1> QED BY <1>1, <1>2, <1>3, <1>4, <1>5, ArgsOf DEF Stated

\* A call without values that has two words, as "legacy/grants".
LEMMA PlainTwoStated ==
  ASSUME NEW names, NEW c, WellMade(c, names), NEW m, NEW a, NEW b, Literal(a), Literal(b),
         Entry(c.op, m, <<a, b>>, <<"v1", a, b>>, <<>>)
  PROVE  Stated(c)
<1>1. /\ Builders[c.op].method = m /\ MethodOf(c.op) = m /\ Builders[c.op].path = <<a, b>>
      /\ LengthOf(c.op) = 3 /\ FirstOf(c.op) = a /\ LastOf(c.op) = b
      /\ Pattern(c.op) = <<"v1", a, b>> /\ Parameters[c.op] = <<>>
  BY EntrySays
<1>2. c.args = <<>>
  <2>1. Len(c.args) = 0
    BY <1>1, ArgsOf, Arities, LiteralIs
  <2> QED BY <2>1, ArgsOf, Spelt
<1>3. NewRequest(c).path = <<"v1", a, b>>
  BY <1>1, ArgsOf, LiteralIs, PlainPath, ResolvedTwo
<1>4. Direct(c.op, <<"v1", a, b>>, <<>>)
  <2>1. Clean(<<"v1", a, b>>) = <<"v1", a, b>>
    BY LiteralIs, CleanKeeps
  <2>2. PathValues(c.op, <<"v1", a, b>>) = <<>>
    BY <1>1, ValuesOfNone
  <2> QED BY <1>1, <2>1, <2>2 DEF Direct
<1>5. Usual(c)
  BY <1>2 DEF Usual
<1> QED BY <1>1, <1>2, <1>3, <1>4, <1>5, ArgsOf DEF Stated

\* A call with a name at the end, as "roles/%s".
LEMMA EndStated ==
  ASSUME NEW names, NEW c, WellMade(c, names), NEW m, NEW a, NEW w \in Wildcards, Literal(a),
         Entry(c.op, m, <<a, "%s">>, <<"v1", a, w>>, <<w>>)
  PROVE  Stated(c)
<1>1. /\ Builders[c.op].method = m /\ MethodOf(c.op) = m /\ Builders[c.op].path = <<a, "%s">>
      /\ LengthOf(c.op) = 3 /\ FirstOf(c.op) = a /\ LastOf(c.op) = w
      /\ Pattern(c.op) = <<"v1", a, w>> /\ Parameters[c.op] = <<w>>
  BY EntrySays
<1> DEFINE x == c.args[1]
<1>2. c.args = <<x>>
  <2>1. Len(c.args) = 1
    BY <1>1, ArgsOf, Arities, LiteralIs
  <2> QED BY <2>1, ArgsOf, Spelt
<1>3. NewRequest(c).path = Resolve(<<a, x>>)
  BY <1>1, ArgsOf, LiteralIs, EndPath
<1> HIDE DEF x
<1>4. Usual(c) <=> Ordinary(x)
  BY <1>2 DEF Usual
<1>5. w # "v1" /\ w # a
  BY LiteralIs DEF Wildcards
<1>6. CASE Ordinary(x)
  <2>1. NewRequest(c).path = <<"v1", a, x>>
    BY <1>3, <1>6, LiteralIs, ResolvedTwo
  <2>2. Clean(<<"v1", a, x>>) = <<"v1", a, x>>
    BY <1>6, LiteralIs, CleanKeeps DEF Ordinary
  <2>3. Direct(c.op, <<"v1", a, x>>, <<x>>)
    BY <1>1, <1>5, <2>2, ValuesOfEnd DEF Direct
  <2> QED BY <1>1, <1>2, <1>4, <1>6, <2>1, <2>3, ArgsOf DEF Stated
<1>7. CASE ~Ordinary(x)
  <2>1. DeadEnd(NewRequest(c).path)
    BY <1>3, <1>7, LiteralIs, ResolvedTwo
  <2> QED BY <1>1, <1>4, <1>7, <2>1, ArgsOf DEF Stated
<1> QED BY <1>6, <1>7

\* Where a path leads that has an ordinary last segment after another name.
LEMMA LedAstray ==
  ASSUME NEW a, NEW x, NEW last, Ordinary(a), ~Ordinary(x), Ordinary(last), NEW op,
         LengthOf(op) = 4, FirstOf(op) = a,
         LastOf(op) \notin Wildcards => last = LastOf(op)
  PROVE  Astray(op, MethodOf(op), Resolve(<<a, x, last>>))
<1>1. CASE x = ""
  <2>1. Resolve(<<a, x, last>>) = <<"v1", a, "", last>>
    BY <1>1, ResolvedThree
  <2> QED BY <2>1 DEF Astray
<1>2. CASE x = "."
  <2>1. Resolve(<<a, x, last>>) = <<"v1", a, last>>
    BY <1>2, ResolvedThree
  <2> QED BY <2>1 DEF Astray
<1>3. CASE x = ".."
  <2>1. Resolve(<<a, x, last>>) = <<"v1", last>>
    BY <1>3, ResolvedThree
  <2> QED BY <2>1 DEF Astray
<1> QED BY <1>1, <1>2, <1>3 DEF Ordinary

\* A call with a name before the last word, as "groups/%s/members".
LEMMA InnerStated ==
  ASSUME NEW names, NEW c, WellMade(c, names), NEW m, NEW a, NEW w \in Wildcards, NEW b,
    Literal(a), Literal(b),
         Entry(c.op, m, <<a, "%s", b>>, <<"v1", a, w, b>>, <<w>>)
  PROVE  Stated(c)
<1>1. /\ Builders[c.op].method = m /\ MethodOf(c.op) = m
      /\ Builders[c.op].path = <<a, "%s", b>>
      /\ LengthOf(c.op) = 4 /\ FirstOf(c.op) = a /\ LastOf(c.op) = b
      /\ Pattern(c.op) = <<"v1", a, w, b>> /\ Parameters[c.op] = <<w>>
  BY EntrySays
<1> DEFINE x == c.args[1]
<1>2. c.args = <<x>>
  <2>1. Len(c.args) = 1
    BY <1>1, ArgsOf, Arities, LiteralIs
  <2> QED BY <2>1, ArgsOf, Spelt
<1>3. NewRequest(c).path = Resolve(<<a, x, b>>)
  BY <1>1, ArgsOf, LiteralIs, InnerPath
<1> HIDE DEF x
<1>4. Usual(c) <=> Ordinary(x)
  BY <1>2 DEF Usual
<1>5. w # "v1" /\ w # a /\ w # b
  BY LiteralIs DEF Wildcards
<1>6. CASE Ordinary(x)
  <2>1. NewRequest(c).path = <<"v1", a, x, b>>
    BY <1>3, <1>6, LiteralIs, ResolvedThree DEF Ordinary
  <2>2. Clean(<<"v1", a, x, b>>) = <<"v1", a, x, b>>
    BY <1>6, LiteralIs, CleanKeeps DEF Ordinary
  <2>3. Direct(c.op, <<"v1", a, x, b>>, <<x>>)
    BY <1>1, <1>5, <2>2, ValuesOfInner DEF Direct
  <2> QED BY <1>1, <1>2, <1>4, <1>6, <2>1, <2>3, ArgsOf DEF Stated
<1>7. CASE ~Ordinary(x)
  <2>1. LengthOf(c.op) = 4 /\ FirstOf(c.op) = a /\ LastOf(c.op) = b
    BY <1>1
  <2>2. Astray(c.op, MethodOf(c.op), NewRequest(c).path)
    BY <1>3, <1>7, <2>1, LiteralIs, LedAstray
  <2> QED BY <1>1, <1>4, <1>7, <2>2, ArgsOf DEF Stated
<1> QED BY <1>6, <1>7

\* A call with two names at the end, as "resources/%s/%s".
LEMMA DoubleStated ==
  ASSUME NEW names, NEW c, WellMade(c, names), NEW m, NEW a, NEW w \in Wildcards,
    NEW v \in Wildcards, v # w,
         Literal(a), Entry(c.op, m, <<a, "%s", "%s">>, <<"v1", a, w, v>>, <<w, v>>)
  PROVE  Stated(c)
<1>1. /\ Builders[c.op].method = m /\ MethodOf(c.op) = m
      /\ Builders[c.op].path = <<a, "%s", "%s">>
      /\ LengthOf(c.op) = 4 /\ FirstOf(c.op) = a /\ LastOf(c.op) = v
      /\ Pattern(c.op) = <<"v1", a, w, v>> /\ Parameters[c.op] = <<w, v>>
  BY EntrySays
<1> DEFINE x == c.args[1]
           y == c.args[2]
<1>2. c.args = <<x, y>>
  <2>1. Len(c.args) = 2
    BY <1>1, ArgsOf, Arities, LiteralIs
  <2> QED BY <2>1, ArgsOf, Spelt
<1>3. NewRequest(c).path = Resolve(<<a, x, y>>)
  BY <1>1, ArgsOf, LiteralIs, DoublePath
<1> HIDE DEF x, y
<1>4. Usual(c) <=> Ordinary(x) /\ Ordinary(y)
  BY <1>2 DEF Usual
<1>5. w # "v1" /\ w # a /\ v # "v1" /\ v # a
  BY LiteralIs DEF Wildcards
<1>6. CASE Ordinary(x) /\ Ordinary(y)
  <2>1. NewRequest(c).path = <<"v1", a, x, y>>
    BY <1>3, <1>6, LiteralIs, ResolvedThree DEF Ordinary
  <2>2. Clean(<<"v1", a, x, y>>) = <<"v1", a, x, y>>
    BY <1>6, LiteralIs, CleanKeeps DEF Ordinary
  <2>3. Direct(c.op, <<"v1", a, x, y>>, <<x, y>>)
    BY <1>1, <1>5, <2>2, ValuesOfDouble DEF Direct
  <2> QED BY <1>1, <1>2, <1>4, <1>6, <2>1, <2>3, ArgsOf DEF Stated
<1>7. CASE ~Ordinary(y)
  <2>1. DeadEnd(NewRequest(c).path)
    BY <1>3, <1>7, LiteralIs, ResolvedLost
  <2> QED BY <1>1, <1>4, <1>7, <2>1, ArgsOf DEF Stated
<1>8. CASE ~Ordinary(x) /\ Ordinary(y)
  <2>1. LengthOf(c.op) = 4 /\ FirstOf(c.op) = a /\ LastOf(c.op) = v
    BY <1>1
  <2>2. Astray(c.op, MethodOf(c.op), NewRequest(c).path)
    BY <1>3, <1>8, <2>1, LiteralIs, LedAstray
  <2> QED BY <1>1, <1>4, <1>8, <2>2, ArgsOf DEF Stated
<1> QED BY <1>6, <1>7, <1>8

\* What the request of a call asks for, whatever the names in it are.
LEMMA AllStated ==
  ASSUME NEW names, NEW c, WellMade(c, names)
  PROVE  Stated(c)
<1>0. c.op \in Ops
  BY ArgsOf
<1>1. ASSUME NEW a \in {"health", "permissions", "users", "groups", "members", "roles",
      "preview",
                        "bindings", "authorize", "batch", "legacy", "grants", "revokes",
                        "resources", "applications", "config", "units", "machines", "ssh"}
      PROVE  Literal(a)
  BY DEF Literal, Wildcards
<1>2. CASE c.op \in {"GetHealth", "ListPermissions", "ListUsers", "CreateUser", "ListGroups",
                     "CreateGroup", "ListRoles", "CreateRole", "ListBindings", "CreateBinding",
                     "CheckAuthorization", "ListResources", "CreateResource"}
  BY <1>1, <1>2, Entries, PlainOneStated
<1>3. CASE c.op \in {"CheckAuthorizationBatch", "GrantLegacyAccess", "RevokeLegacyAccess"}
  BY <1>1, <1>3, Entries, PlainTwoStated
<1>4. CASE c.op \in {"DeleteBinding", "GetRole", "UpdateRole"}
  BY <1>1, <1>4, Entries, EndStated DEF Wildcards
<1>5. ASSUME NEW w \in Wildcards, NEW m, NEW a, NEW b, Literal(a), Literal(b),
             Entry(c.op, m, <<a, "%s", b>>, <<"v1", a, w, b>>, <<w>>)
      PROVE  Stated(c)
  BY <1>5, InnerStated
<1>11. CASE c.op = "RemoveGroupMember"
  <2>1. Entry(c.op, "DELETE", <<"groups", "%s", "members">>, <<"v1", "groups", "{groupId}",
        "members">>, <<"{groupId}">>)
    BY <1>11, Entries
  <2> QED BY <1>1, <1>5, <2>1 DEF Wildcards
<1>12. CASE c.op = "AddGroupMember"
  <2>1. Entry(c.op, "POST", <<"groups", "%s", "members">>, <<"v1", "groups", "{groupId}",
        "members">>, <<"{groupId}">>)
    BY <1>12, Entries
  <2> QED BY <1>1, <1>5, <2>1 DEF Wildcards
<1>13. CASE c.op = "PreviewRoleUpdate"
  <2>1. Entry(c.op, "POST", <<"roles", "%s", "preview">>, <<"v1", "roles", "{roleId}",
        "preview">>, <<"{roleId}">>)
    BY <1>13, Entries
  <2> QED BY <1>1, <1>5, <2>1 DEF Wildcards
<1>14. CASE c.op = "GetApplicationConfig"
  <2>1. Entry(c.op, "GET", <<"applications", "%s", "config">>, <<"v1", "applications",
        "{applicationId}", "config">>, <<"{applicationId}">>)
    BY <1>14, Entries
  <2> QED BY <1>1, <1>5, <2>1 DEF Wildcards
<1>15. CASE c.op = "UpdateApplicationConfig"
  <2>1. Entry(c.op, "PUT", <<"applications", "%s", "config">>, <<"v1", "applications",
        "{applicationId}", "config">>, <<"{applicationId}">>)
    BY <1>15, Entries
  <2> QED BY <1>1, <1>5, <2>1 DEF Wildcards
<1>16. CASE c.op = "SSHUnit"
  <2>1. Entry(c.op, "POST", <<"units", "%s", "ssh">>, <<"v1", "units", "{unitId}", "ssh">>,
        <<"{unitId}">>)
    BY <1>16, Entries
  <2> QED BY <1>1, <1>5, <2>1 DEF Wildcards
<1>17. CASE c.op = "SSHMachine"
  <2>1. Entry(c.op, "POST", <<"machines", "%s", "ssh">>, <<"v1", "machines", "{machineId}",
        "ssh">>, <<"{machineId}">>)
    BY <1>17, Entries
  <2> QED BY <1>1, <1>5, <2>1 DEF Wildcards
<1>6. CASE c.op \in {"DeleteResource", "GetResource"}
  BY <1>1, <1>6, Entries, DoubleStated DEF Wildcards
<1> QED BY <1>0, <1>2, <1>3, <1>4, <1>6, <1>11, <1>12, <1>13, <1>14, <1>15, <1>16, <1>17, OpsAre

\* Where a path leads with an empty segment in it, and without one.
LEMMA StrayCleaned ==
  ASSUME NEW a, NEW last, a # "", last # ""
  PROVE  /\ Clean(<<"v1", a, "", last>>) = <<"v1", a, last>>
         /\ Clean(<<"v1", a, last>>) = <<"v1", a, last>>
         /\ Clean(<<"v1", last>>) = <<"v1", last>>
         /\ <<"v1", a, last>> # <<"v1", a, "", last>>
<1>1. "v1" # ""
  OBVIOUS
<1>2. <<"v1", a, last>> # <<"v1", a, "", last>>
  <2>1. Len(<<"v1", a, last>>) = 3 /\ Len(<<"v1", a, "", last>>) = 4
    OBVIOUS
  <2> QED BY <2>1
<1> QED BY <1>1, <1>2, CleanKeeps

\* The operations by the length of their patterns.
LEMMA OfFour ==
  ASSUME NEW op \in Ops, LengthOf(op) = 4
  PROVE  /\ \/ op = "PreviewRoleUpdate" /\ MethodOf(op) = "POST" /\ FirstOf(op) = "roles"
            \/ FirstOf(op) \in {"applications", "groups", "machines", "resources", "units"}
         /\ \/ op = "DeleteResource" /\ MethodOf(op) = "DELETE"
            \/ op = "GetResource" /\ MethodOf(op) = "GET"
            \/ LastOf(op) \in {"config", "members", "ssh", "preview"}
BY Signatures DEF Known

\* Those with patterns of three.
LEMMA OfThree ==
  ASSUME NEW op \in Ops, LengthOf(op) = 3
  PROVE  \/ op = "GetRole" /\ FirstOf(op) = "roles"
         \/ op = "UpdateRole" /\ MethodOf(op) = "PUT" /\ FirstOf(op) = "roles"
         \/ FirstOf(op) \in {"authorize", "bindings", "legacy"}
BY Signatures DEF Known

\* Those with patterns of two.
LEMMA OfTwo ==
  ASSUME NEW op \in Ops, LengthOf(op) = 2
  PROVE  /\ FirstOf(op) \notin {"config", "members", "ssh", "preview"}
         /\ MethodOf(op) \in {"GET", "POST"}
         /\ MethodOf(op) = "GET" =>
              op \in {"ListBindings", "ListGroups", "GetHealth", "ListPermissions",
                     "ListResources", "ListRoles", "ListUsers"}
BY Signatures DEF Known

\* A path that has gone astray by one segment or two reaches an operation that
\* only reads, and only from one that only reads.
LEMMA AstrayHarmless ==
  ASSUME NEW op \in Ops, NEW other \in Ops, NEW p, NEW method,
         Astray(op, method, p), Clean(p) = p,
         Matches(Pattern(other), p), MethodOf(other) = method
  PROVE  {op, other} \cap Mutations = {}
<1> DEFINE a == FirstOf(op)
<1>1. PICK last : /\ Ordinary(last) /\ LengthOf(op) = 4
                  /\ LastOf(op) \notin Wildcards => last = LastOf(op)
                  /\ \/ /\ p \in {<<"v1", a, "", last>>, <<"v1", a, last>>}
                        /\ method \in {MethodOf(op), "GET"}
                     \/ p = <<"v1", last>> /\ method = MethodOf(op)
  BY DEF Astray
<1>2. a # "" /\ last # ""
  BY <1>1, PatternWords DEF Ordinary
<1>3. p # <<"v1", a, "", last>>
  BY <1>2, StrayCleaned
<1>4. CASE p = <<"v1", a, last>> /\ method \in {MethodOf(op), "GET"}
  <2>1. /\ Len(<<"v1", a, last>>) = 3 /\ 2 \in DOMAIN <<"v1", a, last>>
        /\ 3 \in DOMAIN <<"v1", a, last>> /\ <<"v1", a, last>>[2] = a
    OBVIOUS
  <2>2. Len(p) = 3 /\ 2 \in DOMAIN p /\ 3 \in DOMAIN p /\ p[2] = a
    BY <1>4, <2>1
  <2>3. LengthOf(other) = 3 /\ FirstOf(other) = a
    BY <2>2, MatchedWords
  <2>4. op = "PreviewRoleUpdate" /\ other = "GetRole"
    BY <1>1, <1>4, <2>3, OfThree, OfFour
  <2> QED BY <2>4, MutationsAre
<1>5. CASE p = <<"v1", last>> /\ method = MethodOf(op)
  <2>1. /\ Len(<<"v1", last>>) = 2 /\ 2 \in DOMAIN <<"v1", last>> /\ <<"v1", last>>[2] = last
    OBVIOUS
  <2>2. Len(p) = 2 /\ 2 \in DOMAIN p /\ p[2] = last
    BY <1>5, <2>1
  <2>3. LengthOf(other) = 2 /\ FirstOf(other) = last
    BY <2>2, MatchedWords
  <2>4. last \notin {"config", "members", "ssh", "preview"}
    BY <2>3, OfTwo
  <2>5. \A w \in {"config", "members", "ssh", "preview"} : w \notin Wildcards
    BY DEF Wildcards
  <2>6. \/ op = "DeleteResource" /\ MethodOf(op) = "DELETE"
        \/ op = "GetResource" /\ MethodOf(op) = "GET"
    BY <1>1, <2>4, <2>5, OfFour
  <2>7. op = "GetResource" /\ MethodOf(other) = "GET"
    BY <1>5, <2>3, <2>6, OfTwo
  <2> QED BY <2>3, <2>7, OfTwo, MutationsAre
<1> QED BY <1>1, <1>3, <1>4, <1>5

\* What a request on its way asks for, of the call that it is for.
Asks(method, path, c) ==
  IF Usual(c) THEN method = MethodOf(c.op) /\ Direct(c.op, path, c.args)
  ELSE DeadEnd(path) \/ Astray(c.op, method, path)

\* A redirect takes a request nowhere else: it is only for paths that have gone
\* astray or lead nowhere.
LEMMA RedirectedAsks ==
  ASSUME NEW c, c.op \in Ops, NEW method, NEW p, Asks(method, p, c), Clean(p) # p,
         NEW m \in {method, "GET"}
  PROVE  Asks(m, Clean(p), c)
<1>1. ~Usual(c)
  BY DEF Asks, Direct
<1>2. CASE DeadEnd(p)
  BY <1>1, <1>2, CleanDeadEnd DEF Asks
<1>3. CASE Astray(c.op, method, p)
  <2> DEFINE op == c.op
             a == FirstOf(op)
  <2>1. PICK last : /\ Ordinary(last) /\ LengthOf(op) = 4
                    /\ LastOf(op) \notin Wildcards => last = LastOf(op)
                    /\ \/ /\ p \in {<<"v1", a, "", last>>, <<"v1", a, last>>}
                          /\ method \in {MethodOf(op), "GET"}
                       \/ p = <<"v1", last>> /\ method = MethodOf(op)
    BY <1>3 DEF Astray
  <2>2. a # "" /\ last # ""
    BY <2>1, PatternWords DEF Ordinary
  <2>3. p = <<"v1", a, "", last>> /\ Clean(p) = <<"v1", a, last>>
    BY <2>1, <2>2, StrayCleaned
  <2>4. m \in {MethodOf(op), "GET"}
    BY <2>1, <2>2, StrayCleaned
  <2>5. Astray(op, m, Clean(p))
    BY <2>1, <2>3, <2>4 DEF Astray
  <2> QED BY <1>1, <2>5 DEF Asks
<1> QED BY <1>1, <1>2, <1>3 DEF Asks

\* What the server makes of a call: the call itself, or, for names that are no
\* segments, one read in place of another.
MeantBy(made, c) ==
  \/ made = [op |-> c.op, args |-> c.args]
  \/ {made.op, c.op} \cap Mutations = {} /\ ~Usual(c)

\* The request of a call, as it is sent, asks for that call.
LEMMA SentAsks ==
  ASSUME NEW names, NEW c, WellMade(c, names)
  PROVE  LET q == NewRequest(c)
         IN  {"path", "method"} \subseteq DOMAIN q /\ Asks(q.method, q.path, c)
<1>1. {"path", "method"} \subseteq DOMAIN NewRequest(c)
  BY DEF NewRequest
<1> QED BY <1>1, AllStated DEF Stated, Asks

\* The router finds what the request asks for.
LEMMA RoutedAsMeant ==
  ASSUME NEW c, c.op \in Ops, NEW q, Asks(q.method, q.path, c),
         Clean(q.path) = q.path, NEW op \in Routed(q)
  PROVE  MeantBy([op |-> op, args |-> PathValues(op, q.path)], c)
<1>1. op \in Ops /\ Matches(Pattern(op),
      q.path) /\ MethodOf(op) = q.method /\ op \in OnPath(q.path)
  BY RoutesAre DEF Routed, OnPath, MethodOf
<1>2. CASE Usual(c)
  <2>1. q.method = MethodOf(c.op) /\ Direct(c.op, q.path, c.args)
    BY <1>2 DEF Asks
  <2>2. op = c.op
    BY <1>1, <2>1, RoutedOnce DEF Direct
  <2>3. PathValues(op, q.path) = c.args
    BY <2>1, <2>2 DEF Direct
  <2> QED BY <2>2, <2>3 DEF MeantBy
<1>3. CASE ~Usual(c)
  <2>1. Astray(c.op, q.method, q.path)
    BY <1>1, <1>3, DeadEndUnrouted DEF Asks
  <2>2. {op, c.op} \cap Mutations = {}
    BY <1>1, <2>1, AstrayHarmless
  <2> QED BY <1>3, <2>2 DEF MeantBy
<1> QED BY <1>2, <1>3
===============================================================================
