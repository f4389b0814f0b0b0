---------------------------- MODULE ResourceProofs ----------------------------
(***************************************************************************)
(* What is common to the programs of all methods of all resource classes.  *)
(***************************************************************************)
EXTENDS Resources, TLAPS

\* A program makes one request, whose arguments may be checked before and whose
\* reply may be parsed, or is one of those that read before or after they write.
Forms(kinds) ==
  {<<x>> : x \in kinds} \union {<<x, "parse">> : x \in kinds}
    \union {<<"check", x>> : x \in kinds} \union {<<"check", x, "parse">> : x \in kinds}
    \union {<<"check", "get", "parse", "set", "parse">>,
            <<"check", "fetch", "create", "parse">>,
            <<"create", "parse", "get", "parse">>,
            <<"check", "set", "get", "parse">>}

\* Arguments are checked before anything else, and no method writes twice.
Orderly(p) ==
  /\ p \in Seq(Steps) /\ Len(p) > 0
  /\ \A i \in DOMAIN p : p[i] = "check" => i = 1
  /\ \A i, j \in DOMAIN p : p[i] \in Writes /\ p[j] \in Writes => i = j

LEMMA FormsAreOrderly == \A p \in Forms(Requests) : Orderly(p)
<1>. USE DEF Orderly, Steps, Requests, Reads, Writes
<1>1. \A x \in Requests : Orderly(<<x>>)
  OBVIOUS
<1>2. \A x \in Requests : Orderly(<<x, "parse">>)
  OBVIOUS
<1>3. \A x \in Requests : Orderly(<<"check", x>>)
  OBVIOUS
<1>4. \A x \in Requests : Orderly(<<"check", x, "parse">>)
  OBVIOUS
<1>5. Orderly(<<"check", "get", "parse", "set", "parse">>)
  OBVIOUS
<1>6. Orderly(<<"check", "fetch", "create", "parse">>)
  OBVIOUS
<1>7. Orderly(<<"create", "parse", "get", "parse">>)
  OBVIOUS
<1>8. Orderly(<<"check", "set", "get", "parse">>)
  OBVIOUS
<1>. HIDE DEF Orderly, Requests
<1>. QED  BY <1>1, <1>2, <1>3, <1>4, <1>5, <1>6, <1>7, <1>8 DEF Forms

\* Only incidents are swapped, and those have no revert.
LEMMA ResourceForms ==
  ASSUME NEW r \in Resources
  PROVE  \/ Programs(r) \subseteq Forms(Requests \ {"swap"})
         \/ Programs(r) \subseteq Forms(Requests \ {"revert"})
<1>. DEFINE kinds == Requests \ {"swap"}
<1>. USE DEF Programs, Forms, Requests, Reads, Writes
<1>1. ASSUME r \in {UrlListsResource, UpgradeProfilesResource, NpaPolicyRulesResource,
            NpaPolicyGroupsResource, NpaResource, PrivateAppTagsResource,
            PrivateAppsResource, PublishersResource, LocalBrokersResource,
            SteeringResource}
      PROVE  \A p \in Programs(r) : p \in Forms(kinds)
  BY <1>1 DEF UrlListsResource, UpgradeProfilesResource, NpaPolicyRulesResource,
     NpaPolicyGroupsResource, NpaResource, PrivateAppTagsResource,
     PrivateAppsResource, PublishersResource, LocalBrokersResource,
     SteeringResource
<1>2. ASSUME r \in {TokensResource, RbacRolesResource, RbacAdminsResource,
            ScimUsersResource, ScimGroupsResource, UsersResource,
            UserGroupsResource, EnrollmentResource, NotificationsResource,
            DevicesResource, DeviceTagsResource}
      PROVE  \A p \in Programs(r) : p \in Forms(kinds)
  BY <1>2 DEF TokensResource, RbacRolesResource, RbacAdminsResource, ScimUsersResource,
     ScimGroupsResource, UsersResource, UserGroupsResource, EnrollmentResource,
     NotificationsResource, DevicesResource, DeviceTagsResource
<1>3. ASSUME r \in {EventsResource, AlertsResource, AtpResource, NsiqResource}
      PROVE  \A p \in Programs(r) : p \in Forms(kinds)
  BY <1>3 DEF EventsResource, AlertsResource, AtpResource, NsiqResource
<1>4. ASSUME r \in {IpsResource, DnsInheritanceGroupsResource, DnsResource, RbiResource}
      PROVE  \A p \in Programs(r) : p \in Forms(kinds)
  BY <1>4 DEF IpsResource, DnsInheritanceGroupsResource, DnsResource, RbiResource
<1>5. ASSUME r \in {DspmResource, SpmResource, CciTagsResource, CciResource}
      PROVE  \A p \in Programs(r) : p \in Forms(kinds)
  BY <1>5 DEF DspmResource, SpmResource, CciTagsResource, CciResource, SetWrites
<1>6. ASSUME r \in {DemProbesResource, DemNetworkProbesResource, DemAlertRulesResource,
            DemQueryResource, DemAlertsResource, DemAppsResource,
            DemUsersResource}
      PROVE  \A p \in Programs(r) : p \in Forms(kinds)
  BY <1>6 DEF DemProbesResource, DemNetworkProbesResource, DemAlertRulesResource,
     DemQueryResource, DemAlertsResource, DemAppsResource, DemUsersResource
<1>7. ASSUME r = IncidentsResource
      PROVE  \A p \in Programs(r) : p \in Forms(Requests \ {"revert"})
  BY <1>7 DEF IncidentsResource
<1>. HIDE DEF Programs, Forms, Requests, kinds
<1>. QED  BY <1>1, <1>2, <1>3, <1>4, <1>5, <1>6, <1>7
  DEF Resources, kinds, AsyncUrlListsResource, AsyncUpgradeProfilesResource,
      AsyncNpaPolicyRulesResource, AsyncNpaPolicyGroupsResource,
      AsyncNpaResource, AsyncPrivateAppTagsResource, AsyncPrivateAppsResource,
      AsyncPublishersResource, AsyncLocalBrokersResource,
      AsyncSteeringResource, AsyncTokensResource, AsyncRbacRolesResource,
      AsyncRbacAdminsResource, AsyncScimUsersResource, AsyncScimGroupsResource,
      AsyncUsersResource, AsyncUserGroupsResource, AsyncEnrollmentResource,
      AsyncNotificationsResource, AsyncDevicesResource,
      AsyncDeviceTagsResource, AsyncEventsResource, AsyncAlertsResource,
      AsyncIncidentsResource, AsyncAtpResource, AsyncNsiqResource,
      AsyncIpsResource, AsyncDnsInheritanceGroupsResource, AsyncDnsResource,
      AsyncRbiResource, AsyncDspmResource, AsyncSpmResource,
      AsyncCciTagsResource, AsyncCciResource, AsyncDemProbesResource,
      AsyncDemNetworkProbesResource, AsyncDemAlertRulesResource,
      AsyncDemQueryResource, AsyncDemAlertsResource, AsyncDemAppsResource,
      AsyncDemUsersResource

\* The programs of all methods are orderly.
THEOREM ProgramsAreOrderly ==
  \A r \in Resources : \A p \in Programs(r) : Orderly(p)
<1>1. \A r \in Resources : Programs(r) \subseteq Forms(Requests)
  BY ResourceForms DEF Forms
<1>. QED  BY <1>1, FormsAreOrderly

\* A resource whose objects are swapped has no pending changes to discard.
LEMMA SwappedIsNotReverted ==
  ASSUME NEW r \in Resources, NEW p \in Programs(r), NEW q \in Programs(r),
         Makes(p, "swap")
  PROVE  ~Makes(q, "revert")
<1>1. \A x \in Forms(Requests \ {"swap"}) : ~Makes(x, "swap")
  BY DEF Forms, Makes
<1>2. \A x \in Forms(Requests \ {"revert"}) : ~Makes(x, "revert")
  BY DEF Forms, Makes
<1>. QED  BY <1>1, <1>2, ResourceForms

===============================================================================
