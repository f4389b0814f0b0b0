----------------------------- MODULE Resources -----------------------------
(***************************************************************************)
(* What each method of the resource classes does, in order.  A method is   *)
(* a set of programs, one for each way its arguments or a reply lead       *)
(* through it, and a program a sequence of steps:                          *)
(*                                                                         *)
(*   check      arguments are validated; ValidationError if they are wrong *)
(*   parse      a reply is turned into a model, which may raise            *)
(*   fetch      request that reads; stands for all pages of a listing      *)
(*   get        request that reads one object, NotFoundError without it    *)
(*   create     request that makes the object; mint, with a secret that    *)
(*              only the reply has                                         *)
(*   set        request that gives the object fields (PATCH, PUT)          *)
(*   swap       the same, if a field has the value that the caller expects *)
(*   delete     request that removes the object; purge, that only has the  *)
(*              server accept to do so                                     *)
(*   configure  request that sets what the tenant has one of               *)
(*   add, remove, replace  requests about the members of a set, such as    *)
(*              the tags of an app; add_set, remove_set, replace_set, that *)
(*              give the object fields as well                             *)
(*   issue      request for a new secret, which only the reply has         *)
(*   deploy     request that makes pending changes live; revert, that      *)
(*              discards them                                              *)
(*   append     request that does something new each time: adds a note or  *)
(*              a report, or starts a scan, an upgrade or a reset          *)
(*                                                                         *)
(* An asynchronous class has the methods of its twin, with the same steps: *)
(* what its definition says.  The await of a step is the step's end.       *)
(***************************************************************************)
EXTENDS Naturals, Sequences, FiniteSets

Reads == {"fetch", "get"}
Writes == {"create", "mint", "set", "swap", "delete", "purge", "configure", "add",
           "remove", "replace", "add_set", "remove_set", "replace_set", "issue",
           "deploy", "revert", "append"}
SetWrites == {"add_set", "remove_set", "replace_set"}
Requests == Reads \union Writes
Steps == {"check", "parse"} \union Requests

-----------------------------------------------------------------------------
(* Policy and private access.                                              *)

UrlListsResource == [
  list   |-> {<<"fetch", "parse">>},
  get    |-> {<<"get", "parse">>},
  create |-> {<<"create", "parse">>},
  update |-> {<<"check", "get", "parse", "set", "parse">>},
  delete |-> {<<"delete">>},
  deploy |-> {<<"deploy">>}]

UpgradeProfilesResource == [
  list   |-> {<<"fetch", "parse">>},
  get    |-> {<<"get", "parse">>},
  create |-> {<<"check", "create", "parse">>},
  update |-> {<<"check", "get", "parse", "set", "parse">>},
  delete |-> {<<"delete">>},
  assign |-> {<<"set">>}]

NpaPolicyRulesResource == [
  list   |-> {<<"fetch", "parse">>},
  get    |-> {<<"check", "get", "parse">>},
  create |-> {<<"check", "create", "parse">>},
  update |-> {<<"check", "set", "parse">>},
  delete |-> {<<"check", "delete">>}]

\* Without an anchor group, create looks for one.
NpaPolicyGroupsResource == [
  list   |-> {<<"fetch", "parse">>},
  get    |-> {<<"check", "get", "parse">>},
  create |-> {<<"check", "fetch", "create", "parse">>, <<"check", "create", "parse">>},
  update |-> {<<"check", "set", "parse">>},
  delete |-> {<<"check", "delete">>}]

NpaResource == [
  validate_name |-> {<<"check", "fetch">>},
  search        |-> {<<"check", "fetch">>}]

PrivateAppTagsResource == [
  list    |-> {<<"fetch", "parse">>},
  get     |-> {<<"check", "get", "parse">>},
  create  |-> {<<"create", "parse">>},
  update  |-> {<<"check", "set", "parse">>},
  delete  |-> {<<"check", "delete">>},
  add     |-> {<<"add">>},
  replace |-> {<<"replace">>},
  remove  |-> {<<"remove">>},
  get_policy_in_use |-> {<<"fetch">>}]

PrivateAppsResource == [
  list    |-> {<<"fetch", "parse">>},
  get     |-> {<<"get", "parse">>},
  create  |-> {<<"create", "parse">>},
  update  |-> {<<"set", "parse">>},
  replace |-> {<<"set", "parse">>},
  delete  |-> {<<"delete">>},
  bulk_delete |-> {<<"delete">>},
  get_policy_in_use |-> {<<"fetch">>},
  get_discovery_settings    |-> {<<"fetch">>},
  update_discovery_settings |-> {<<"configure">>},
  add_publishers     |-> {<<"add">>},
  replace_publishers |-> {<<"replace">>},
  remove_publishers  |-> {<<"remove">>}]

PublishersResource == [
  list   |-> {<<"fetch", "parse">>},
  get    |-> {<<"get", "parse">>},
  create |-> {<<"create", "parse">>},
  update |-> {<<"set", "parse">>},
  delete |-> {<<"delete">>},
  list_apps     |-> {<<"get">>},
  list_releases |-> {<<"fetch", "parse">>},
  create_registration_token   |-> {<<"issue", "parse">>},
  bulk_upgrade                |-> {<<"append">>},
  get_alerts_configuration    |-> {<<"fetch", "parse">>},
  update_alerts_configuration |-> {<<"check", "configure", "parse">>}]

LocalBrokersResource == [
  list   |-> {<<"fetch", "parse">>},
  get    |-> {<<"get", "parse">>},
  create |-> {<<"check", "create", "parse">>},
  update |-> {<<"check", "set", "parse">>},
  delete |-> {<<"delete">>},
  get_config    |-> {<<"fetch", "parse">>},
  update_config |-> {<<"configure", "parse">>},
  create_registration_token |-> {<<"issue", "parse">>}]

SteeringResource == [
  get_config    |-> {<<"check", "fetch", "parse">>},
  update_config |-> {<<"check", "configure", "parse">>},
  list_pops     |-> {<<"fetch", "parse">>},
  list_tunnels  |-> {<<"check", "fetch", "parse">>},
  get_tunnel    |-> {<<"get", "parse">>},
  create_tunnel |-> {<<"check", "create", "parse">>},
  update_tunnel |-> {<<"check", "set", "parse">>},
  delete_tunnel |-> {<<"delete">>},
  list_devices  |-> {<<"fetch", "parse">>}]

-----------------------------------------------------------------------------
(* Administration and users.                                               *)

TokensResource == [
  list    |-> {<<"fetch", "parse">>},
  get     |-> {<<"check", "get", "parse">>},
  create  |-> {<<"check", "mint", "parse">>},
  update  |-> {<<"check", "set", "parse">>},
  reissue |-> {<<"check", "issue", "parse">>},
  delete  |-> {<<"check", "delete">>}]

\* create and update end with a read of the role; create does so if the reply
\* names it.
RbacRolesResource == [
  list   |-> {<<"check", "fetch", "parse">>},
  get    |-> {<<"check", "get", "parse">>},
  create |-> {<<"create", "parse">>, <<"create", "parse", "get", "parse">>},
  update |-> {<<"check", "set", "get", "parse">>},
  delete |-> {<<"check", "delete">>}]

RbacAdminsResource == [list |-> {<<"fetch", "parse">>}]

\* A plausible slip: the id is looked at when the reply comes.
ScimUsersResourceUnchecked == [
  list   |-> {<<"fetch", "parse">>},
  get    |-> {<<"check", "get", "parse">>},
  create |-> {<<"create", "parse">>},
  update |-> {<<"set", "check", "parse">>},
  delete |-> {<<"check", "delete">>}]

ScimUsersResource == [
  list   |-> {<<"fetch", "parse">>},
  get    |-> {<<"check", "get", "parse">>},
  create |-> {<<"create", "parse">>},
  update |-> {<<"check", "set", "parse">>},
  delete |-> {<<"check", "delete">>}]

ScimGroupsResource == [
  list   |-> {<<"fetch", "parse">>},
  get    |-> {<<"check", "get", "parse">>},
  create |-> {<<"create", "parse">>},
  update |-> {<<"check", "set", "parse">>},
  delete |-> {<<"check", "delete">>}]

\* get returns None for a user that is not there.
UsersResource == [
  list |-> {<<"fetch", "parse">>},
  get  |-> {<<"fetch", "parse">>}]

UserGroupsResource == [
  list    |-> {<<"fetch", "parse">>},
  get     |-> {<<"fetch", "parse">>},
  members |-> {<<"fetch", "parse">>}]

EnrollmentResource == [
  list_token_sets   |-> {<<"fetch", "parse">>},
  create_token_set  |-> {<<"check", "create", "parse">>},
  update_token_set  |-> {<<"check", "set", "parse">>},
  delete_token_set  |-> {<<"check", "delete">>},
  delete_token_type |-> {<<"check", "remove", "parse">>}]

NotificationsResource == [
  list_templates  |-> {<<"fetch", "parse">>},
  get_template    |-> {<<"check", "get", "parse">>},
  create_template |-> {<<"check", "create", "parse">>},
  update_template |-> {<<"check", "set", "parse">>},
  delete_template |-> {<<"check", "delete">>},
  get_delivery_settings |-> {<<"fetch">>}]

DevicesResource == [
  list         |-> {<<"fetch", "parse">>},
  supported_os |-> {<<"fetch">>}]

DeviceTagsResource == [
  list   |-> {<<"check", "fetch", "parse">>},
  get    |-> {<<"check", "get", "parse">>},
  create |-> {<<"check", "create", "parse">>},
  update |-> {<<"check", "set", "parse">>},
  delete |-> {<<"check", "delete">>}]

-----------------------------------------------------------------------------
(* Events and threat protection.                                           *)

EventsResource == [
  list |-> {<<"check", "fetch", "parse">>},
  get  |-> {<<"check", "get", "parse">>}]

AlertsResource == [
  list |-> {<<"fetch", "parse">>},
  get  |-> {<<"check", "get", "parse">>}]

\* A note is a member of its incident's notes.
IncidentsResource == [
  list          |-> {<<"fetch", "parse">>},
  update        |-> {<<"check", "swap">>},
  get_forensics |-> {<<"check", "get">>},
  get_uci       |-> {<<"fetch", "parse">>},
  get_anomalies |-> {<<"check", "fetch", "parse">>},
  list_notes    |-> {<<"check", "get", "parse">>},
  add_note      |-> {<<"check", "append", "parse">>},
  delete_note   |-> {<<"check", "remove">>}]

AtpResource == [
  scan_file      |-> {<<"append">>},
  scan_file_path |-> {<<"append">>},
  get_report     |-> {<<"check", "get">>},
  get_scan_result       |-> {<<"check", "get">>},
  get_submission_report |-> {<<"check", "get">>},
  scan_url       |-> {<<"append">>},
  get_url_report        |-> {<<"check", "get">>},
  list_url_artifacts    |-> {<<"check", "get">>}]

NsiqResource == [
  url_lookup   |-> {<<"fetch">>},
  recategorize |-> {<<"append">>},
  list_recategorizations          |-> {<<"fetch">>},
  get_recategorization            |-> {<<"check", "get">>},
  get_recategorization_url_status |-> {<<"check", "get">>},
  lookup_iocs    |-> {<<"fetch">>},
  get_ioc        |-> {<<"get">>},
  get_ioc_report |-> {<<"get">>},
  report_url_false_positive     |-> {<<"append">>},
  report_malware_false_positive |-> {<<"append">>},
  report_ips_false_positive     |-> {<<"append">>},
  validate_user_email           |-> {<<"fetch">>}]

\* The overrides of signatures are members.
IpsResource == [
  status            |-> {<<"fetch">>},
  update_status     |-> {<<"check", "configure">>},
  list_allowlist    |-> {<<"fetch">>},
  update_allowlist  |-> {<<"check", "configure">>},
  list_signatures   |-> {<<"fetch">>},
  search_signatures |-> {<<"check", "fetch">>},
  get_alert_only_mode        |-> {<<"fetch">>},
  set_alert_only_mode        |-> {<<"configure">>},
  list_signature_overrides   |-> {<<"fetch">>},
  update_signature_overrides |-> {<<"check", "add">>},
  delete_signature_overrides |-> {<<"check", "remove">>},
  get_notification_template    |-> {<<"fetch">>},
  update_notification_template |-> {<<"check", "configure">>},
  get_threat_hunting_config    |-> {<<"fetch">>},
  update_threat_hunting_config |-> {<<"check", "configure">>}]

DnsInheritanceGroupsResource == [
  list   |-> {<<"fetch", "parse">>},
  get    |-> {<<"check", "get", "parse">>},
  create |-> {<<"create", "parse">>},
  update |-> {<<"check", "set", "parse">>},
  delete |-> {<<"check", "delete">>},
  deploy |-> {<<"check", "deploy">>}]

DnsResource == [
  list   |-> {<<"fetch", "parse">>},
  get    |-> {<<"check", "get", "parse">>},
  create |-> {<<"create", "parse">>},
  update |-> {<<"check", "set", "parse">>},
  delete |-> {<<"check", "delete">>},
  deploy |-> {<<"check", "deploy">>},
  list_tunnels           |-> {<<"fetch">>},
  list_domain_categories |-> {<<"fetch">>},
  list_record_types      |-> {<<"fetch">>}]

RbiResource == [
  list_applications       |-> {<<"fetch">>},
  list_supported_browsers |-> {<<"fetch">>},
  list_default_categories |-> {<<"fetch">>},
  list_templates       |-> {<<"fetch">>},
  get_template         |-> {<<"check", "get">>},
  get_default_template |-> {<<"fetch">>},
  list_template_diffs  |-> {<<"fetch">>},
  get_template_diffs   |-> {<<"check", "get">>},
  create_template  |-> {<<"create">>},
  update_template  |-> {<<"check", "set">>},
  delete_template  |-> {<<"check", "delete">>},
  restore_template |-> {<<"check", "set">>},
  deploy_templates |-> {<<"deploy">>},
  revert_templates |-> {<<"revert">>},
  get_cloud_storage        |-> {<<"fetch">>},
  update_cloud_storage     |-> {<<"configure">>},
  restore_cloud_storage    |-> {<<"configure">>},
  invalidate_cloud_storage |-> {<<"append">>},
  get_cdr          |-> {<<"fetch">>},
  update_cdr       |-> {<<"configure">>},
  restore_cdr      |-> {<<"configure">>},
  list_cdr_vendors |-> {<<"fetch">>},
  test_cdr_config  |-> {<<"fetch">>}]

DspmResource == [
  list_resources     |-> {<<"check", "fetch">>},
  analytics          |-> {<<"check", "fetch">>},
  connect_datastores |-> {<<"add">>},
  scan_datastores    |-> {<<"append">>}]

SpmResource == [
  list_apps         |-> {<<"fetch">>},
  get_app           |-> {<<"get">>},
  inventory         |-> {<<"fetch">>},
  posture_score     |-> {<<"fetch">>},
  list_policy_rules |-> {<<"fetch">>},
  recent_changes    |-> {<<"fetch">>}]

\* The apps of a tag are its members, its rules a field.  An update has apps to add
\* or to remove, or both, or none, and may have rules.
CciTagsResource == [
  list   |-> {<<"check", "fetch">>},
  create |-> {<<"check", "create">>},
  update |-> {<<"check", kind>> :
                kind \in {"add", "remove", "replace", "set"} \union SetWrites},
  delete |-> {<<"check", "purge">>},
  list_rules           |-> {<<"fetch">>},
  supported_attributes |-> {<<"fetch">>}]

CciResource == [lookup_app |-> {<<"fetch">>}]

-----------------------------------------------------------------------------
(* Experience management.  diagnose() of the users has its own module.     *)

DemProbesResource == [
  list   |-> {<<"fetch">>},
  get    |-> {<<"check", "get">>},
  create |-> {<<"create">>},
  update |-> {<<"check", "set">>},
  delete |-> {<<"check", "delete">>}]

DemNetworkProbesResource == [
  list   |-> {<<"fetch">>},
  get    |-> {<<"check", "get">>},
  update |-> {<<"check", "set">>},
  delete |-> {<<"check", "delete">>}]

DemAlertRulesResource == [
  list   |-> {<<"fetch">>},
  get    |-> {<<"check", "get">>},
  create |-> {<<"create">>},
  update |-> {<<"check", "set">>},
  delete |-> {<<"check", "delete">>}]

DemQueryResource == [
  get_data       |-> {<<"check", "fetch">>},
  get_entities   |-> {<<"check", "fetch">>},
  get_states     |-> {<<"check", "fetch">>},
  get_traceroute |-> {<<"check", "fetch">>},
  definitions    |-> {<<"fetch">>}]

DemAlertsResource == [
  search   |-> {<<"fetch", "parse">>},
  get      |-> {<<"check", "get", "parse">>},
  entities |-> {<<"check", "get">>}]

DemAppsResource == [list |-> {<<"fetch">>}]

DemUsersResource == [
  devices        |-> {<<"fetch", "parse">>},
  device_details |-> {<<"get">>},
  info           |-> {<<"get", "parse">>},
  applications   |-> {<<"fetch", "parse">>},
  locations         |-> {<<"fetch">>},
  aggregated_scores |-> {<<"get">>},
  exp_score         |-> {<<"get">>},
  rca               |-> {<<"get">>},
  network_metrics   |-> {<<"get">>},
  npa_hosts         |-> {<<"get">>},
  npa_network_paths |-> {<<"get">>},
  traceroute_timestamps |-> {<<"get">>},
  traceroute            |-> {<<"get">>}]

-----------------------------------------------------------------------------
(* The asynchronous classes.                                               *)

AsyncUrlListsResource == UrlListsResource
AsyncUpgradeProfilesResource == UpgradeProfilesResource
AsyncNpaPolicyRulesResource == NpaPolicyRulesResource
AsyncNpaPolicyGroupsResource == NpaPolicyGroupsResource
AsyncNpaResource == NpaResource
AsyncPrivateAppTagsResource == PrivateAppTagsResource
AsyncPrivateAppsResource == PrivateAppsResource
AsyncPublishersResource == PublishersResource
AsyncLocalBrokersResource == LocalBrokersResource
AsyncSteeringResource == SteeringResource
AsyncTokensResource == TokensResource
AsyncRbacRolesResource == RbacRolesResource
AsyncRbacAdminsResource == RbacAdminsResource
AsyncScimUsersResource == ScimUsersResource
AsyncScimGroupsResource == ScimGroupsResource
AsyncUsersResource == UsersResource
AsyncUserGroupsResource == UserGroupsResource
AsyncEnrollmentResource == EnrollmentResource
AsyncNotificationsResource == NotificationsResource
AsyncDevicesResource == DevicesResource
AsyncDeviceTagsResource == DeviceTagsResource
AsyncEventsResource == EventsResource
AsyncAlertsResource == AlertsResource
AsyncIncidentsResource == IncidentsResource
AsyncAtpResource == AtpResource
AsyncNsiqResource == NsiqResource
AsyncIpsResource == IpsResource
AsyncDnsInheritanceGroupsResource == DnsInheritanceGroupsResource
AsyncDnsResource == DnsResource
AsyncRbiResource == RbiResource
AsyncDspmResource == DspmResource
AsyncSpmResource == SpmResource
AsyncCciTagsResource == CciTagsResource
AsyncCciResource == CciResource
AsyncDemProbesResource == DemProbesResource
AsyncDemNetworkProbesResource == DemNetworkProbesResource
AsyncDemAlertRulesResource == DemAlertRulesResource
AsyncDemQueryResource == DemQueryResource
AsyncDemAlertsResource == DemAlertsResource
AsyncDemAppsResource == DemAppsResource
AsyncDemUsersResource == DemUsersResource

-----------------------------------------------------------------------------
Resources == {
  UrlListsResource, UpgradeProfilesResource, NpaPolicyRulesResource,
  NpaPolicyGroupsResource, NpaResource, PrivateAppTagsResource, PrivateAppsResource,
  PublishersResource, LocalBrokersResource, SteeringResource, TokensResource,
  RbacRolesResource, RbacAdminsResource, ScimUsersResource, ScimGroupsResource,
  UsersResource, UserGroupsResource, EnrollmentResource, NotificationsResource,
  DevicesResource, DeviceTagsResource, EventsResource, AlertsResource,
  IncidentsResource, AtpResource, NsiqResource, IpsResource,
  DnsInheritanceGroupsResource, DnsResource, RbiResource, DspmResource, SpmResource,
  CciTagsResource, CciResource, DemProbesResource, DemNetworkProbesResource,
  DemAlertRulesResource, DemQueryResource, DemAlertsResource, DemAppsResource,
  DemUsersResource} \union {
  AsyncUrlListsResource, AsyncUpgradeProfilesResource, AsyncNpaPolicyRulesResource,
  AsyncNpaPolicyGroupsResource, AsyncNpaResource, AsyncPrivateAppTagsResource,
  AsyncPrivateAppsResource, AsyncPublishersResource, AsyncLocalBrokersResource,
  AsyncSteeringResource, AsyncTokensResource, AsyncRbacRolesResource,
  AsyncRbacAdminsResource, AsyncScimUsersResource, AsyncScimGroupsResource,
  AsyncUsersResource, AsyncUserGroupsResource, AsyncEnrollmentResource,
  AsyncNotificationsResource, AsyncDevicesResource, AsyncDeviceTagsResource,
  AsyncEventsResource, AsyncAlertsResource, AsyncIncidentsResource,
  AsyncAtpResource, AsyncNsiqResource, AsyncIpsResource,
  AsyncDnsInheritanceGroupsResource, AsyncDnsResource, AsyncRbiResource,
  AsyncDspmResource, AsyncSpmResource, AsyncCciTagsResource, AsyncCciResource,
  AsyncDemProbesResource, AsyncDemNetworkProbesResource, AsyncDemAlertRulesResource,
  AsyncDemQueryResource, AsyncDemAlertsResource, AsyncDemAppsResource,
  AsyncDemUsersResource}

\* What the methods of a resource may do.
Programs(resource) == UNION {resource[method] : method \in DOMAIN resource}

\* The program writes, and reads back what it wrote.
ReadsBack(p) == \E i, j \in DOMAIN p : i < j /\ p[i] \in Writes /\ p[j] \in Reads

Makes(p, kind) == \E i \in DOMAIN p : p[i] = kind

=============================================================================
