\* Two replicas behind a balancer that sends changes to either.
SPECIFICATION Spec
CONSTANTS
  Replicas = {r1, r2}
  Emails = {alice, bob}
  NoAccount = NoAccount
  MaxGrants = 3
INVARIANT VolumeIsWhatAdminsWanted
