SPECIFICATION Spec
CHECK_DEADLOCK FALSE
CONSTANTS
  web = web
  store = store
  main = main
  default = default
  other = other
  app = app
  tier = tier
  golang = golang
  server = server
  v1 = v1
  v2 = v2
  latest = latest
  pool1 = pool1
  pool2 = pool2
  db = db
  docker = docker
  peers = peers
  routes = routes
  tocache = tocache
  toweb = toweb
  rollout = rollout
  Names = {web, store}
  Containers = {main}
  Namespaces = {default, other}
  Labels = {app, tier}
  Images = {golang, server}
  Tags = {v1, v2, latest}
  FloatingTags = {latest}
  Pools = {pool1, pool2}
  Hosts = {db}
  Probes <- MCProbes
  Dockerfiles = {docker}
  MeshFiles = {peers, routes}
  Resources = {tocache, toweb, rollout}
  Documents = {"disaster-recovery.md"}
  Position <- MCPosition
  None = None
  Drafts <- MCDrafts
  DockerDrafts <- MCDockerDrafts
  MeshDrafts <- MCMeshDrafts
  MaxEdits = 2
INVARIANTS
  OnlyKnownHitsAreSilent
PROPERTIES
  AdviceIsSound
  AdviceSettles
